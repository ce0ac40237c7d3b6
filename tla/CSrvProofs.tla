----------------------------- MODULE CSrvProofs -----------------------------
(***************************************************************************)
(* Proofs about CSrv for any number of tunnels, descriptors, chunks and     *)
(* control lines, and any SRV_MAX_SESSIONS and timeout.                     *)
(***************************************************************************)
EXTENDS CSrv, FiniteSetTheorems, SequenceTheorems, WellFoundedInduction, TLAPS

-----------------------------------------------------------------------------
(* The inductive invariant *)

\* The mode decides where the main thread may be; no tunnel exists before it
\* has been asked for, and in single mode only the first one ever does.
Modes ==
    /\ (exit = "") <=> Running
    /\ mpc \in {"control", "auth", "reply", "loop"} => cfg.multi
    /\ mpc \in {"main", "single"} => ~cfg.multi
    /\ mpc \in {"main", "control", "auth", "reply"} =>
          active = 0 /\ \A s \in Session : sess[s] = NoSession
    /\ mpc = "single" => \A s \in Session \ {1} : sess[s].pc = "none"

\* Tunnels start in the order of their numbers.
StartedInOrder ==
    \A s, t \in Session : s < t /\ sess[t].pc # "none" => sess[s].pc # "none"

LiveSessions == {s \in Session : Live(s)}
Counted ==
    /\ mpc = "loop" => active = Cardinality(LiveSessions)
    /\ exit = "timeout" => LiveSessions = {}

\* Where socket_to_socket has the socket of side x open.
HasSocket(s, x) ==
    \/ sess[s].pc \in {"auth", "reply", "spawn", "wait", "joinOther", "joinBoth", "close"}
    \/ x = "a" /\ sess[s].pc = "connB"

\* A tunnel has a descriptor exactly while it should, and it is its own.
Sockets ==
    Running => \A s \in Session, x \in Side :
        /\ sess[s].fd[x] # 0 <=> HasSocket(s, x)
        /\ sess[s].fd[x] # 0 => owner[sess[s].fd[x]] = <<s, x>>

\* An open descriptor is known to the tunnel and side it was opened for.
Owned ==
    \A f \in Fd : owner[f] # Free =>
        Running /\ \E s \in Session, x \in Side : owner[f] = <<s, x>> /\ sess[s].fd[x] = f

\* Side threads exist only between their start and the end of their tunnel,
\* and both are gone when the sockets are closed.
ThreadsOf(s) ==
    /\ sess[s].pc \notin {"spawn", "wait", "joinOther", "joinBoth", "close"} =>
          \A x \in Side : thr[s][x].pc = "none"
    /\ sess[s].pc = "spawn" => thr[s]["b"].pc = "none"
    /\ sess[s].pc = "joinOther" => sess[s].first \in Side /\ Gone(s, sess[s].first)
    /\ sess[s].pc = "close" => \A x \in Side : Gone(s, x)
Threads == Running => \A s \in Session : ThreadsOf(s)

\* What left at the far end is what the thread read, in order, but for the
\* chunk it holds.
CarriedOf(s, x) ==
    LET t == thr[s][x]
        n == Len(out[s][Other(x)])
    IN  /\ t.pc = "recv" => t.read = n
        /\ t.pc = "send" => t.read = n + 1 /\ t.buf = <<s, x, t.read>>
        /\ \/ sess[s].pc \in {"none", "connA", "connB", "auth", "reply"}
           \/ sess[s].pc = "spawn" /\ x = "b"
           => n = 0 /\ t.read = 0
Carried == Running => \A s \in Session, x \in Side : CarriedOf(s, x)

IInv ==
    /\ Typed
    /\ Modes
    /\ StartedInOrder
    /\ Counted
    /\ Sockets
    /\ Owned
    /\ Threads
    /\ Carried
    /\ ReadyMeansConnected
    /\ Len(ctl.buf) <= LineCap

-----------------------------------------------------------------------------
(* Operators *)

\* A nonempty set of natural numbers has a least element.
LEMMA LeastNatural ==
    ASSUME NEW S \in SUBSET Nat, S # {}
    PROVE  \E m \in S : \A n \in S : m <= n
  <1>. DEFINE R == {p \in Nat \X Nat : p[1] < p[2]}
  <1>1. IsWellFoundedOn(R, Nat)
    BY NatLessThanWellFounded, Zenon DEF OpToRel
  <1>. HIDE DEF R
  <1>2. PICK m \in S : \A n \in S : ~ (<<n, m>> \in R)
    BY <1>1, WFMin
  <1>3. ASSUME NEW n \in S PROVE m <= n
    <2>1. SUFFICES ASSUME n < m PROVE FALSE
      OBVIOUS
    <2>2. <<n, m>> \in R
      BY <2>1 DEF R
    <2>. QED  BY <1>2, <2>2
  <1>. QED  BY <1>3

\* The lowest free descriptor is a free descriptor.
LEMMA MinIsAMember ==
    ASSUME NEW S \in SUBSET Nat, S # {}
    PROVE  Min(S) \in S /\ \A n \in S : Min(S) <= n
  BY LeastNatural DEF Min

\* The complete lines end with a line, and none ends behind them.
LEMMA CompleteLenIsLast ==
    ASSUME NEW buf \in Seq(Piece)
    PROVE  /\ CompleteLen(buf) \in 0 .. Len(buf)
           /\ CompleteLen(buf) # 0 => IsEnd(buf[CompleteLen(buf)])
           /\ \A i \in 1 .. Len(buf) : IsEnd(buf[i]) => i <= CompleteLen(buf)
  <1>. DEFINE ends == {i \in DOMAIN buf : IsEnd(buf[i])}
              gaps == {Len(buf) - i : i \in ends}
  <1>0. DOMAIN buf = 1 .. Len(buf) /\ Len(buf) \in Nat
    BY LenProperties
  <1>1. CASE ends = {}
    BY <1>0, <1>1 DEF CompleteLen
  <1>2. CASE ends # {}
    <2>1. gaps \in SUBSET Nat /\ gaps # {}
      BY <1>0, <1>2
    <2>2. PICK g \in gaps : \A h \in gaps : g <= h
      BY <2>1, LeastNatural
    <2>3. PICK m \in ends : g = Len(buf) - m
      OBVIOUS
    <2>4. ASSUME NEW i \in ends PROVE m >= i
      <3>1. g <= Len(buf) - i
        BY <2>2
      <3>. QED  BY <1>0, <3>1, <2>3
    <2>5. Max(ends) \in ends /\ \A i \in ends : Max(ends) >= i
      BY <2>4 DEF Max
    <2>6. CompleteLen(buf) = Max(ends)
      BY <1>2 DEF CompleteLen
    <2>. DEFINE x == CompleteLen(buf)
    <2>7. x \in ends /\ \A i \in ends : x >= i
      BY <2>5, <2>6
    <2>. HIDE DEF x
    <2>8. x \in 1 .. Len(buf) /\ IsEnd(buf[x])
      BY <1>0, <2>7
    <2>9. \A i \in 1 .. Len(buf) : IsEnd(buf[i]) => i <= x
      BY <1>0, <2>7, <2>8
    <2>. QED  BY <1>0, <2>8, <2>9 DEF x
  <1>. QED  BY <1>1, <1>2

-----------------------------------------------------------------------------
(* The steps of the main thread *)

\* The types of the constants, as the steps below use them.
LEMMA Constants ==
    /\ 1 \in Session /\ Session \subseteq Nat \ {0} /\ IsFiniteSet(Session)
    /\ MaxSessions \in Nat /\ Timeout \in Nat /\ RecvMax \in Nat /\ MaxChunks \in Nat
    /\ LineCap \in Nat /\ LineCap >= RecvMax + 1
    /\ 0 \notin Fd
  BY SessionAssumption, FdAssumption, BoundAssumption, FS_CardinalityType

\* The records that stand for nothing have their types.
LEMMA Nothing ==
    /\ NoSession \in SessionState /\ NoThread \in ThreadState /\ NoControl \in ControlState
    /\ NoSession.pc = "none" /\ NoSession.fd = [x \in Side |-> 0]
    /\ NoThread.pc = "none" /\ NoThread.read = 0 /\ NoControl.buf = <<>>
  BY Constants DEF NoSession, NoThread, NoControl, SessionState, ThreadState, ControlState,
                   SessPC, ThreadPC

\* A step of one tunnel changes the record of that tunnel only.
LEMMA SessAt ==
    ASSUME Typed, NEW s \in Session, NEW r \in SessionState, sess' = [sess EXCEPT ![s] = r]
    PROVE  /\ sess' \in [Session -> SessionState] /\ sess'[s] = r
           /\ \A t \in Session : t # s => sess'[t] = sess[t]
  BY DEF Typed

\* Moving on to another label changes nothing else of the tunnel.
LEMMA GotoAt ==
    ASSUME Typed, NEW s \in Session, NEW l \in SessPC, sess' = [sess EXCEPT ![s].pc = l]
    PROVE  /\ sess' \in [Session -> SessionState]
           /\ sess'[s].pc = l /\ sess'[s].fd = sess[s].fd /\ sess'[s].first = sess[s].first
           /\ \A t \in Session : t # s => sess'[t] = sess[t]
  <1>. DEFINE r == [sess[s] EXCEPT !.pc = l]
  <1>1. sess[s] \in SessionState
    BY DEF Typed
  <1>2. r \in SessionState /\ r.pc = l /\ r.fd = sess[s].fd /\ r.first = sess[s].first
    BY <1>1 DEF SessionState
  <1>3. sess' = [sess EXCEPT ![s] = r]
    OBVIOUS
  <1>. HIDE DEF r
  <1>. QED  BY <1>2, <1>3, SessAt

\* So does remembering which side ended first.
LEMMA FirstAt ==
    ASSUME Typed, NEW s \in Session, NEW l \in SessPC, NEW x \in Side,
           sess' = [sess EXCEPT ![s].pc = l, ![s].first = x]
    PROVE  /\ sess' \in [Session -> SessionState]
           /\ sess'[s].pc = l /\ sess'[s].fd = sess[s].fd /\ sess'[s].first = x
           /\ \A t \in Session : t # s => sess'[t] = sess[t]
  <1>. DEFINE r == [sess[s] EXCEPT !.pc = l, !.first = x]
  <1>1. sess[s] \in SessionState
    BY DEF Typed
  <1>2. r \in SessionState /\ r.pc = l /\ r.fd = sess[s].fd /\ r.first = x
    BY <1>1 DEF SessionState
  <1>3. sess' = [sess EXCEPT ![s] = r]
    OBVIOUS
  <1>. HIDE DEF r
  <1>. QED  BY <1>2, <1>3, SessAt

\* A step of one side thread changes the record of that thread only.
LEMMA ThrAt ==
    ASSUME Typed, NEW s \in Session, NEW x \in Side, NEW r \in ThreadState,
           thr' = [thr EXCEPT ![s][x] = r]
    PROVE  /\ thr' \in [Session -> [Side -> ThreadState]] /\ thr'[s][x] = r
           /\ \A t \in Session, y \in Side : t # s \/ y # x => thr'[t][y] = thr[t][y]
  BY DEF Typed

\* The end of the process, for whatever reason it ends: only idleness needs
\* one, that no tunnel is live.
LEMMA ExitKeeps ==
    ASSUME IInv, Running, NEW why \in {"usage", "failed", "control", "timeout", "done"},
           Exit(why), UNCHANGED <<cfg, reported, clock, sess, out>>,
           why = "timeout" => LiveSessions = {}
    PROVE  IInv'
  <1>1. Typed'
    <2>1. /\ ctl' \in ControlState /\ handled' \in Nat
          /\ thr' \in [Session -> [Side -> ThreadState]]
      BY Nothing DEF Exit
    <2>2. pipe' \in [Session -> Seq(Side)] /\ owner' \in [Fd -> Conn \cup {Free}]
      BY DEF Exit
    <2>3. mpc' = "exited" /\ exit' = why
      BY DEF Exit
    <2>. QED  BY <2>1, <2>2, <2>3 DEF IInv, Typed, clock
  <1>2. Modes' /\ StartedInOrder' /\ Counted'
    BY DEF IInv, Modes, StartedInOrder, Counted, LiveSessions, Live, Exit, Running, clock
  <1>3. Sockets' /\ Owned' /\ Threads' /\ Carried' /\ ReadyMeansConnected'
    BY DEF Sockets, Owned, Threads, Carried, ReadyMeansConnected, Exit, Running
  <1>4. Len(ctl.buf)' <= LineCap
    BY Constants DEF Exit, NoControl
  <1>. QED  BY <1>1, <1>2, <1>3, <1>4 DEF IInv

\* A step that leaves the tunnels, their threads and the sockets alone keeps
\* what the invariant says of them.
LEMMA TunnelsUntouched ==
    ASSUME IInv, mpc' # "exited", UNCHANGED <<sess, thr, owner, out>>, Running
    PROVE  /\ StartedInOrder' /\ Sockets' /\ Owned' /\ Threads' /\ Carried'
           /\ LiveSessions' = LiveSessions
  BY DEF IInv, StartedInOrder, Sockets, HasSocket, Owned, Threads, ThreadsOf, Gone,
         Carried, CarriedOf, Running, LiveSessions, Live

\* main: parse the command line and choose the mode.
LEMMA MainKeeps ==
    ASSUME IInv, NEW o \in Options, Main(o)
    PROVE  IInv'
  <1>. USE Constants
  <1>0. mpc = "main" /\ Running
    BY DEF Main, Running
  <1>1. ASSUME NEW why \in {"usage", "failed"}, Exit(why), UNCHANGED <<cfg, sess>>
        PROVE  IInv'
    BY <1>0, <1>1, ExitKeeps DEF Main, clock
  <1>2. ASSUME o.multi, cfg' = [auth |-> AuthMode(o), e2ee |-> o.e2ee, multi |-> o.multi],
               mpc' = "control", UNCHANGED sess, NoExit
        PROVE  IInv'
    <2>1. UNCHANGED <<exit, owner, thr, pipe, ctl, batch, handled, reported, active, idle, out>>
      BY <1>2 DEF Main, NoExit, control, clock
    <2>2. Typed'
      BY <1>2, <2>1, OptionsAssumption DEF IInv, Typed, AnyOptions, AuthMode
    <2>3. Modes' /\ Counted' /\ ReadyMeansConnected' /\ Len(ctl.buf)' <= LineCap
      BY <1>0, <1>2, <2>1 DEF IInv, Modes, Counted, ReadyMeansConnected, LiveSessions, Live,
                              Running
    <2>. QED  BY <1>0, <1>2, <2>1, <2>2, <2>3, TunnelsUntouched DEF IInv
  <1>3. ASSUME ~o.multi, cfg' = [auth |-> AuthMode(o), e2ee |-> o.e2ee, multi |-> o.multi],
               mpc' = "single", sess' = [sess EXCEPT ![1].pc = "connA"], NoExit
        PROVE  IInv'
    <2>1. UNCHANGED <<exit, owner, thr, pipe, ctl, batch, handled, reported, active, idle, out>>
      BY <1>3 DEF Main, NoExit, control, clock
    <2>2. /\ sess' \in [Session -> SessionState]
          /\ sess'[1].pc = "connA" /\ sess'[1].fd = sess[1].fd
          /\ \A t \in Session : t # 1 => sess'[t] = sess[t]
      BY <1>3, GotoAt DEF IInv, SessPC
    <2>3. \A s \in Session : sess[s].pc = "none" /\ sess[s].fd = [x \in Side |-> 0]
      BY <1>0, Nothing DEF IInv, Modes
    <2>4. Typed'
      BY <1>3, <2>1, <2>2, OptionsAssumption DEF IInv, Typed, AnyOptions, AuthMode
    <2>5. Modes' /\ ReadyMeansConnected' /\ Len(ctl.buf)' <= LineCap
      BY <1>0, <1>3, <2>1, <2>2, <2>3 DEF IInv, Modes, ReadyMeansConnected, Running
    <2>6. Counted' /\ StartedInOrder'
      <3>1. exit' = ""
        BY <1>0, <2>1 DEF IInv, Modes
      <3>2. \A s, t \in Session : s < t => t # 1
        BY Constants
      <3>. QED  BY <1>3, <2>2, <2>3, <3>1, <3>2 DEF Counted, StartedInOrder
    <2>7. Sockets' /\ Owned'
      BY <1>0, <1>3, <2>1, <2>2, <2>3 DEF IInv, Sockets, HasSocket, Owned, Running
    <2>8. Threads'
      BY <1>0, <1>3, <2>1, <2>2, <2>3 DEF IInv, Threads, ThreadsOf, Running, Gone
    <2>9. Carried'
      <3>1. ASSUME NEW s \in Session, NEW x \in Side PROVE CarriedOf(s, x)'
        <4>1. CarriedOf(s, x)
          BY <1>0 DEF IInv, Carried
        <4>2. sess[s].pc = "none" /\ thr' = thr /\ out' = out
          BY <2>1, <2>3
        <4>. QED  BY <4>1, <4>2 DEF CarriedOf
      <3>. QED  BY <3>1 DEF Carried
    <2>. QED  BY <2>4, <2>5, <2>6, <2>7, <2>8, <2>9 DEF IInv
  <1>. QED  BY <1>1, <1>2, <1>3 DEF Main

\* The control connection is made, or cannot be.
LEMMA ControlConnectKeeps ==
    ASSUME IInv, ControlConnect
    PROVE  IInv'
  <1>0. mpc = "control" /\ Running
    BY DEF ControlConnect, Running
  <1>1. CASE Exit("failed")
    BY <1>0, <1>1, ExitKeeps DEF ControlConnect
  <1>2. CASE mpc' = "auth" /\ NoExit
    <2>1. UNCHANGED <<cfg, exit, owner, thr, pipe, ctl, batch, handled, reported, active, idle,
                      sess, out>>
      BY <1>2 DEF ControlConnect, NoExit, control, clock
    <2>2. Typed'
      BY <1>2, <2>1 DEF IInv, Typed
    <2>3. Modes' /\ Counted' /\ ReadyMeansConnected' /\ Len(ctl.buf)' <= LineCap
      BY <1>0, <1>2, <2>1 DEF IInv, Modes, Counted, ReadyMeansConnected, LiveSessions, Live,
                              Running
    <2>. QED  BY <1>0, <1>2, <2>1, <2>2, <2>3, TunnelsUntouched DEF IInv
  <1>. QED  BY <1>1, <1>2 DEF ControlConnect

\* The control connection authenticates: only the relay's acceptance reports
\* srv ready and starts the receive loop.
LEMMA ControlAuthKeeps ==
    ASSUME IInv, ControlAuth
    PROVE  IInv'
  <1>0. mpc \in {"auth", "reply"} /\ Running
    BY DEF ControlAuth, Running
  <1>1. PICK l \in RelayAuth(mpc) :
          /\ IF l = "failed" THEN Exit("failed")
             ELSE NoExit /\ mpc' = IF l = "ok" THEN "loop" ELSE l
          /\ IF l = "ok" THEN ReportStarted ELSE UNCHANGED reported
          /\ idle' = IF l = "ok" THEN 0 ELSE idle
    BY DEF ControlAuth
  <1>2. l \in {"ok", "reply", "failed"} /\ UNCHANGED <<cfg, active, sess, out>>
    BY DEF RelayAuth, ControlAuth
  <1>3. CASE l = "failed"
    BY <1>0, <1>1, <1>2, <1>3, ExitKeeps DEF clock
  <1>4. CASE l # "failed"
    <2>1. UNCHANGED <<exit, owner, thr, pipe, ctl, batch, handled>>
      BY <1>1, <1>4 DEF NoExit, control
    <2>2. mpc' = (IF l = "ok" THEN "loop" ELSE "reply") /\ mpc' # "exited"
      BY <1>1, <1>2, <1>4
    <2>3. Typed'
      <3>0. reported' \in BOOLEAN
        BY <1>1 DEF IInv, Typed, ReportStarted
      <3>1. idle' \in 0 .. Timeout
        <4>1. idle \in 0 .. Timeout
          BY DEF IInv, Typed
        <4>. QED  BY <1>1, <4>1, Constants
      <3>2. mpc' \in {"loop", "reply"}
        BY <2>2
      <3>. QED  BY <1>2, <2>1, <3>0, <3>1, <3>2 DEF IInv, Typed
    <2>4. LiveSessions = {}
      <3>1. \A s \in Session : sess[s].pc = "none"
        BY <1>0, Nothing DEF IInv, Modes
      <3>. QED  BY <3>1 DEF LiveSessions, Live
    <2>5. LiveSessions' = {} /\ StartedInOrder' /\ Sockets' /\ Owned' /\ Threads' /\ Carried'
      BY <1>0, <1>2, <2>1, <2>2, <2>4, TunnelsUntouched
    <2>6. Counted'
      BY <1>0, <1>2, <2>5, <2>1, FS_EmptySet DEF IInv, Modes, Counted, Running
    <2>7. Modes' /\ ReadyMeansConnected' /\ Len(ctl.buf)' <= LineCap
      BY <1>0, <1>1, <1>2, <2>1, <2>2 DEF IInv, Modes, ReadyMeansConnected, Running
    <2>. QED  BY <2>3, <2>5, <2>6, <2>7 DEF IInv
  <1>. QED  BY <1>3, <1>4

\* Steps of the control thread that only concern the control channel and the
\* idle clock.
LEMMA ControlStepKeeps ==
    ASSUME IInv, mpc = "loop",
           UNCHANGED <<cfg, mpc, exit, reported, active, sess, thr, pipe, owner, out>>,
           ctl' \in ControlState,
           Len(ctl.buf)' <= LineCap, handled' \in Nat, idle' \in 0 .. Timeout
    PROVE  IInv'
  <1>1. Typed'
    BY DEF IInv, Typed
  <1>2. StartedInOrder' /\ Sockets' /\ Owned' /\ Threads' /\ Carried' /\ LiveSessions' = LiveSessions
    BY TunnelsUntouched DEF Running
  <1>3. Modes' /\ Counted' /\ ReadyMeansConnected'
    BY <1>2 DEF IInv, Modes, Counted, ReadyMeansConnected, Running
  <1>. QED  BY <1>1, <1>2, <1>3 DEF IInv

\* The relay sends a line.
LEMMA RelaySendsKeeps ==
    ASSUME IInv, NEW k \in Kind, RelaySends(k)
    PROVE  IInv'
  <1>1. ctl \in ControlState
        /\ handled \in Nat /\ idle \in 0 .. Timeout /\ Len(ctl.buf) <= LineCap
    BY DEF IInv, Typed
  <1>2. Pieces(k) \in Nat
    BY Constants DEF Pieces
  <1>3. Line(k) \in Seq(Piece)
    <2>1. \A i \in 1 .. Pieces(k) : [kind |-> k, at |-> i] \in Piece
      BY <1>2 DEF Piece
    <2>. QED  BY <1>2, <2>1 DEF Line
  <1>4. ctl.wire \o Line(k) \in Seq(Piece)
    BY <1>1, <1>3 DEF ControlState
  <1>5. ctl' \in ControlState
        /\ ctl'.buf = ctl.buf
    <2>1. PICK j \in Nat :
             ctl' = [ctl EXCEPT !.sent = @ + 1, !.wire = @ \o Line(k), !.connects = @ + j]
      BY DEF RelaySends
    <2>2. ctl.sent + 1 \in Nat /\ ctl.connects + j \in Nat
      BY <1>1 DEF ControlState
    <2>. DEFINE w == ctl.wire \o Line(k)
    <2>. HIDE DEF w
    <2>3. w \in Seq(Piece) /\ ctl' = [ctl EXCEPT !.sent = ctl.sent + 1, !.wire = w,
                                                !.connects = ctl.connects + j]
      BY <1>4, <2>1 DEF w
    <2>. QED  BY <1>1, <2>2, <2>3 DEF ControlState
  <1>. QED  BY <1>1, <1>5, ControlStepKeeps DEF RelaySends, clock

\* The control thread receives: the accumulator never holds more than
\* SRV_CONTROL_LINE_CAP, however long the lines are.
LEMMA ControlRecvKeeps ==
    ASSUME IInv, NEW n \in 1 .. RecvMax, ControlRecv(n)
    PROVE  IInv'
  <1>. DEFINE kept == IF Len(ctl.buf) + n > LineCap THEN <<>> ELSE ctl.buf
              got  == SubSeq(ctl.wire, 1, n)
              all  == kept \o got
              c    == CompleteLen(all)
  <1>1. ctl \in ControlState
        /\ handled \in Nat /\ idle \in 0 .. Timeout
    BY DEF IInv, Typed
  <1>2. got \in Seq(Piece) /\ Len(got) = n
    BY <1>1 DEF ControlRecv, ControlState
  <1>3. kept \in Seq(Piece) /\ Len(kept) + n <= LineCap
    BY <1>1, Constants DEF ControlState
  <1>4. all \in Seq(Piece) /\ Len(all) <= LineCap
    <2>. HIDE DEF kept, got
    <2>. QED  BY <1>2, <1>3
  <1>5. c \in 0 .. Len(all)
    BY <1>4, CompleteLenIsLast
  <1>6. ctl' = [ctl EXCEPT !.wire = SubSeq(@, n + 1, Len(@)),
                           !.buf = SubSeq(all, c + 1, Len(all))]
    BY DEF ControlRecv
  <1>. HIDE DEF all, c
  <1>7. SubSeq(all, c + 1, Len(all)) \in Seq(Piece) /\ Len(SubSeq(all, c + 1, Len(all))) <= LineCap
    BY <1>4, <1>5, Constants
  <1>8. SubSeq(ctl.wire, n + 1, Len(ctl.wire)) \in Seq(Piece)
    BY <1>1 DEF ControlState
  <1>9. ctl' \in ControlState
        /\ Len(ctl'.buf) <= LineCap
    BY <1>1, <1>6, <1>7, <1>8 DEF ControlState
  <1>. QED  BY <1>1, <1>9, ControlStepKeeps DEF ControlRecv, clock

\* Giving up for idleness is allowed only when no tunnel is live.
LEMMA IdleTimeoutKeeps ==
    ASSUME IInv, IdleTimeout
    PROVE  IInv'
  <1>1. Cardinality(LiveSessions) = 0 /\ LiveSessions \subseteq Session
    BY DEF IInv, Counted, IdleTimeout, Expired, LiveSessions
  <1>2. LiveSessions = {}
    BY <1>1, Constants, FS_Subset, FS_EmptySet
  <1>. QED  BY <1>2, ExitKeeps DEF IdleTimeout, Running

\* Every other way the main thread ends the process.
LEMMA MainExitKeeps ==
    ASSUME IInv, ControlLost \/ StartSessionFails \/ SingleDone
    PROVE  IInv'
  BY ExitKeeps DEF ControlLost, StartSessionFails, SingleDone, Running

\* A request is skipped.
LEMMA SkipRequestKeeps ==
    ASSUME IInv, SkipRequest
    PROVE  IInv'
  <1>1. handled' \in Nat /\ ctl' = ctl /\ ctl \in ControlState /\ idle \in 0 .. Timeout
        /\ Len(ctl.buf) <= LineCap
    <2>1. handled \in Nat /\ ctl \in ControlState /\ idle \in 0 .. Timeout
          /\ Len(ctl.buf) <= LineCap
      BY DEF IInv, Typed
    <2>2. \E j \in Nat : handled' = handled + j
      BY DEF SkipRequest
    <2>. QED  BY <2>1, <2>2 DEF SkipRequest
  <1>. QED  BY <1>1, ControlStepKeeps DEF SkipRequest, clock

\* Time passes while no tunnel is active.
LEMMA TickKeeps ==
    ASSUME IInv, Tick
    PROVE  IInv'
  <1>1. idle' \in 0 .. Timeout /\ ctl \in ControlState /\ handled \in Nat
        /\ Len(ctl.buf) <= LineCap
    <2>1. handled \in Nat /\ ctl \in ControlState /\ idle \in 0 .. Timeout
          /\ Len(ctl.buf) <= LineCap
      BY DEF IInv, Typed
    <2>. QED  BY <2>1, Constants DEF Tick
  <1>. QED  BY <1>1, ControlStepKeeps DEF Tick, control

\* The tunnels started so far are 1 .. k, so the next one is new.
LEMMA NextSessionIsNew ==
    ASSUME IInv, NextSession \in Session
    PROVE  /\ sess[NextSession].pc = "none"
           /\ \A s \in Session : s < NextSession => sess[s].pc # "none"
  <1>. DEFINE S == {s \in Session : sess[s].pc # "none"}
              k == Cardinality(S)
  <1>1. IsFiniteSet(S) /\ k \in Nat
    BY Constants, FS_Subset, FS_CardinalityType
  <1>2. NextSession = k + 1 /\ Session = 1 .. Cardinality(Session) /\ Cardinality(Session) \in Nat
    BY SessionAssumption, FS_CardinalityType DEF NextSession
  <1>. HIDE DEF k
  <1>3. ASSUME sess[k + 1].pc # "none" PROVE FALSE
    <2>1. \A s \in 1 .. k + 1 : s \in S
      BY <1>1, <1>2, <1>3 DEF IInv, StartedInOrder
    <2>2. 1 \in Int /\ k + 1 \in Int /\ ~ (1 > k + 1) /\ (k + 1) - 1 + 1 = k + 1
      BY <1>1
    <2>3. Cardinality(1 .. k + 1) = k + 1
      BY <2>2, FS_Interval
    <2>4. Cardinality(1 .. k + 1) <= Cardinality(S)
      BY <1>1, <2>1, FS_Subset
    <2>. QED  BY <1>1, <2>3, <2>4 DEF k
  <1>4. ASSUME NEW s \in Session, s < k + 1, sess[s].pc = "none" PROVE FALSE
    <2>1. S \in SUBSET (1 .. s - 1)
      <3>1. ASSUME NEW t \in S PROVE t < s
        BY <1>2, <1>4 DEF IInv, StartedInOrder
      <3>. QED  BY <1>2, <3>1
    <2>2. Cardinality(1 .. s - 1) = s - 1 /\ IsFiniteSet(1 .. s - 1)
      <3>1. 1 \in Int /\ s - 1 \in Int /\ (IF 1 > s - 1 THEN 0 ELSE (s - 1) - 1 + 1) = s - 1
        BY <1>2
      <3>. QED  BY <3>1, FS_Interval
    <2>3. Cardinality(S) <= s - 1
      BY <2>1, <2>2, FS_Subset
    <2>. QED  BY <1>1, <1>2, <1>4, <2>3 DEF k
  <1>. QED  BY <1>2, <1>3, <1>4

\* A tunnel starts: it is counted before its thread runs.
LEMMA StartSessionKeeps ==
    ASSUME IInv, StartSession
    PROVE  IInv'
  <1>. DEFINE s == NextSession
  <1>0. s \in Session /\ mpc = "loop" /\ Running
    BY DEF StartSession, Running
  <1>1. sess[s].pc = "none" /\ \A t \in Session : t < s => sess[t].pc # "none"
    BY <1>0, NextSessionIsNew
  <1>2. sess' = [sess EXCEPT ![s].pc = "connA"] /\ active' = active + 1 /\ idle' = 0
        /\ active < MaxSessions /\ handled' = handled + 1
        /\ UNCHANGED <<cfg, mpc, exit, reported, ctl, thr, pipe, owner, out>>
    BY DEF StartSession
  <1>. HIDE DEF s
  <1>3. /\ sess' \in [Session -> SessionState]
        /\ sess'[s].pc = "connA" /\ sess'[s].fd = sess[s].fd
        /\ \A t \in Session : t # s => sess'[t] = sess[t]
    BY <1>0, <1>2, GotoAt DEF IInv, SessPC
  <1>4. Typed'
    <2>1. active \in 0 .. MaxSessions /\ handled \in Nat
      BY DEF IInv, Typed
    <2>2. active' \in 0 .. MaxSessions /\ handled' \in Nat /\ idle' \in 0 .. Timeout
      BY <1>2, <2>1, Constants
    <2>. QED  BY <1>2, <1>3, <2>2 DEF IInv, Typed
  <1>5. StartedInOrder'
    BY <1>0, <1>1, <1>3, Constants DEF IInv, StartedInOrder
  <1>6. Counted'
    <2>1. LiveSessions' = LiveSessions \cup {s} /\ s \notin LiveSessions
      BY <1>0, <1>1, <1>3 DEF LiveSessions, Live
    <2>2. IsFiniteSet(LiveSessions)
      BY Constants, FS_Subset DEF LiveSessions
    <2>3. Cardinality(LiveSessions') = Cardinality(LiveSessions) + 1
      BY <2>1, <2>2, FS_AddElement
    <2>. QED  BY <1>0, <1>2, <2>3 DEF IInv, Counted, Modes, Running
  <1>7. Modes' /\ ReadyMeansConnected' /\ Len(ctl.buf)' <= LineCap
    BY <1>0, <1>2 DEF IInv, Modes, ReadyMeansConnected, Running
  <1>8. Sockets' /\ Owned'
    BY <1>0, <1>1, <1>2, <1>3 DEF IInv, Sockets, HasSocket, Owned, Running
  <1>9. Threads' /\ Carried'
    BY <1>0, <1>1, <1>2, <1>3 DEF IInv, Threads, ThreadsOf, Carried, CarriedOf, Running, Gone
  <1>. QED  BY <1>4, <1>5, <1>6, <1>7, <1>8, <1>9 DEF IInv

-----------------------------------------------------------------------------
(* The steps of socket_to_socket *)

\* A tunnel that takes a step was started: in single mode it is the first,
\* in multi mode the receive loop is running.
LEMMA StartedIsKnown ==
    ASSUME IInv, Running, NEW s \in Session, sess[s].pc # "none"
    PROVE  \/ mpc = "loop" /\ cfg.multi
           \/ mpc = "single" /\ ~cfg.multi /\ s = 1
  BY Nothing DEF IInv, Typed, Modes, Running

\* A step of a live tunnel that leaves it live leaves the count right.
LEMMA SessionStepFrame ==
    ASSUME IInv, Running, NEW s \in Session, MainFrame,
           sess' \in [Session -> SessionState],
           \A t \in Session : t # s => sess'[t] = sess[t],
           Live(s), sess'[s].pc \notin {"none", "ended"}
    PROVE  Modes' /\ StartedInOrder' /\ Counted' /\ Len(ctl.buf)' <= LineCap
  <1>1. mpc = "loop" \/ (mpc = "single" /\ s = 1)
    <2>1. sess[s].pc # "none"
      BY DEF Live
    <2>. QED  BY <2>1, StartedIsKnown
  <1>2. UNCHANGED <<cfg, mpc, exit, ctl, active>>
    BY DEF MainFrame, control, clock
  <1>3. LiveSessions' = LiveSessions
    BY DEF LiveSessions, Live
  <1>4. Modes'
    BY <1>1, <1>2 DEF IInv, Modes, Running
  <1>5. StartedInOrder'
    BY DEF IInv, StartedInOrder, Live
  <1>6. Counted' /\ Len(ctl.buf)' <= LineCap
    BY <1>2, <1>3 DEF IInv, Counted
  <1>. QED  BY <1>4, <1>5, <1>6

\* Once sshnpd was told, the only tunnel of single mode stays served.
LEMMA ReadyFrame ==
    ASSUME IInv, Running, NEW s \in Session, MainFrame, UNCHANGED reported,
           \A t \in Session : t # s => sess'[t] = sess[t],
           sess[s].pc \in {"wait", "joinOther", "joinBoth", "close", "over"} =>
              sess'[s].pc \in {"wait", "joinOther", "joinBoth", "close", "over"}
    PROVE  ReadyMeansConnected'
  <1>1. UNCHANGED <<mpc, reported>> /\ 1 \in Session
    BY Constants DEF MainFrame
  <1>. QED  BY <1>1 DEF IInv, ReadyMeansConnected, Running

\* Releasing the sockets of s touches no descriptor of another tunnel.
LEMMA ReturnFrees ==
    ASSUME IInv, Running, NEW s \in Session, Return(s), mpc' = mpc
    PROVE  /\ sess' \in [Session -> SessionState]
           /\ sess'[s].pc = "over"
           /\ \A t \in Session : t # s => sess'[t] = sess[t]
           /\ owner' \in [Fd -> Conn \cup {Free}]
           /\ Sockets' /\ Owned'
  <1>. DEFINE r == [NoSession EXCEPT !.pc = "over"]
  <1>1. r \in SessionState /\ r.pc = "over" /\ r.fd = [x \in Side |-> 0]
    BY Nothing DEF SessionState, SessPC
  <1>2. sess' = [sess EXCEPT ![s] = r] /\ owner' = Freed(s)
    BY DEF Return
  <1>. HIDE DEF r
  <1>3. /\ sess' \in [Session -> SessionState] /\ sess'[s] = r
        /\ \A t \in Session : t # s => sess'[t] = sess[t]
    BY <1>1, <1>2, SessAt DEF IInv
  <1>4. sess'[s].pc = "over" /\ \A x \in Side : sess'[s].fd[x] = 0
    BY <1>1, <1>3
  <1>5. owner \in [Fd -> Conn \cup {Free}] /\ sess \in [Session -> SessionState]
    BY DEF IInv, Typed
  <1>6. owner' \in [Fd -> Conn \cup {Free}]
    BY <1>2, <1>5 DEF Freed
  <1>7. \A t \in Session, x \in Side : sess[t].fd[x] \in Fd \cup {0}
    BY <1>5 DEF SessionState
  <1>8. ASSUME NEW t \in Session, NEW x \in Side, t # s, sess[t].fd[x] # 0
        PROVE  owner'[sess[t].fd[x]] = <<t, x>>
    <2>1. owner[sess[t].fd[x]] = <<t, x>> /\ sess[t].fd[x] \in Fd
      BY <1>7, <1>8 DEF IInv, Sockets
    <2>2. \A y \in Side : sess[s].fd[y] # sess[t].fd[x]
      BY <1>8, <2>1 DEF IInv, Sockets
    <2>. QED  BY <1>2, <2>1, <2>2 DEF Freed
  <1>9. Sockets'
    <2>1. \A t \in Session, x \in Side : t # s => (HasSocket(t, x)' <=> HasSocket(t, x))
      BY <1>3 DEF HasSocket
    <2>2. \A x \in Side : ~HasSocket(s, x)'
      BY <1>4 DEF HasSocket
    <2>3. \A t \in Session, x \in Side : sess'[t].fd[x] # 0 <=> HasSocket(t, x)'
      BY <1>3, <1>4, <2>1, <2>2 DEF IInv, Sockets
    <2>4. \A t \in Session, x \in Side : sess'[t].fd[x] # 0 => owner'[sess'[t].fd[x]] = <<t, x>>
      BY <1>3, <1>4, <1>8
    <2>. QED  BY <2>3, <2>4 DEF Sockets
  <1>10. Owned'
    <2>1. ASSUME NEW f \in Fd, owner'[f] # Free
          PROVE  Running' /\ \E t \in Session, x \in Side : owner'[f] = <<t, x>> /\ sess'[t].fd[x] = f
      <3>1. owner'[f] = owner[f] /\ ~ \E x \in Side : sess[s].fd[x] = f
        BY <1>2, <2>1 DEF Freed
      <3>2. PICK t \in Session, x \in Side : owner[f] = <<t, x>> /\ sess[t].fd[x] = f
        BY <2>1, <3>1 DEF IInv, Owned
      <3>. QED  BY <1>3, <3>1, <3>2 DEF Running
    <2>. QED  BY <2>1 DEF Owned
  <1>. QED  BY <1>3, <1>4, <1>6, <1>9, <1>10

\* Steps that move a tunnel on between labels at which it has both sockets.
LEMMA SocketsUntouched ==
    ASSUME IInv, Running, NEW s \in Session, UNCHANGED <<mpc, owner>>,
           \A t \in Session : t # s => sess'[t] = sess[t], sess'[s].fd = sess[s].fd,
           \A x \in Side : HasSocket(s, x), \A x \in Side : HasSocket(s, x)'
    PROVE  Sockets' /\ Owned'
  <1>1. \A t \in Session : sess'[t].fd = sess[t].fd
    OBVIOUS
  <1>2. \A t \in Session, x \in Side : HasSocket(t, x)' <=> HasSocket(t, x)
    BY DEF HasSocket
  <1>3. Sockets'
    BY <1>1, <1>2 DEF IInv, Sockets, Running
  <1>4. Owned'
    BY <1>1 DEF IInv, Owned, Running
  <1>. QED  BY <1>3, <1>4

\* A step of one tunnel tells the others nothing.
LEMMA OthersUntouched ==
    ASSUME IInv, Running, NEW s \in Session,
           \A t \in Session : t # s => sess'[t] = sess[t],
           \A t \in Session, x \in Side : t # s =>
              thr'[t][x] = thr[t][x] /\ out'[t][x] = out[t][x]
    PROVE  /\ ThreadsOf(s)' => Threads'
           /\ (\A x \in Side : CarriedOf(s, x)') => Carried'
  <1>1. \A t \in Session : t # s => ThreadsOf(t)'
    BY DEF IInv, Threads, ThreadsOf, Gone, Side
  <1>2. ASSUME NEW t \in Session, NEW x \in Side, t # s PROVE CarriedOf(t, x)'
    <2>1. Other(x) \in Side
      BY DEF Side, Other
    <2>2. sess'[t] = sess[t] /\ thr'[t][x] = thr[t][x] /\ out'[t][Other(x)] = out[t][Other(x)]
      BY <1>2, <2>1
    <2>3. CarriedOf(t, x)
      BY DEF IInv, Carried
    <2>. QED  BY <2>2, <2>3 DEF CarriedOf
  <1>. QED  BY <1>1, <1>2 DEF Threads, Carried

\* A side connects, with the lowest free descriptor, or the tunnel is over.
LEMMA ConnectSideKeeps ==
    ASSUME IInv, NEW s \in Session, NEW x \in Side, ConnectSide(s, x)
    PROVE  IInv'
  <1>. DEFINE unused == {f \in Fd : owner[f] = Free}
              f == Min(unused)
              l == IF x = "a" THEN "connB" ELSE "auth"
  <1>0. /\ Running /\ sess[s].pc = (IF x = "a" THEN "connA" ELSE "connB") /\ Live(s)
        /\ UNCHANGED <<cfg, mpc, exit, ctl, batch, handled, active, idle, reported, thr, pipe, out>>
        /\ MainFrame /\ UNCHANGED reported
    BY DEF ConnectSide, MainFrame, control, clock, Live
  <1>1. \/ /\ unused # {}
           /\ owner' = [owner EXCEPT ![f] = <<s, x>>]
           /\ sess' = [sess EXCEPT ![s].fd[x] = f, ![s].pc = l]
        \/ Return(s)
    BY DEF ConnectSide
  <1>2. ASSUME sess' \in [Session -> SessionState], owner' \in [Fd -> Conn \cup {Free}],
               \A t \in Session : t # s => sess'[t] = sess[t],
               sess'[s].pc \in {"connB", "auth", "over"}, Sockets', Owned'
        PROVE  IInv'
    <2>0. Typed
      BY DEF IInv
    <2>1. Typed'
      BY <1>0, <1>2, <2>0, ZenonT(30) DEF Typed
    <2>2. Modes' /\ StartedInOrder' /\ Counted' /\ Len(ctl.buf)' <= LineCap
      BY <1>0, <1>2, SessionStepFrame
    <2>3. ReadyMeansConnected'
      BY <1>0, <1>2, ReadyFrame
    <2>4. ThreadsOf(s) /\ \A y \in Side : CarriedOf(s, y)
      BY <1>0 DEF IInv, Threads, Carried
    <2>5. ThreadsOf(s)' /\ \A y \in Side : CarriedOf(s, y)'
      BY <1>0, <1>2, <2>4 DEF ThreadsOf, CarriedOf, Gone
    <2>6. Threads' /\ Carried'
      BY <1>0, <1>2, <2>5, OthersUntouched
    <2>. QED  BY <1>2, <2>1, <2>2, <2>3, <2>6 DEF IInv
  <1>3. CASE Return(s)
    BY <1>0, <1>2, <1>3, ReturnFrees
  <1>4. CASE /\ unused # {}
             /\ owner' = [owner EXCEPT ![f] = <<s, x>>]
             /\ sess' = [sess EXCEPT ![s].fd[x] = f, ![s].pc = l]
    <2>. DEFINE r == [sess[s] EXCEPT !.fd[x] = f, !.pc = l]
    <2>1. unused \in SUBSET Nat /\ f \in unused
      BY <1>4, FdAssumption, MinIsAMember
    <2>. HIDE DEF f
    <2>2. f \in Fd /\ owner[f] = Free /\ f # 0
      BY <2>1, Constants
    <2>3. sess[s] \in SessionState /\ owner \in [Fd -> Conn \cup {Free}]
      BY DEF IInv, Typed
    <2>4. /\ r \in SessionState /\ r.pc = l /\ r.fd[x] = f
          /\ \A y \in Side : y # x => r.fd[y] = sess[s].fd[y]
      <3>1. l \in SessPC
        BY DEF SessPC
      <3>. QED  BY <2>2, <2>3, <3>1 DEF SessionState
    <2>5. sess' = [sess EXCEPT ![s] = r]
      BY <1>4
    <2>. HIDE DEF r
    <2>6. /\ sess' \in [Session -> SessionState] /\ sess'[s] = r
          /\ \A t \in Session : t # s => sess'[t] = sess[t]
      BY <2>4, <2>5, SessAt DEF IInv
    <2>7. <<s, x>> \in Conn /\ <<s, x>> # Free
      BY Constants DEF Conn, Free
    <2>8. owner' \in [Fd -> Conn \cup {Free}] /\ owner'[f] = <<s, x>>
          /\ \A g \in Fd : g # f => owner'[g] = owner[g]
      BY <1>4, <2>2, <2>3, <2>7
    <2>9. \A t \in Session, y \in Side : t # s \/ y # x => sess'[t].fd[y] = sess[t].fd[y]
      BY <2>4, <2>6
    <2>10. \A t \in Session, y \in Side : sess[t].fd[y] \in Fd \cup {0}
      <3>1. sess \in [Session -> SessionState]
        BY DEF IInv, Typed
      <3>. QED  BY <3>1 DEF SessionState
    <2>11. Sockets'
      <3>1. \A t \in Session, y \in Side : t # s \/ y # x => (HasSocket(t, y)' <=> HasSocket(t, y))
        BY <1>0, <2>4, <2>6 DEF HasSocket, Side
      <3>2. HasSocket(s, x)'
        BY <2>4, <2>6 DEF HasSocket, Side
      <3>3. ASSUME NEW t \in Session, NEW y \in Side, t # s \/ y # x
            PROVE  /\ sess'[t].fd[y] # 0 <=> HasSocket(t, y)'
                   /\ sess'[t].fd[y] # 0 => owner'[sess'[t].fd[y]] = <<t, y>>
        <4>1. /\ sess[t].fd[y] # 0 <=> HasSocket(t, y)
              /\ sess[t].fd[y] # 0 => owner[sess[t].fd[y]] = <<t, y>>
          BY <1>0 DEF IInv, Sockets
        <4>2. <<t, y>> # Free
          BY Constants DEF Free
        <4>. QED  BY <2>2, <2>8, <2>9, <2>10, <3>1, <3>3, <4>1, <4>2
      <3>. QED  BY <2>2, <2>4, <2>6, <2>8, <3>2, <3>3 DEF Sockets
    <2>12. Owned'
      <3>1. ASSUME NEW g \in Fd, owner'[g] # Free
            PROVE  Running' /\ \E t \in Session, y \in Side : owner'[g] = <<t, y>> /\ sess'[t].fd[y] = g
        <4>1. CASE g = f
          BY <1>0, <2>4, <2>6, <2>8, <4>1 DEF Running
        <4>2. CASE g # f
          <5>1. PICK t \in Session, y \in Side : owner[g] = <<t, y>> /\ sess[t].fd[y] = g
            BY <2>8, <3>1, <4>2 DEF IInv, Owned
          <5>2. t # s \/ y # x
            <6>1. ~HasSocket(s, x)
              BY <1>0 DEF HasSocket, Side
            <6>2. sess[s].fd[x] = 0
              BY <1>0, <6>1 DEF IInv, Sockets
            <6>. QED  BY <5>1, <6>2, Constants
          <5>. QED  BY <1>0, <2>8, <2>9, <4>2, <5>1, <5>2 DEF Running
        <4>. QED  BY <4>1, <4>2
      <3>. QED  BY <3>1 DEF Owned
    <2>13. sess'[s].pc \in {"connB", "auth", "over"}
      BY <2>4, <2>6
    <2>. QED  BY <1>2, <2>6, <2>8, <2>11, <2>12, <2>13
  <1>. QED  BY <1>1, <1>3, <1>4

\* A step that moves a tunnel on between labels at which both its sockets are
\* open keeps the invariant if it keeps what is said of its threads and data.
LEMMA MidwayKeeps ==
    ASSUME IInv, NEW s \in Session, NEW l \in {"reply", "spawn", "wait", "joinOther", "joinBoth", "close"},
           Running, MainFrame, UNCHANGED <<owner, out>>,
           sess[s].pc \in {"auth", "reply", "spawn", "wait", "joinOther", "joinBoth"},
           sess' \in [Session -> SessionState],
           sess'[s].pc = l, sess'[s].fd = sess[s].fd,
           \A t \in Session : t # s => sess'[t] = sess[t],
           thr' \in [Session -> [Side -> ThreadState]], reported' \in BOOLEAN,
           pipe' \in [Session -> Seq(Side)],
           \A t \in Session, x \in Side : t # s => thr'[t][x] = thr[t][x],
           ReadyMeansConnected', ThreadsOf(s)', \A x \in Side : CarriedOf(s, x)'
    PROVE  IInv'
  <1>1. UNCHANGED <<cfg, mpc, exit, ctl, handled, active, idle>>
    BY DEF MainFrame, control, clock
  <1>2. Typed'
    BY <1>1 DEF IInv, Typed
  <1>3. Modes' /\ StartedInOrder' /\ Counted' /\ Len(ctl.buf)' <= LineCap
    <2>1. Live(s) /\ sess'[s].pc \notin {"none", "ended"}
      BY DEF Live
    <2>. QED  BY <2>1, SessionStepFrame
  <1>4. Sockets' /\ Owned'
    <2>1. \A x \in Side : HasSocket(s, x) /\ HasSocket(s, x)'
      BY DEF HasSocket
    <2>. QED  BY <1>1, <2>1, SocketsUntouched
  <1>5. Threads' /\ Carried'
    BY OthersUntouched
  <1>. QED  BY <1>2, <1>3, <1>4, <1>5 DEF IInv

\* What the invariant says of one tunnel, with its types.
LEMMA AtSession ==
    ASSUME IInv, Running, NEW s \in Session
    PROVE  /\ ThreadsOf(s) /\ \A x \in Side : CarriedOf(s, x)
           /\ sess[s] \in SessionState
           /\ thr[s] \in [Side -> ThreadState]
           /\ \A x \in Side : thr[s][x] \in ThreadState
           /\ \A x \in Side : Len(out[s][x]) \in Nat /\ out[s][x] \in Seq(Chunk)
           /\ \A x \in Side : Other(x) \in Side /\ Other(x) # x /\ Other(Other(x)) = x
           /\ pipe[s] \in Seq(Side)
  <1>1. ThreadsOf(s) /\ \A x \in Side : CarriedOf(s, x)
    BY DEF IInv, Threads, Carried
  <1>2. sess[s] \in SessionState /\ thr[s] \in [Side -> ThreadState] /\ pipe[s] \in Seq(Side)
        /\ out[s] \in [Side -> Seq(Chunk)]
    BY DEF IInv, Typed
  <1>3. \A x \in Side : Other(x) \in Side /\ Other(x) # x /\ Other(Other(x)) = x
    BY DEF Side, Other
  <1>. QED  BY <1>1, <1>2, <1>3

\* A tunnel authenticates to the relay, and starts the thread of side a.
LEMMA AuthSessionKeeps ==
    ASSUME IInv, NEW s \in Session, AuthSession(s)
    PROVE  IInv'
  <1>0. /\ Running /\ sess[s].pc \in {"auth", "reply"} /\ MainFrame
        /\ UNCHANGED <<reported, pipe, owner, out>> /\ IInv
    BY DEF AuthSession
  <1>1. PICK m \in {"ok", "failed", "reply"} :
          /\ Goto(s, CASE m = "ok" -> "spawn" [] m = "failed" -> "close" [] OTHER -> m)
          /\ IF m = "ok" THEN thr' = [thr EXCEPT ![s]["a"].pc = "recv"] ELSE UNCHANGED thr
    BY DEF AuthSession, RelayAuth
  <1>2. PICK l \in {"reply", "spawn", "close"} :
          /\ Goto(s, l)
          /\ IF l = "spawn" THEN thr' = [thr EXCEPT ![s]["a"].pc = "recv"] ELSE UNCHANGED thr
    BY <1>1
  <1>3. /\ sess' \in [Session -> SessionState]
        /\ sess'[s].pc = l /\ sess'[s].fd = sess[s].fd /\ sess'[s].first = sess[s].first
        /\ \A t \in Session : t # s => sess'[t] = sess[t]
    BY <1>2, GotoAt DEF IInv, Goto, SessPC
  <1>4. /\ ThreadsOf(s) /\ \A x \in Side : CarriedOf(s, x) /\ thr[s][x] \in ThreadState
        /\ thr \in [Session -> [Side -> ThreadState]] /\ reported \in BOOLEAN
        /\ pipe \in [Session -> Seq(Side)]
    BY <1>0, AtSession DEF IInv, Typed
  <1>5. /\ thr' \in [Session -> [Side -> ThreadState]]
        /\ \A t \in Session, x \in Side : t # s \/ x = "b" => thr'[t][x] = thr[t][x]
        /\ thr'[s]["a"].pc = (IF l = "spawn" THEN "recv" ELSE thr[s]["a"].pc)
        /\ thr'[s]["a"].read = thr[s]["a"].read
    <2>1. CASE l = "spawn"
      <3>. DEFINE r == [thr[s]["a"] EXCEPT !.pc = "recv"]
      <3>1. "a" \in Side /\ thr[s]["a"] \in ThreadState
        BY <1>4 DEF Side
      <3>2. r \in ThreadState /\ r.pc = "recv" /\ r.read = thr[s]["a"].read
        BY <3>1 DEF ThreadState, ThreadPC
      <3>3. thr' = [thr EXCEPT ![s]["a"] = r]
        BY <1>2, <2>1
      <3>. HIDE DEF r
      <3>0. thr \in [Session -> [Side -> ThreadState]]
        BY DEF IInv, Typed
      <3>4. /\ thr' \in [Session -> [Side -> ThreadState]] /\ thr'[s]["a"] = r
            /\ \A t \in Session, y \in Side : t # s \/ y # "a" => thr'[t][y] = thr[t][y]
        BY <3>0, <3>1, <3>2, <3>3
      <3>. QED  BY <2>1, <3>2, <3>4
    <2>2. CASE l # "spawn"
      BY <1>2, <1>4, <2>2
    <2>. QED  BY <2>1, <2>2
  <1>6. ReadyMeansConnected'
    BY <1>0, <1>3, ReadyFrame
  <1>7. ThreadsOf(s)'
    BY <1>0, <1>3, <1>4, <1>5 DEF ThreadsOf, Gone, Side
  <1>8. ASSUME NEW x \in Side PROVE CarriedOf(s, x)'
    BY <1>0, <1>3, <1>4, <1>5 DEF ThreadsOf, CarriedOf, Side
  <1>. QED  BY <1>0, <1>3, <1>4, <1>5, <1>6, <1>7, <1>8, MidwayKeeps

\* Cancelling threads changes neither where they are nor what they carry.
LEMMA CancelAt ==
    ASSUME IInv, NEW s \in Session, NEW xs \in SUBSET Side, Cancel(s, xs)
    PROVE  /\ thr' \in [Session -> [Side -> ThreadState]]
           /\ \A t \in Session, x \in Side : t # s => thr'[t][x] = thr[t][x]
           /\ \A x \in Side : /\ thr'[s][x].pc = thr[s][x].pc
                              /\ thr'[s][x].read = thr[s][x].read
                              /\ thr'[s][x].buf = thr[s][x].buf
  <1>. DEFINE r == [x \in Side |-> IF x \in xs THEN [thr[s][x] EXCEPT !.cancel = TRUE] ELSE thr[s][x]]
  <1>1. thr' = [thr EXCEPT ![s] = r]
    BY DEF Cancel
  <1>2. thr \in [Session -> [Side -> ThreadState]]
    BY DEF IInv, Typed
  <1>3. ASSUME NEW x \in Side
        PROVE  /\ r[x] \in ThreadState /\ r[x].pc = thr[s][x].pc
               /\ r[x].read = thr[s][x].read /\ r[x].buf = thr[s][x].buf
    <2>1. thr[s][x] \in ThreadState
      BY <1>2
    <2>. QED  BY <2>1 DEF ThreadState
  <1>4. r \in [Side -> ThreadState]
    BY <1>3
  <1>. HIDE DEF r
  <1>. QED  BY <1>1, <1>2, <1>3, <1>4

\* The thread of side b starts, or cannot be started.
LEMMA SpawnKeeps ==
    ASSUME IInv, NEW s \in Session, Spawn(s)
    PROVE  IInv'
  <1>0. /\ Running /\ sess[s].pc = "spawn" /\ MainFrame /\ UNCHANGED <<pipe, owner, out>> /\ IInv
    BY DEF Spawn
  <1>1. /\ ThreadsOf(s) /\ \A x \in Side : CarriedOf(s, x) /\ thr[s][x] \in ThreadState
        /\ thr \in [Session -> [Side -> ThreadState]] /\ reported \in BOOLEAN
        /\ pipe \in [Session -> Seq(Side)] /\ sess[s] \in SessionState
    BY <1>0, AtSession DEF IInv, Typed
  <1>2. ASSUME thr' = [thr EXCEPT ![s]["b"].pc = "recv"], Goto(s, "wait"),
               IF cfg.multi THEN UNCHANGED reported ELSE ReportStarted
        PROVE  IInv'
    <2>1. /\ sess' \in [Session -> SessionState]
          /\ sess'[s].pc = "wait" /\ sess'[s].fd = sess[s].fd
          /\ \A t \in Session : t # s => sess'[t] = sess[t]
      BY <1>2, GotoAt DEF IInv, Goto, SessPC
    <2>2. /\ thr' \in [Session -> [Side -> ThreadState]]
          /\ \A t \in Session, y \in Side : t # s \/ y # "b" => thr'[t][y] = thr[t][y]
          /\ thr'[s]["b"].pc = "recv" /\ thr'[s]["b"].read = thr[s]["b"].read
      <3>. DEFINE r == [thr[s]["b"] EXCEPT !.pc = "recv"]
      <3>1. "b" \in Side /\ thr[s]["b"] \in ThreadState
        BY <1>1 DEF Side
      <3>2. r \in ThreadState /\ r.pc = "recv" /\ r.read = thr[s]["b"].read
        BY <3>1 DEF ThreadState, ThreadPC
      <3>3. thr' = [thr EXCEPT ![s]["b"] = r]
        BY <1>2
      <3>. HIDE DEF r
      <3>0. thr \in [Session -> [Side -> ThreadState]]
        BY DEF IInv, Typed
      <3>4. /\ thr' \in [Session -> [Side -> ThreadState]] /\ thr'[s]["b"] = r
            /\ \A t \in Session, y \in Side : t # s \/ y # "b" => thr'[t][y] = thr[t][y]
        BY <3>0, <3>1, <3>2, <3>3
      <3>. QED  BY <3>2, <3>4
    <2>3. reported' \in BOOLEAN
      BY <1>1, <1>2 DEF ReportStarted
    <2>4. ReadyMeansConnected'
      <3>1. (mpc = "loop" /\ cfg.multi) \/ (mpc = "single" /\ ~cfg.multi /\ s = 1)
        BY <1>0, StartedIsKnown
      <3>2. mpc' = mpc
        BY <1>0 DEF MainFrame
      <3>. QED  BY <2>1, <3>1, <3>2 DEF ReadyMeansConnected
    <2>5. ThreadsOf(s)'
      BY <2>1 DEF ThreadsOf
    <2>6. ASSUME NEW x \in Side PROVE CarriedOf(s, x)'
      BY <1>0, <1>1, <2>1, <2>2 DEF CarriedOf, Side
    <2>. QED  BY <1>0, <1>1, <2>1, <2>2, <2>3, <2>4, <2>5, <2>6, MidwayKeeps
  <1>3. ASSUME Cancel(s, {"a"}),
               sess' = [sess EXCEPT ![s].pc = "joinOther", ![s].first = "b"], UNCHANGED reported
        PROVE  IInv'
    <2>. DEFINE r == [sess[s] EXCEPT !.pc = "joinOther", !.first = "b"]
    <2>1. r \in SessionState /\ r.pc = "joinOther" /\ r.first = "b" /\ r.fd = sess[s].fd
      BY <1>1 DEF SessionState, SessPC, Side
    <2>2. sess' = [sess EXCEPT ![s] = r]
      BY <1>3
    <2>. HIDE DEF r
    <2>3. /\ sess' \in [Session -> SessionState] /\ sess'[s] = r
          /\ \A t \in Session : t # s => sess'[t] = sess[t]
      BY <2>1, <2>2, SessAt DEF IInv
    <2>4. /\ thr' \in [Session -> [Side -> ThreadState]]
          /\ \A t \in Session, x \in Side : t # s => thr'[t][x] = thr[t][x]
          /\ \A x \in Side : /\ thr'[s][x].pc = thr[s][x].pc
                             /\ thr'[s][x].read = thr[s][x].read
                             /\ thr'[s][x].buf = thr[s][x].buf
      <3>1. {"a"} \in SUBSET Side
        BY DEF Side
      <3>. QED  BY <1>3, <3>1, CancelAt
    <2>5. ReadyMeansConnected'
      BY <1>0, <1>3, <2>1, <2>3, ReadyFrame
    <2>6. ThreadsOf(s)'
      BY <1>0, <1>1, <2>1, <2>3, <2>4 DEF ThreadsOf, Gone, Side
    <2>7. ASSUME NEW x \in Side PROVE CarriedOf(s, x)'
      BY <1>0, <1>1, <2>1, <2>3, <2>4 DEF CarriedOf
    <2>. QED  BY <1>0, <1>1, <1>3, <2>1, <2>3, <2>4, <2>5, <2>6, <2>7, MidwayKeeps
  <1>. QED  BY <1>2, <1>3 DEF Spawn

\* The first side thread to end is reaped and the other one cancelled.
LEMMA AwaitFirstKeeps ==
    ASSUME IInv, NEW s \in Session, AwaitFirst(s)
    PROVE  IInv'
  <1>. DEFINE x == Head(pipe[s])
  <1>0. /\ Running /\ sess[s].pc = "wait" /\ MainFrame /\ UNCHANGED <<reported, owner, out>> /\ IInv
        /\ pipe[s] # <<>> /\ Gone(s, x) /\ Cancel(s, {Other(x)})
        /\ sess' = [sess EXCEPT ![s].pc = "joinOther", ![s].first = x]
        /\ pipe' = [pipe EXCEPT ![s] = Tail(@)]
    BY DEF AwaitFirst
  <1>1. /\ ThreadsOf(s) /\ \A y \in Side : CarriedOf(s, y)
        /\ reported \in BOOLEAN /\ pipe[s] \in Seq(Side)
        /\ pipe \in [Session -> Seq(Side)] /\ sess[s] \in SessionState
        /\ \A y \in Side : Other(y) \in Side
    BY <1>0, AtSession DEF IInv, Typed
  <1>2. x \in Side /\ Tail(pipe[s]) \in Seq(Side)
    BY <1>0, <1>1
  <1>3. pipe' \in [Session -> Seq(Side)]
    BY <1>0, <1>1, <1>2
  <1>. HIDE DEF x
  <1>. DEFINE r == [sess[s] EXCEPT !.pc = "joinOther", !.first = x]
  <1>4. r \in SessionState /\ r.pc = "joinOther" /\ r.first = x /\ r.fd = sess[s].fd
    BY <1>1, <1>2 DEF SessionState, SessPC
  <1>5. sess' = [sess EXCEPT ![s] = r]
    BY <1>0
  <1>. HIDE DEF r
  <1>6. /\ sess' \in [Session -> SessionState] /\ sess'[s] = r
        /\ \A t \in Session : t # s => sess'[t] = sess[t]
    BY <1>4, <1>5, SessAt DEF IInv
  <1>7. /\ thr' \in [Session -> [Side -> ThreadState]]
        /\ \A t \in Session, y \in Side : t # s => thr'[t][y] = thr[t][y]
        /\ \A y \in Side : /\ thr'[s][y].pc = thr[s][y].pc
                           /\ thr'[s][y].read = thr[s][y].read
                           /\ thr'[s][y].buf = thr[s][y].buf
    <2>1. {Other(x)} \in SUBSET Side
      BY <1>1, <1>2
    <2>. QED  BY <1>0, <2>1, CancelAt
  <1>8. ReadyMeansConnected'
    BY <1>0, <1>4, <1>6, ReadyFrame
  <1>9. ThreadsOf(s)'
    BY <1>0, <1>1, <1>2, <1>4, <1>6, <1>7 DEF ThreadsOf, Gone
  <1>10. ASSUME NEW y \in Side PROVE CarriedOf(s, y)'
    BY <1>0, <1>1, <1>4, <1>6, <1>7 DEF CarriedOf
  <1>. QED  BY <1>0, <1>1, <1>3, <1>4, <1>6, <1>7, <1>8, <1>9, <1>10, MidwayKeeps

\* The read of the pipe fails: both threads are cancelled.
LEMMA AwaitFirstFailsKeeps ==
    ASSUME IInv, NEW s \in Session, AwaitFirstFails(s)
    PROVE  IInv'
  <1>0. /\ Running /\ sess[s].pc = "wait" /\ MainFrame /\ UNCHANGED <<reported, pipe, owner, out>>
        /\ Cancel(s, Side) /\ Goto(s, "joinBoth")
    BY DEF AwaitFirstFails
  <1>1. /\ ThreadsOf(s) /\ \A y \in Side : CarriedOf(s, y)
        /\ reported \in BOOLEAN /\ pipe \in [Session -> Seq(Side)]
    BY <1>0, AtSession DEF IInv, Typed
  <1>2. /\ sess' \in [Session -> SessionState]
        /\ sess'[s].pc = "joinBoth" /\ sess'[s].fd = sess[s].fd
        /\ \A t \in Session : t # s => sess'[t] = sess[t]
    BY <1>0, GotoAt DEF IInv, Goto, SessPC
  <1>3. /\ thr' \in [Session -> [Side -> ThreadState]]
        /\ \A t \in Session, y \in Side : t # s => thr'[t][y] = thr[t][y]
        /\ \A y \in Side : /\ thr'[s][y].pc = thr[s][y].pc
                           /\ thr'[s][y].read = thr[s][y].read
                           /\ thr'[s][y].buf = thr[s][y].buf
    <2>1. Side \in SUBSET Side
      OBVIOUS
    <2>. QED  BY <1>0, <2>1, CancelAt
  <1>4. ReadyMeansConnected'
    BY <1>0, <1>2, ReadyFrame
  <1>5. ThreadsOf(s)'
    BY <1>2 DEF ThreadsOf
  <1>6. ASSUME NEW y \in Side PROVE CarriedOf(s, y)'
    BY <1>0, <1>1, <1>2, <1>3 DEF CarriedOf
  <1>. QED  BY <1>0, <1>1, <1>2, <1>3, <1>4, <1>5, <1>6, MidwayKeeps

\* Both threads are reaped: only now will the sockets be closed.
LEMMA JoinKeeps ==
    ASSUME IInv, NEW s \in Session, Join(s)
    PROVE  IInv'
  <1>0. /\ Running /\ sess[s].pc \in {"joinOther", "joinBoth"} /\ MainFrame
        /\ UNCHANGED <<reported, thr, pipe, owner, out>> /\ Goto(s, "close") /\ IInv
    BY DEF Join
  <1>1. /\ ThreadsOf(s) /\ \A y \in Side : CarriedOf(s, y)
        /\ reported \in BOOLEAN /\ pipe \in [Session -> Seq(Side)]
        /\ thr \in [Session -> [Side -> ThreadState]]
    BY <1>0, AtSession DEF IInv, Typed
  <1>2. /\ sess' \in [Session -> SessionState]
        /\ sess'[s].pc = "close" /\ sess'[s].fd = sess[s].fd
        /\ \A t \in Session : t # s => sess'[t] = sess[t]
    BY <1>0, GotoAt DEF IInv, Goto, SessPC
  <1>3. ReadyMeansConnected'
    BY <1>0, <1>2, ReadyFrame
  <1>4. \A x \in Side : Gone(s, x)
    BY <1>1 DEF Join, ThreadsOf, Side, Other
  <1>5. ThreadsOf(s)'
    BY <1>0, <1>2, <1>4 DEF ThreadsOf, Gone
  <1>6. ASSUME NEW y \in Side PROVE CarriedOf(s, y)'
    BY <1>0, <1>1, <1>2 DEF CarriedOf
  <1>. QED  BY <1>0, <1>1, <1>2, <1>3, <1>5, <1>6, MidwayKeeps

\* The pipe and both sockets are closed.
LEMMA CloseBothKeeps ==
    ASSUME IInv, NEW s \in Session, CloseBoth(s)
    PROVE  IInv'
  <1>0. /\ Running /\ sess[s].pc = "close" /\ MainFrame /\ UNCHANGED <<reported, out>>
        /\ Return(s) /\ thr' = [thr EXCEPT ![s] = [x \in Side |-> NoThread]]
        /\ pipe' = [pipe EXCEPT ![s] = <<>>] /\ Live(s)
        /\ UNCHANGED <<cfg, mpc, exit, ctl, handled, active, idle>>
    BY DEF CloseBoth, MainFrame, control, clock, Live
  <1>1. /\ sess' \in [Session -> SessionState] /\ sess'[s].pc = "over"
        /\ \A t \in Session : t # s => sess'[t] = sess[t]
        /\ owner' \in [Fd -> Conn \cup {Free}]
        /\ Sockets' /\ Owned'
    BY <1>0, ReturnFrees
  <1>2. /\ thr' \in [Session -> [Side -> ThreadState]]
        /\ \A x \in Side : thr'[s][x] = NoThread
        /\ \A t \in Session, x \in Side : t # s => thr'[t][x] = thr[t][x]
    BY <1>0, Nothing DEF IInv, Typed
  <1>3. pipe' \in [Session -> Seq(Side)]
    <2>1. pipe \in [Session -> Seq(Side)]
      BY DEF IInv, Typed
    <2>. QED  BY <1>0, <2>1
  <1>4. Typed'
    BY <1>0, <1>1, <1>2, <1>3 DEF IInv, Typed
  <1>5. Modes' /\ StartedInOrder' /\ Counted' /\ Len(ctl.buf)' <= LineCap
    BY <1>0, <1>1, SessionStepFrame
  <1>6. ReadyMeansConnected'
    BY <1>0, <1>1, ReadyFrame
  <1>7. ThreadsOf(s)'
    BY <1>1, <1>2, Nothing DEF ThreadsOf
  <1>8. ASSUME NEW x \in Side PROVE CarriedOf(s, x)'
    BY <1>1, <1>2, Nothing DEF CarriedOf
  <1>9. Threads' /\ Carried'
    BY <1>0, <1>1, <1>2, <1>7, <1>8, OthersUntouched
  <1>. QED  BY <1>1, <1>4, <1>5, <1>6, <1>9 DEF IInv

\* A tunnel that is over is no longer counted.
LEMMA SessionEndedKeeps ==
    ASSUME IInv, NEW s \in Session, SessionEnded(s)
    PROVE  IInv'
  <1>0. /\ Running /\ cfg.multi /\ sess[s].pc = "over" /\ Goto(s, "ended") /\ active' = active - 1
        /\ idle' = (IF active = 1 THEN 0 ELSE idle)
        /\ UNCHANGED <<cfg, mpc, exit, ctl, handled, reported, thr, pipe, owner, out>>
    BY DEF SessionEnded, control
  <1>1. /\ sess' \in [Session -> SessionState]
        /\ sess'[s].pc = "ended" /\ sess'[s].fd = sess[s].fd
        /\ \A t \in Session : t # s => sess'[t] = sess[t]
    BY <1>0, GotoAt DEF IInv, Goto, SessPC
  <1>2. mpc = "loop"
    <2>1. (mpc = "loop" /\ cfg.multi) \/ (mpc = "single" /\ ~cfg.multi /\ s = 1)
      BY <1>0, StartedIsKnown
    <2>. QED  BY <1>0, <2>1
  <1>3. /\ active = Cardinality(LiveSessions)
        /\ Cardinality(LiveSessions') = Cardinality(LiveSessions) - 1
        /\ active >= 1
    <2>1. LiveSessions' = LiveSessions \ {s} /\ s \in LiveSessions
      BY <1>0, <1>1 DEF LiveSessions, Live
    <2>2. IsFiniteSet(LiveSessions)
      BY Constants, FS_Subset DEF LiveSessions
    <2>3. Cardinality(LiveSessions') = Cardinality(LiveSessions) - 1
      BY <2>1, <2>2, FS_RemoveElement
    <2>4. Cardinality(LiveSessions) \in Nat /\ Cardinality(LiveSessions) # 0
      BY <2>1, <2>2, FS_CardinalityType, FS_EmptySet
    <2>5. active = Cardinality(LiveSessions)
      BY <1>2 DEF IInv, Counted
    <2>. QED  BY <2>3, <2>4, <2>5
  <1>4. Typed'
    <2>1. active \in 0 .. MaxSessions /\ idle \in 0 .. Timeout
      BY DEF IInv, Typed
    <2>2. active' \in 0 .. MaxSessions /\ idle' \in 0 .. Timeout
      BY <1>0, <1>3, <2>1, Constants
    <2>. QED  BY <1>0, <1>1, <2>2 DEF IInv, Typed
  <1>5. Counted'
    <2>1. exit' # "timeout"
      BY <1>0 DEF IInv, Modes
    <2>. QED  BY <1>0, <1>3, <2>1 DEF Counted
  <1>6. Modes' /\ ReadyMeansConnected' /\ Len(ctl.buf)' <= LineCap
    BY <1>0, <1>2 DEF IInv, Modes, ReadyMeansConnected, Running
  <1>7. StartedInOrder'
    BY <1>0, <1>1 DEF IInv, StartedInOrder
  <1>8. Sockets' /\ Owned'
    <2>1. \A t \in Session : sess'[t].fd = sess[t].fd
      BY <1>1
    <2>2. \A t \in Session, x \in Side : HasSocket(t, x)' <=> HasSocket(t, x)
      BY <1>0, <1>1 DEF HasSocket
    <2>3. Sockets'
      <3>1. Running' <=> Running
        BY <1>0 DEF Running
      <3>2. owner' = owner /\ Sockets
        BY <1>0 DEF IInv
      <3>. QED  BY <2>1, <2>2, <3>1, <3>2 DEF Sockets
    <2>. QED  BY <1>0, <2>1, <2>3 DEF IInv, Owned, Running
  <1>9. Threads' /\ Carried'
    <2>1. ThreadsOf(s) /\ \A x \in Side : CarriedOf(s, x)
      BY <1>0, AtSession
    <2>2. ThreadsOf(s)'
      BY <1>0, <1>1, <2>1 DEF ThreadsOf
    <2>3. ASSUME NEW x \in Side PROVE CarriedOf(s, x)'
      BY <1>0, <1>1, <2>1 DEF CarriedOf
    <2>. QED  BY <1>0, <1>1, <2>2, <2>3, OthersUntouched
  <1>. QED  BY <1>4, <1>5, <1>6, <1>7, <1>8, <1>9 DEF IInv

-----------------------------------------------------------------------------
(* The steps of the side threads *)

\* A thread that runs uses descriptors that are its own tunnel's.
LEMMA ThreadHasSockets ==
    ASSUME IInv, Running, NEW s \in Session, NEW x \in Side, thr[s][x].pc # "none"
    PROVE  \A y \in Side : owner[sess[s].fd[y]] = <<s, y>>
  <1>1. sess[s].pc \in {"spawn", "wait", "joinOther", "joinBoth", "close"}
    BY AtSession DEF ThreadsOf
  <1>2. \A y \in Side : HasSocket(s, y)
    BY <1>1 DEF HasSocket
  <1>. QED  BY <1>2 DEF IInv, Sockets

\* A step of a live side thread that leaves it started keeps the invariant if
\* it keeps what is said of the data it carries.
LEMMA SideStepKeeps ==
    ASSUME IInv, Running, NEW s \in Session, NEW x \in Side, NEW r \in ThreadState,
           thr' = [thr EXCEPT ![s][x] = r], SessFrame, UNCHANGED owner,
           thr[s][x].pc \in {"recv", "send", "notify"}, r.pc # "none",
           out' \in [Session -> [Side -> Seq(Chunk)]], pipe' \in [Session -> Seq(Side)],
           \A t \in Session, y \in Side : t # s \/ y # Other(x) => out'[t][y] = out[t][y],
           CarriedOf(s, x)'
    PROVE  IInv'
  <1>0. UNCHANGED <<cfg, mpc, exit, ctl, handled, active, idle, reported, sess>>
    BY DEF SessFrame, MainFrame, control, clock
  <1>1. /\ thr' \in [Session -> [Side -> ThreadState]] /\ thr'[s][x] = r
        /\ \A t \in Session, y \in Side : t # s \/ y # x => thr'[t][y] = thr[t][y]
    <2>1. thr \in [Session -> [Side -> ThreadState]]
      BY DEF IInv, Typed
    <2>. QED  BY <2>1
  <1>2. Typed'
    <2>1. owner' = owner /\ Typed
      BY DEF SessFrame, IInv
    <2>. QED  BY <1>0, <1>1, <2>1, ZenonT(30) DEF Typed
  <1>3. Modes' /\ StartedInOrder' /\ Counted' /\ ReadyMeansConnected' /\ Len(ctl.buf)' <= LineCap
    BY <1>0 DEF IInv, Modes, StartedInOrder, Counted, LiveSessions, Live, ReadyMeansConnected,
                Running
  <1>4. Sockets' /\ Owned'
    BY <1>0 DEF IInv, Sockets, HasSocket, Owned, Running
  <1>5. ThreadsOf(s)'
    <2>1. ThreadsOf(s)
      BY AtSession
    <2>2. ~Gone(s, x) /\ thr[s][x].pc # "none"
      BY DEF Gone
    <2>3. \A y \in Side : Gone(s, y) => Gone(s, y)'
      BY <1>1, <2>2 DEF Gone
    <2>4. sess[s].pc = "spawn" => thr'[s]["b"].pc = "none"
      BY <1>1, <2>1, <2>2 DEF ThreadsOf, Side
    <2>. QED  BY <1>0, <2>1, <2>2, <2>3, <2>4 DEF ThreadsOf
  <1>6. CarriedOf(s, Other(x))'
    <2>1. /\ CarriedOf(s, Other(x)) /\ Other(x) \in Side /\ Other(x) # x /\ Other(Other(x)) = x
          /\ x # Other(x)
      BY AtSession
    <2>2. thr'[s][Other(x)] = thr[s][Other(x)] /\ out'[s][x] = out[s][x] /\ sess'[s] = sess[s]
      BY <1>0, <1>1, <2>1
    <2>. QED  BY <2>1, <2>2 DEF CarriedOf
  <1>7. \A y \in Side : CarriedOf(s, y)'
    <2>1. \A y \in Side : y = x \/ y = Other(x)
      BY DEF Side, Other
    <2>. QED  BY <1>6, <2>1
  <1>8. Threads' /\ Carried'
    BY <1>0, <1>1, <1>5, <1>7, OthersUntouched
  <1>. QED  BY <1>2, <1>3, <1>4, <1>8 DEF IInv

\* A chunk is read from the tunnel's own peer.
LEMMA SideRecvKeeps ==
    ASSUME IInv, NEW s \in Session, NEW x \in Side, SideRecv(s, x)
    PROVE  IInv'
  <1>0. /\ Running /\ thr[s][x].pc = "recv" /\ thr[s][x].read < MaxChunks
        /\ SessFrame /\ UNCHANGED <<pipe, owner, out>>
    BY DEF SideRecv
  <1>1. owner[sess[s].fd[x]] = <<s, x>>
    BY <1>0, ThreadHasSockets
  <1>. DEFINE n == thr[s][x].read + 1
              r == [thr[s][x] EXCEPT !.pc = "send", !.read = n, !.buf = <<s, x, n>>]
  <1>2. thr[s][x] \in ThreadState /\ CarriedOf(s, x)
    BY <1>0, AtSession
  <1>3. thr[s][x].read \in Nat /\ n \in 1 .. MaxChunks /\ n \in 0 .. MaxChunks
    BY <1>0, <1>2, Constants DEF ThreadState
  <1>4. thr' = [thr EXCEPT ![s][x] = r]
    <2>1. owner[sess[s].fd[x]][1] = s /\ owner[sess[s].fd[x]][2] = x
      BY <1>1
    <2>2. thr' = [thr EXCEPT ![s][x] = [thr[s][x] EXCEPT !.pc = "send", !.read = n,
                     !.buf = <<owner[sess[s].fd[x]][1], owner[sess[s].fd[x]][2], n>>]]
      BY DEF SideRecv
    <2>. QED  BY <2>1, <2>2
  <1>5. <<s, x, n>> \in Chunk
    BY <1>3 DEF Chunk
  <1>. HIDE DEF n
  <1>6. r \in ThreadState /\ r.pc = "send" /\ r.read = n /\ r.buf = <<s, x, n>>
    BY <1>2, <1>3, <1>5 DEF ThreadState, ThreadPC
  <1>. HIDE DEF r
  <1>7. thr'[s][x] = r
    BY <1>4, <1>6, ThrAt DEF IInv
  <1>8. CarriedOf(s, x)'
    <2>1. sess' = sess /\ out' = out
      BY <1>0 DEF SessFrame
    <2>2. thr[s][x].read = Len(out[s][Other(x)])
      BY <1>0, <1>2 DEF CarriedOf
    <2>3. sess[s].pc \in {"spawn", "wait", "joinOther", "joinBoth", "close"}
          /\ (sess[s].pc = "spawn" => x # "b")
      <3>1. ThreadsOf(s)
        BY <1>0, AtSession
      <3>. QED  BY <1>0, <3>1 DEF ThreadsOf
    <2>. QED  BY <1>6, <1>7, <2>1, <2>2, <2>3 DEF CarriedOf, n
  <1>9. out \in [Session -> [Side -> Seq(Chunk)]] /\ pipe \in [Session -> Seq(Side)]
    BY DEF IInv, Typed
  <1>. QED  BY <1>0, <1>4, <1>6, <1>8, <1>9, SideStepKeeps

\* What a send adds to, and to which peer.
LEMMA SideSendDelivers ==
    ASSUME IInv, NEW s \in Session, NEW x \in Side, SideSend(s, x)
    PROVE  LET y == Other(x)
               n == Len(out[s][y]) + 1
           IN  /\ out' = [out EXCEPT ![s][y] = Append(@, <<s, x, n>>)]
               /\ n = thr[s][x].read /\ n \in 1 .. MaxChunks
  <1>0. Running /\ thr[s][x].pc = "send"
    BY DEF SideSend
  <1>1. /\ Other(x) \in Side /\ CarriedOf(s, x) /\ thr[s][x] \in ThreadState
        /\ Len(out[s][Other(x)]) \in Nat
    BY <1>0, AtSession
  <1>2. owner[sess[s].fd[Other(x)]] = <<s, Other(x)>>
    BY <1>0, <1>1, ThreadHasSockets
  <1>3. out' = [out EXCEPT ![s][Other(x)] = Append(@, thr[s][x].buf)]
    BY <1>2 DEF SideSend
  <1>4. /\ thr[s][x].read = Len(out[s][Other(x)]) + 1
        /\ thr[s][x].buf = <<s, x, thr[s][x].read>>
    BY <1>0, <1>1 DEF CarriedOf
  <1>5. thr[s][x].read \in 0 .. MaxChunks
    BY <1>1 DEF ThreadState
  <1>6. Len(out[s][Other(x)]) + 1 \in 1 .. MaxChunks
    BY <1>1, <1>4, <1>5, Constants
  <1>. QED  BY <1>3, <1>4, <1>6

\* A chunk leaves at the far end of the tunnel.
LEMMA SideSendKeeps ==
    ASSUME IInv, NEW s \in Session, NEW x \in Side, SideSend(s, x)
    PROVE  IInv'
  <1>0. /\ Running /\ thr[s][x].pc = "send"
        /\ SessFrame /\ UNCHANGED <<pipe, owner>>
    BY DEF SideSend
  <1>. DEFINE y == Other(x)
              n == Len(out[s][y]) + 1
              r == [thr[s][x] EXCEPT !.pc = "recv", !.buf = <<>>]
  <1>1. /\ out' = [out EXCEPT ![s][y] = Append(@, <<s, x, n>>)]
        /\ n = thr[s][x].read /\ n \in 1 .. MaxChunks
    BY SideSendDelivers
  <1>2. thr[s][x] \in ThreadState /\ y \in Side /\ CarriedOf(s, x) /\ ThreadsOf(s)
        /\ out[s][y] \in Seq(Chunk)
    BY <1>0, AtSession
  <1>3. r \in ThreadState /\ r.pc = "recv" /\ r.read = thr[s][x].read
    BY <1>2 DEF ThreadState, ThreadPC
  <1>4. thr' = [thr EXCEPT ![s][x] = r]
    BY DEF SideSend
  <1>5. out \in [Session -> [Side -> Seq(Chunk)]] /\ pipe \in [Session -> Seq(Side)]
    BY DEF IInv, Typed
  <1>6. <<s, x, n>> \in Chunk
    BY <1>1 DEF Chunk
  <1>7. Append(out[s][y], <<s, x, n>>) \in Seq(Chunk) /\ Len(Append(out[s][y], <<s, x, n>>)) = n
    <2>. DEFINE ch == <<s, x, n>>
    <2>1. ch \in Chunk /\ n = Len(out[s][y]) + 1
      BY <1>6
    <2>. HIDE DEF ch, n, y
    <2>2. Append(out[s][y], ch) \in Seq(Chunk) /\ Len(Append(out[s][y], ch)) = n
      BY <1>2, <2>1
    <2>. QED  BY <2>2 DEF ch
  <1>. HIDE DEF n, y, r
  <1>8. /\ out' \in [Session -> [Side -> Seq(Chunk)]] /\ Len(out'[s][y]) = n
        /\ \A t \in Session, z \in Side : t # s \/ z # y => out'[t][z] = out[t][z]
    BY <1>1, <1>2, <1>5, <1>7
  <1>9. thr'[s][x] = r
    BY <1>3, <1>4, ThrAt DEF IInv
  <1>10. CarriedOf(s, x)'
    <2>1. sess' = sess
      BY <1>0 DEF SessFrame
    <2>2. sess[s].pc \in {"spawn", "wait", "joinOther", "joinBoth", "close"}
          /\ (sess[s].pc = "spawn" => x # "b")
      BY <1>0, <1>2 DEF ThreadsOf
    <2>. QED  BY <1>1, <1>3, <1>8, <1>9, <2>1, <2>2 DEF CarriedOf, y
  <1>. QED  BY <1>0, <1>3, <1>4, <1>5, <1>8, <1>10, SideStepKeeps DEF y

\* A side thread ends its loop, says so, or is cancelled: it sends nothing.
LEMMA SideEndKeeps ==
    ASSUME IInv, NEW s \in Session, NEW x \in Side,
           SideStops(s, x) \/ SideNotifies(s, x) \/ SideCancelled(s, x)
    PROVE  IInv'
  <1>0. /\ Running /\ SessFrame /\ UNCHANGED <<owner, out>>
        /\ thr[s][x].pc \in {"recv", "send", "notify"}
    BY DEF SideStops, SideNotifies, SideCancelled, Alive
  <1>1. thr[s][x] \in ThreadState /\ CarriedOf(s, x) /\ ThreadsOf(s)
    BY <1>0, AtSession
  <1>2. PICK r \in ThreadState : /\ thr' = [thr EXCEPT ![s][x] = r] /\ r.pc \in {"notify", "done"}
                                 /\ r.read = thr[s][x].read
    <2>1. CASE SideStops(s, x)
      <3>. DEFINE q == [thr[s][x] EXCEPT !.pc = "notify", !.buf = <<>>]
      <3>1. q \in ThreadState /\ q.pc = "notify" /\ q.read = thr[s][x].read
        BY <1>1 DEF ThreadState, ThreadPC
      <3>2. thr' = [thr EXCEPT ![s][x] = q]
        BY <2>1 DEF SideStops
      <3>. HIDE DEF q
      <3>. QED  BY <3>1, <3>2
    <2>2. CASE SideNotifies(s, x)
      <3>. DEFINE q == [thr[s][x] EXCEPT !.pc = "done"]
      <3>1. q \in ThreadState /\ q.pc = "done" /\ q.read = thr[s][x].read
        BY <1>1 DEF ThreadState, ThreadPC
      <3>2. thr' = [thr EXCEPT ![s][x] = q]
        BY <2>2 DEF SideNotifies
      <3>. HIDE DEF q
      <3>. QED  BY <3>1, <3>2
    <2>3. CASE SideCancelled(s, x)
      <3>. DEFINE q == [thr[s][x] EXCEPT !.pc = "done", !.buf = <<>>]
      <3>1. q \in ThreadState /\ q.pc = "done" /\ q.read = thr[s][x].read
        BY <1>1 DEF ThreadState, ThreadPC
      <3>2. thr' = [thr EXCEPT ![s][x] = q]
        BY <2>3 DEF SideCancelled
      <3>. HIDE DEF q
      <3>. QED  BY <3>1, <3>2
    <2>. QED  BY <2>1, <2>2, <2>3
  <1>3. thr'[s][x] = r
    BY <1>2, ThrAt DEF IInv
  <1>4. CarriedOf(s, x)'
    <2>1. sess' = sess /\ out' = out
      BY <1>0 DEF SessFrame
    <2>2. sess[s].pc \in {"spawn", "wait", "joinOther", "joinBoth", "close"}
          /\ (sess[s].pc = "spawn" => x # "b")
      BY <1>0, <1>1 DEF ThreadsOf
    <2>. QED  BY <1>2, <1>3, <2>1, <2>2 DEF CarriedOf
  <1>5. out \in [Session -> [Side -> Seq(Chunk)]] /\ pipe' \in [Session -> Seq(Side)]
    <2>1. out \in [Session -> [Side -> Seq(Chunk)]] /\ pipe \in [Session -> Seq(Side)]
      BY DEF IInv, Typed
    <2>2. Append(pipe[s], x) \in Seq(Side)
      BY <2>1
    <2>. QED  BY <2>1, <2>2 DEF SideStops, SideNotifies, SideCancelled
  <1>. QED  BY <1>0, <1>2, <1>4, <1>5, SideStepKeeps

-----------------------------------------------------------------------------
(* Theorems *)

\* The first state.
LEMMA InitHolds ==
    ASSUME Init
    PROVE  IInv
  <1>1. /\ \A s \in Session : sess[s] = NoSession /\ sess[s].pc = "none"
        /\ \A s \in Session, x \in Side : sess[s].fd[x] = 0
    BY Nothing DEF Init
  <1>2. /\ \A s \in Session, x \in Side : thr[s][x] = NoThread /\ out[s][x] = <<>>
        /\ \A x \in Side : Other(x) \in Side
    BY DEF Init, Other, Side
  <1>3. Typed
    <2>1. sess \in [Session -> SessionState] /\ thr \in [Session -> [Side -> ThreadState]]
          /\ ctl \in ControlState
      BY Nothing DEF Init
    <2>2. /\ active = 0 /\ idle = 0 /\ handled = 0
          /\ pipe = [s \in Session |-> <<>>] /\ owner = [f \in Fd |-> Free]
          /\ out = [s \in Session |-> [x \in Side |-> <<>>]]
      BY DEF Init
    <2>3. active \in 0 .. MaxSessions /\ idle \in 0 .. Timeout /\ handled \in Nat
      BY <2>2, Constants
    <2>4. pipe \in [Session -> Seq(Side)] /\ owner \in [Fd -> Conn \cup {Free}]
      BY <2>2
    <2>5. out \in [Session -> [Side -> Seq(Chunk)]]
      <3>1. [x \in Side |-> <<>>] \in [Side -> Seq(Chunk)]
        OBVIOUS
      <3>. QED  BY <2>2, <3>1
    <2>. QED  BY <2>1, <2>3, <2>4, <2>5 DEF Init, Typed
  <1>4. Modes
    BY <1>1 DEF Init, Modes, Running
  <1>5. StartedInOrder /\ Counted
    BY <1>1 DEF Init, StartedInOrder, Counted
  <1>6. Sockets /\ Owned
    BY <1>1 DEF Init, Sockets, HasSocket, Owned
  <1>7. Threads
    BY <1>1, <1>2, Nothing DEF Threads, ThreadsOf
  <1>8. Carried
    <2>1. ASSUME NEW s \in Session, NEW x \in Side PROVE CarriedOf(s, x)
      <3>1. thr[s][x] = NoThread /\ out[s][Other(x)] = <<>>
        BY <1>2
      <3>. QED  BY <3>1, Nothing DEF CarriedOf
    <2>. QED  BY <2>1 DEF Carried
  <1>9. ReadyMeansConnected /\ Len(ctl.buf) <= LineCap
    <2>1. Len(ctl.buf) = 0 /\ ~reported
      BY Nothing DEF Init
    <2>. QED  BY <2>1, Constants DEF ReadyMeansConnected
  <1>. QED  BY <1>3, <1>4, <1>5, <1>6, <1>7, <1>8, <1>9 DEF IInv

\* Nothing happens.
LEMMA StutterKeeps ==
    ASSUME IInv, UNCHANGED vars
    PROVE  IInv'
  <1>0. UNCHANGED <<cfg, mpc, exit, reported, ctl, handled, active, idle, sess, thr, pipe, owner,
                    out>>
    BY DEF vars
  <1>5. Typed'
    BY <1>0, ZenonT(30) DEF IInv, Typed
  <1>1. Modes' /\ StartedInOrder'
    BY <1>0 DEF IInv, Modes, StartedInOrder, Running
  <1>2. Counted' /\ Sockets' /\ Owned'
    BY <1>0 DEF IInv, Counted, LiveSessions, Live, Sockets, HasSocket, Owned, Running
  <1>3. Threads' /\ Carried'
    BY <1>0 DEF IInv, Threads, ThreadsOf, Gone, Carried, CarriedOf, Running
  <1>4. ReadyMeansConnected' /\ Len(ctl.buf)' <= LineCap
    BY <1>0 DEF IInv, ReadyMeansConnected, Running
  <1>. QED  BY <1>1, <1>2, <1>3, <1>4, <1>5 DEF IInv

\* Every step keeps the invariant.
LEMMA NextKeeps ==
    ASSUME IInv, [Next]_vars
    PROVE  IInv'
  <1>1. ASSUME NEW s \in Session, SessionStep(s) PROVE IInv'
    BY <1>1, ConnectSideKeeps, AuthSessionKeeps, SpawnKeeps, AwaitFirstKeeps,
       AwaitFirstFailsKeeps, JoinKeeps, CloseBothKeeps, SessionEndedKeeps
       DEF SessionStep
  <1>2. ASSUME NEW s \in Session, NEW x \in Side,
               \/ SideRecv(s, x) \/ SideSend(s, x) \/ SideStops(s, x)
               \/ SideNotifies(s, x) \/ SideCancelled(s, x)
        PROVE  IInv'
    BY <1>2, SideRecvKeeps, SideSendKeeps, SideEndKeeps
  <1>. QED  BY <1>1, <1>2, StutterKeeps, MainKeeps, ControlConnectKeeps, ControlAuthKeeps,
               RelaySendsKeeps, ControlRecvKeeps, IdleTimeoutKeeps, MainExitKeeps,
               SkipRequestKeeps, StartSessionKeeps, TickKeeps DEF Next

\* Everything above holds in every state of every behaviour.
THEOREM Invariance == Spec => []IInv
  <1>1. Init => IInv
    BY InitHolds
  <1>2. IInv /\ [Next]_vars => IInv'
    BY NextKeeps
  <1>. QED  BY <1>1, <1>2, PTL DEF Spec

\* No failure path of socket_to_socket loses a socket or closes another
\* tunnel's: an open descriptor belongs to a running tunnel that knows it.
THEOREM SocketsAreNotLost == Spec => []NoSocketLeaks
  <1>1. IInv => NoSocketLeaks
    <2>. SUFFICES ASSUME IInv, NEW f \in Fd, owner[f] # Free
                  PROVE  LET c == owner[f]
                         IN  Live(c[1]) /\ sess[c[1]].pc # "over" /\ sess[c[1]].fd[c[2]] = f
      BY DEF NoSocketLeaks
    <2>1. PICK s \in Session, x \in Side : Running /\ owner[f] = <<s, x>> /\ sess[s].fd[x] = f
      BY DEF IInv, Owned
    <2>2. HasSocket(s, x)
      BY <2>1, Constants DEF IInv, Sockets
    <2>3. Live(s) /\ sess[s].pc # "over"
      BY <2>2 DEF HasSocket, Live
    <2>. QED  BY <2>1, <2>3
  <1>. QED  BY <1>1, Invariance, PTL

\* active_sessions counts the live tunnels, and srv gives up for idleness
\* only when there are none.
THEOREM CountIsRight == Spec => []SessionsAreCounted
  <1>1. IInv => SessionsAreCounted
    <2>. SUFFICES ASSUME IInv PROVE SessionsAreCounted
      OBVIOUS
    <2>1. LiveSessions = {} => Cardinality(LiveSessions) = 0
      BY FS_EmptySet
    <2>. QED  BY <2>1 DEF IInv, Counted, SessionsAreCounted, LiveSessions
  <1>. QED  BY <1>1, Invariance, PTL

\* sshnpd is told that srv is ready only when it is.
THEOREM ReadyIsConnected == Spec => []ReadyMeansConnected
  <1>1. IInv => ReadyMeansConnected
    BY DEF IInv
  <1>. QED  BY <1>1, Invariance, PTL

\* However long the lines the relay sends, what is accumulated of them fits
\* in line_buf.
AccumulatorFits == Len(ctl.buf) <= LineCap
THEOREM AccumulatorAlwaysFits == Spec => []AccumulatorFits
  <1>1. IInv => AccumulatorFits
    BY DEF IInv, AccumulatorFits
  <1>. QED  BY <1>1, Invariance, PTL

\* The sockets of a tunnel are closed only when both its side threads are
\* gone, so that no thread ever uses a descriptor number that was reused.
ClosesAfterThreads ==
    \A s \in Session : Running /\ sess[s].pc \in {"close", "over", "ended"} =>
        \A x \in Side : Gone(s, x)
THEOREM ThreadsGoFirst == Spec => []ClosesAfterThreads
  <1>1. IInv => ClosesAfterThreads
    BY DEF IInv, Threads, ThreadsOf, Gone, ClosesAfterThreads
  <1>. QED  BY <1>1, Invariance, PTL

-----------------------------------------------------------------------------
(* Refinement of Tunnels *)

\* A step of the process that is not one of a tunnel's: nothing, or the end
\* of every tunnel.
LEMMA MainStepRefines ==
    ASSUME IInv, Running, UNCHANGED out,
           \/ \E why : Exit(why) /\ why # "" /\ UNCHANGED sess
           \/ UNCHANGED exit /\ \A t \in Session : PhaseOf(t)' = PhaseOf(t)
    PROVE  [T!Next]_T!vars
  <1>1. CASE \E why : Exit(why) /\ why # "" /\ UNCHANGED sess
    <2>1. exit' # ""
      BY <1>1 DEF Exit
    <2>2. \A t \in Session : PhaseOf(t)' = "closed"
      BY <2>1 DEF PhaseOf
    <2>3. T!CloseAll
      BY <2>2 DEF T!CloseAll
    <2>. QED  BY <2>3 DEF T!Next
  <1>2. CASE UNCHANGED exit /\ \A t \in Session : PhaseOf(t)' = PhaseOf(t)
    BY <1>2 DEF T!vars
  <1>. QED  BY <1>1, <1>2

\* A step of one tunnel that sends nothing opens it, closes it or keeps it.
LEMMA TunnelStepRefines ==
    ASSUME IInv, Running, NEW s \in Session, UNCHANGED <<exit, out>>,
           \A t \in Session : t # s => sess'[t] = sess[t],
           \/ PhaseOf(s)' = PhaseOf(s)
           \/ PhaseOf(s) = "unborn" /\ PhaseOf(s)' = "open"
           \/ PhaseOf(s) # "closed" /\ PhaseOf(s)' = "closed"
    PROVE  [T!Next]_T!vars
  <1>. DEFINE ph == [t \in Session |-> PhaseOf(t)]
  <1>1. \A t \in Session : t # s => PhaseOf(t)' = PhaseOf(t)
    BY DEF PhaseOf
  <1>2. CASE PhaseOf(s)' = PhaseOf(s)
    BY <1>1, <1>2 DEF T!vars
  <1>3. ph' = [ph EXCEPT ![s] = PhaseOf(s)']
    BY <1>1
  <1>4. CASE PhaseOf(s) = "unborn" /\ PhaseOf(s)' = "open"
    BY <1>3, <1>4 DEF T!Next, T!Open
  <1>5. CASE PhaseOf(s) # "closed" /\ PhaseOf(s)' = "closed"
    BY <1>3, <1>5 DEF T!Next, T!Close
  <1>. QED  BY <1>2, <1>4, <1>5

\* A send is a delivery at the other end of the same tunnel.
LEMMA SideSendRefines ==
    ASSUME IInv, NEW s \in Session, NEW x \in Side, SideSend(s, x)
    PROVE  [T!Next]_T!vars
  <1>. DEFINE y == Other(x)
              n == Len(out[s][y]) + 1
  <1>1. Running /\ exit' = exit /\ sess' = sess /\ thr[s][x].pc = "send"
    BY DEF SideSend, SessFrame, MainFrame
  <1>2. /\ out' = [out EXCEPT ![s][y] = Append(@, <<s, x, n>>)]
        /\ n = thr[s][x].read /\ n \in 1 .. MaxChunks
    BY SideSendDelivers
  <1>3. exit = "" /\ sess[s].pc \in {"spawn", "wait", "joinOther", "joinBoth", "close"}
    <2>1. ThreadsOf(s)
      BY <1>1, AtSession
    <2>. QED  BY <1>1, <2>1 DEF IInv, Modes, ThreadsOf
  <1>4. PhaseOf(s) = "open" /\ \A t \in Session : PhaseOf(t)' = PhaseOf(t)
    BY <1>1, <1>3 DEF PhaseOf
  <1>5. y \in T!Ends /\ T!Opposite(y) = x
    BY DEF Side, Other, T!Ends, T!Opposite
  <1>6. T!Deliver(s, y)
    BY <1>2, <1>4, <1>5 DEF T!Deliver
  <1>. QED  BY <1>5, <1>6 DEF T!Next

\* Every step of srv is a step of its tunnels or none.
LEMMA NextRefines ==
    ASSUME IInv, [Next]_vars
    PROVE  [T!Next]_T!vars
  <1>1. CASE UNCHANGED vars
    <2>1. UNCHANGED out /\ \A t \in Session : PhaseOf(t)' = PhaseOf(t)
      BY <1>1 DEF vars, PhaseOf
    <2>. QED  BY <2>1 DEF T!vars
  <1>2. ASSUME NEW o \in Options, Main(o) PROVE [T!Next]_T!vars
    <2>1. Running /\ UNCHANGED out
      BY <1>2 DEF Main, Running
    <2>2. CASE (Exit("usage") \/ Exit("failed")) /\ UNCHANGED sess
      BY <2>1, <2>2, MainStepRefines
    <2>3. CASE NoExit /\ (UNCHANGED sess \/ sess' = [sess EXCEPT ![1].pc = "connA"])
      <3>1. exit' = exit
        BY <2>3 DEF NoExit
      <3>2. \A t \in Session : sess[t].pc = "none"
        BY <1>2, Nothing DEF Main, IInv, Modes
      <3>3. \A t \in Session : sess'[t].pc \in {"none", "connA"}
        <4>1. CASE UNCHANGED sess
          BY <3>2, <4>1
        <4>2. CASE sess' = [sess EXCEPT ![1].pc = "connA"]
          <5>1. Typed /\ 1 \in Session /\ "connA" \in SessPC
            BY Constants DEF IInv, SessPC
          <5>2. /\ sess'[1].pc = "connA"
                /\ \A t \in Session : t # 1 => sess'[t] = sess[t]
            BY <4>2, <5>1, GotoAt
          <5>. QED  BY <3>2, <5>2
        <4>. QED  BY <2>3, <4>1, <4>2
      <3>4. \A t \in Session : PhaseOf(t)' = PhaseOf(t)
        BY <3>1, <3>2, <3>3 DEF PhaseOf
      <3>. QED  BY <2>1, <3>1, <3>4, MainStepRefines
    <2>. QED  BY <1>2, <2>2, <2>3 DEF Main
  <1>3. ASSUME ControlConnect \/ ControlAuth PROVE [T!Next]_T!vars
    <2>1. Running /\ UNCHANGED <<sess, out>> /\ (Exit("failed") \/ NoExit)
      BY <1>3 DEF ControlConnect, ControlAuth, Running
    <2>2. CASE Exit("failed")
      BY <2>1, <2>2, MainStepRefines
    <2>3. CASE NoExit
      BY <2>1, <2>3, MainStepRefines DEF NoExit, PhaseOf
    <2>. QED  BY <2>1, <2>2, <2>3
  <1>4. ASSUME IdleTimeout \/ ControlLost \/ StartSessionFails \/ SingleDone PROVE [T!Next]_T!vars
    BY <1>4, MainStepRefines
       DEF IdleTimeout, ControlLost, StartSessionFails, SingleDone, Running
  <1>5. ASSUME Running, UNCHANGED <<exit, sess, out>> PROVE [T!Next]_T!vars
    BY <1>5, MainStepRefines DEF PhaseOf
  <1>6. ASSUME StartSession PROVE [T!Next]_T!vars
    <2>0. PICK s \in Session : s = NextSession
      BY <1>6 DEF StartSession
    <2>1. Running /\ UNCHANGED <<exit, out>>
      BY <1>6 DEF StartSession, Running
    <2>2. sess[s].pc = "none"
      BY <2>0, NextSessionIsNew
    <2>3. sess'[s].pc = "connA" /\ \A t \in Session : t # s => sess'[t] = sess[t]
      <3>1. sess' = [sess EXCEPT ![s].pc = "connA"]
        BY <1>6, <2>0 DEF StartSession
      <3>. QED  BY <2>1, <3>1, GotoAt DEF IInv, SessPC
    <2>4. PhaseOf(s)' = PhaseOf(s)
      BY <2>1, <2>2, <2>3 DEF PhaseOf
    <2>. QED  BY <2>1, <2>3, <2>4, TunnelStepRefines
  <1>7. ASSUME NEW s \in Session, Running, UNCHANGED <<exit, out>>, NEW l \in SessPC,
               \A t \in Session : t # s => sess'[t] = sess[t], sess'[s].pc = l,
               \/ /\ sess[s].pc \in {"connA", "connB", "auth", "reply"}
                  /\ l \in {"connB", "auth", "reply", "spawn", "close", "over"}
               \/ /\ sess[s].pc \in {"spawn", "wait", "joinOther", "joinBoth", "close"}
                  /\ l \in {"wait", "joinOther", "joinBoth", "close", "over"}
               \/ sess[s].pc = "over" /\ l = "ended"
        PROVE  [T!Next]_T!vars
    <2>1. exit = "" /\ exit' = ""
      BY <1>7 DEF IInv, Modes
    <2>2. \/ PhaseOf(s)' = PhaseOf(s)
          \/ PhaseOf(s) = "unborn" /\ PhaseOf(s)' = "open"
          \/ PhaseOf(s) # "closed" /\ PhaseOf(s)' = "closed"
      BY <1>7, <2>1 DEF PhaseOf
    <2>. QED  BY <1>7, <2>2, TunnelStepRefines
  <1>8. ASSUME NEW s \in Session, NEW x \in Side, ConnectSide(s, x) PROVE [T!Next]_T!vars
    <2>1. /\ Running /\ UNCHANGED <<exit, out>> /\ sess[s].pc \in {"connA", "connB"}
          /\ UNCHANGED mpc /\ sess[s] \in SessionState /\ IInv
      BY <1>8 DEF ConnectSide, MainFrame, IInv, Typed
    <2>2. CASE Return(s)
      <3>1. sess'[s].pc = "over" /\ \A t \in Session : t # s => sess'[t] = sess[t]
        BY <2>1, <2>2, ReturnFrees
      <3>2. "over" \in SessPC
        BY DEF SessPC
      <3>. QED  BY <1>7, <2>1, <3>1, <3>2
    <2>3. CASE \E f : sess' = [sess EXCEPT ![s].fd[x] = f,
                                           ![s].pc = IF x = "a" THEN "connB" ELSE "auth"]
      <3>1. \A t \in Session : t # s => sess'[t] = sess[t]
        BY <2>3 DEF IInv, Typed
      <3>2. sess'[s].pc \in {"connB", "auth"}
        <4>. DEFINE l == IF x = "a" THEN "connB" ELSE "auth"
        <4>1. PICK f : sess' = [sess EXCEPT ![s] = [sess[s] EXCEPT !.fd[x] = f, !.pc = l]]
          BY <2>3
        <4>2. sess \in [Session -> SessionState]
          BY DEF IInv, Typed
        <4>3. sess'[s] = [sess[s] EXCEPT !.fd[x] = f, !.pc = l]
          BY <4>1, <4>2
        <4>4. sess'[s].pc = l
          BY <2>1, <4>3 DEF SessionState
        <4>. QED  BY <4>4
      <3>3. {"connB", "auth"} \subseteq SessPC
        BY DEF SessPC
      <3>. QED  BY <1>7, <2>1, <3>1, <3>2, <3>3
    <2>. QED  BY <1>8, <2>2, <2>3 DEF ConnectSide
  <1>9. ASSUME NEW s \in Session, AuthSession(s) \/ Spawn(s) \/ AwaitFirst(s)
                                  \/ AwaitFirstFails(s) \/ Join(s) \/ SessionEnded(s)
        PROVE  [T!Next]_T!vars
    <2>1. Running /\ UNCHANGED <<exit, out>>
      BY <1>9 DEF AuthSession, Spawn, AwaitFirst, AwaitFirstFails, Join, SessionEnded, MainFrame
    <2>2. ASSUME NEW l \in SessPC, NEW x \in Side,
                 Goto(s, l) \/ sess' = [sess EXCEPT ![s].pc = l, ![s].first = x],
                 \/ sess[s].pc \in {"auth", "reply"} /\ l \in {"reply", "spawn", "close"}
                 \/ /\ sess[s].pc \in {"spawn", "wait", "joinOther", "joinBoth"}
                    /\ l \in {"wait", "joinOther", "joinBoth", "close"}
                 \/ sess[s].pc = "over" /\ l = "ended"
          PROVE  [T!Next]_T!vars
      <3>1. sess'[s].pc = l /\ \A t \in Session : t # s => sess'[t] = sess[t]
        <4>1. CASE Goto(s, l)
          BY <4>1, GotoAt DEF IInv, Goto
        <4>2. CASE sess' = [sess EXCEPT ![s].pc = l, ![s].first = x]
          BY <4>2, FirstAt DEF IInv
        <4>. QED  BY <2>2, <4>1, <4>2
      <3>. QED  BY <1>7, <2>1, <2>2, <3>1
    <2>3. /\ {"reply", "spawn", "close", "wait", "joinOther", "joinBoth", "ended"} \subseteq SessPC
          /\ "a" \in Side /\ "b" \in Side
      BY DEF SessPC, Side
    <2>4. CASE AuthSession(s)
      <3>1. PICK l \in {"reply", "spawn", "close"} : Goto(s, l)
        BY <2>4 DEF AuthSession, RelayAuth
      <3>. QED  BY <2>2, <2>3, <2>4, <3>1 DEF AuthSession
    <2>5. CASE Spawn(s)
      BY <2>2, <2>3, <2>5 DEF Spawn
    <2>6. CASE AwaitFirst(s)
      <3>1. Head(pipe[s]) \in Side
        BY <2>1, <2>6, AtSession DEF AwaitFirst
      <3>. QED  BY <2>2, <2>3, <2>6, <3>1 DEF AwaitFirst
    <2>7. CASE AwaitFirstFails(s) \/ Join(s)
      BY <2>2, <2>3, <2>7 DEF AwaitFirstFails, Join
    <2>8. CASE SessionEnded(s)
      BY <2>2, <2>3, <2>8 DEF SessionEnded
    <2>. QED  BY <1>9, <2>4, <2>5, <2>6, <2>7, <2>8
  <1>10. ASSUME NEW s \in Session, CloseBoth(s) PROVE [T!Next]_T!vars
    <2>1. /\ Running /\ UNCHANGED <<exit, out, mpc>> /\ sess[s].pc = "close" /\ Return(s)
          /\ "over" \in SessPC
      BY <1>10 DEF CloseBoth, MainFrame, SessPC
    <2>2. sess'[s].pc = "over" /\ \A t \in Session : t # s => sess'[t] = sess[t]
      BY <2>1, ReturnFrees
    <2>. QED  BY <1>7, <2>1, <2>2
  <1>11. ASSUME NEW s \in Session, NEW x \in Side,
                SideRecv(s, x) \/ SideStops(s, x) \/ SideNotifies(s, x) \/ SideCancelled(s, x)
         PROVE  [T!Next]_T!vars
    BY <1>5, <1>11
       DEF SideRecv, SideStops, SideNotifies, SideCancelled, Alive, SessFrame, MainFrame
  <1>12. ASSUME \/ \E k \in Kind : RelaySends(k)
                \/ \E n \in 1 .. RecvMax : ControlRecv(n)
                \/ SkipRequest \/ Tick
         PROVE  [T!Next]_T!vars
    BY <1>5, <1>12 DEF RelaySends, ControlRecv, SkipRequest, Tick, Running
  <1>. QED  BY <1>1, <1>2, <1>3, <1>4, <1>6, <1>8, <1>9, <1>10, <1>11, <1>12, SideSendRefines
            DEF Next, SessionStep

\* srv keeps the promise of module Tunnels: whichever thread ends first and
\* however descriptor numbers are reused, what is read at one end of a tunnel
\* leaves at its other end, in order, and nothing leaves a tunnel that is over.
THEOREM TunnelsAreKept == Spec => TunnelsKept
  <1>1. Init => T!Init
    <2>. SUFFICES ASSUME Init PROVE T!Init
      OBVIOUS
    <2>1. exit = "" /\ \A s \in Session : sess[s].pc = "none"
      BY Nothing DEF Init
    <2>2. \A s \in Session : PhaseOf(s) = "unborn"
      BY <2>1 DEF PhaseOf
    <2>. QED  BY <2>2 DEF Init, T!Init, T!Ends, Side
  <1>2. IInv /\ [Next]_vars => [T!Next]_T!vars
    BY NextRefines
  <1>. QED  BY <1>1, <1>2, Invariance, PTL DEF Spec, TunnelsKept, T!Spec

-----------------------------------------------------------------------------
(* The control channel: the inductive invariant *)

\* How the pieces of the lines follow each other.
Follows(p, r) == IF IsEnd(p) THEN r.at = 1 ELSE r.kind = p.kind /\ r.at = p.at + 1

\* The pieces go from line to line.  They may begin within a line, but only
\* within a long one.
Chained(q) ==
    /\ \A i \in 1 .. Len(q) : q[i].at <= Pieces(q[i].kind)
    /\ \A i \in 1 .. Len(q) - 1 : Follows(q[i], q[i + 1])
    /\ Len(q) > 0 => q[1].at = 1 \/ q[1].kind = "long"

EndsWithALine(q) == Len(q) > 0 => IsEnd(q[Len(q)])
HasNoEnd(q) == \A i \in 1 .. Len(q) : ~IsEnd(q[i])

\* What has been accumulated, b, and what is still to arrive, w, are such
\* pieces; no line ends in what is accumulated.
StreamSound(b, w) == Chained(b \o w) /\ EndsWithALine(b \o w) /\ HasNoEnd(b)

ControlInv ==
    /\ batch \in Seq(Kind)
    /\ StreamSound(ctl.buf, ctl.wire)
    /\ NoRequestLost

-----------------------------------------------------------------------------
(* Counting *)

\* Shifted numbers are as many.
LEMMA ShiftedAreAsMany ==
    ASSUME NEW S \in SUBSET Int, IsFiniteSet(S), NEW m \in Int, NEW V \in SUBSET Int,
           \A i \in S : i - m \in V, \A j \in V : j + m \in S
    PROVE  IsFiniteSet(V) /\ Cardinality(V) = Cardinality(S)
  <1>. DEFINE f == [i \in S |-> i - m]
  <1>1. f \in Bijection(S, V)
    <2>1. f \in [S -> V]
      OBVIOUS
    <2>2. \A i, j \in S : f[i] = f[j] => i = j
      OBVIOUS
    <2>3. \A j \in V : \E i \in S : f[i] = j
      <3>. SUFFICES ASSUME NEW j \in V PROVE j + m \in S /\ f[j + m] = j
        OBVIOUS
      <3>. QED  OBVIOUS
    <2>. QED  BY <2>1, <2>2, <2>3 DEF Bijection, Injection, Surjection, IsInjective
  <1>2. ExistsBijection(S, V)
    BY <1>1 DEF ExistsBijection
  <1>. QED  BY <1>2, FS_Bijection

\* What a suffix has is what there is after the prefix.
LEMMA PrefixAndSuffix ==
    ASSUME NEW S \in SUBSET Nat, IsFiniteSet(S), NEW n \in Nat, NEW V \in SUBSET Nat,
           \A j \in V : j + n \in S /\ j > 0, \A i \in S : i > n => i - n \in V,
           NEW P \in SUBSET S, \A i \in S : i \in P <=> i <= n
    PROVE  /\ IsFiniteSet(V) /\ IsFiniteSet(P)
           /\ Cardinality(S) = Cardinality(P) + Cardinality(V)
           /\ Cardinality(S) \in Nat /\ Cardinality(V) \in Nat /\ Cardinality(P) \in Nat
  <1>. DEFINE R == {i \in S : i > n}
  <1>1. IsFiniteSet(P) /\ IsFiniteSet(R)
    BY FS_Subset
  <1>0. \A i \in S : i \in Nat /\ (i <= n \/ i > n) /\ ~(i <= n /\ i > n)
    OBVIOUS
  <1>2. S = P \cup R /\ P \cap R = {}
    BY <1>0, Zenon
  <1>3. Cardinality(P \cap R) = 0
    BY <1>2, FS_EmptySet
  <1>4. Cardinality(P \cup R) = Cardinality(P) + Cardinality(R) - Cardinality(P \cap R)
    BY <1>1, FS_Union
  <1>5. IsFiniteSet(V) /\ Cardinality(V) = Cardinality(R)
    <2>3. \A i \in R : i \in Int
      BY <1>0
    <2>4. R \in SUBSET Int
      BY <2>3, Zenon
    <2>5. V \in SUBSET Int /\ n \in Int
      OBVIOUS
    <2>1. \A i \in R : i - n \in V
      OBVIOUS
    <2>2. \A j \in V : j + n \in R
      OBVIOUS
    <2>. HIDE DEF R
    <2>. QED  BY <1>1, <2>1, <2>2, <2>4, <2>5, ShiftedAreAsMany
  <1>6. Cardinality(P) \in Nat /\ Cardinality(R) \in Nat /\ Cardinality(S) \in Nat
    BY <1>1, FS_CardinalityType
  <1>7. Cardinality(S) = Cardinality(P) + Cardinality(R) - Cardinality(P \cap R)
    BY <1>2, <1>4, Zenon
  <1>. HIDE DEF R
  <1>8. Cardinality(S) = Cardinality(P) + Cardinality(V)
    BY <1>3, <1>5, <1>6, <1>7
  <1>. QED  BY <1>1, <1>5, <1>6, <1>8

\* Places in a sequence are finitely many.
LEMMA PlacesAreFinite ==
    ASSUME NEW S, NEW q \in Seq(S), NEW P \in SUBSET (DOMAIN q)
    PROVE  P \in SUBSET Nat /\ IsFiniteSet(P) /\ Cardinality(P) \in Nat
  <1>1. DOMAIN q = 1 .. Len(q) /\ Len(q) \in Nat
    BY LenProperties
  <1>2. IsFiniteSet(1 .. Len(q))
    BY <1>1, FS_Interval
  <1>3. IsFiniteSet(P)
    BY <1>1, <1>2, FS_Subset
  <1>. QED  BY <1>1, <1>3, FS_CardinalityType

\* The first request leaves the batch.
LEMMA OneRequestLess ==
    ASSUME NEW q \in Seq(Kind), q # <<>>
    PROVE  /\ Tail(q) \in Seq(Kind)
           /\ Connects(q) = Connects(Tail(q)) + IF Head(q) = "connect" THEN 1 ELSE 0
           /\ Connects(Tail(q)) \in Nat
  <1>. DEFINE S == {i \in DOMAIN q : q[i] = "connect"}
              V == {i \in DOMAIN Tail(q) : Tail(q)[i] = "connect"}
              P == {i \in S : i <= 1}
  <1>1. /\ Tail(q) \in Seq(Kind) /\ Len(Tail(q)) = Len(q) - 1
        /\ \A i \in 1 .. Len(Tail(q)) : Tail(q)[i] = q[i + 1]
        /\ Head(q) = q[1] /\ Len(q) \in Nat \ {0}
    BY HeadTailProperties, LenProperties, EmptySeq
  <1>2. DOMAIN q = 1 .. Len(q) /\ DOMAIN Tail(q) = 1 .. (Len(q) - 1)
    BY <1>1, LenProperties
  <1>3. S \in SUBSET Nat /\ IsFiniteSet(S)
    BY PlacesAreFinite
  <1>4. V \in SUBSET Nat
    BY <1>2
  <1>5. \A j \in V : j + 1 \in S /\ j > 0
    BY <1>1, <1>2
  <1>6. \A i \in S : i > 1 => i - 1 \in V
    <2>. SUFFICES ASSUME NEW i \in 1 .. Len(q), q[i] = "connect", i > 1
                  PROVE  i - 1 \in V
      BY <1>2
    <2>1. i - 1 \in 1 .. Len(Tail(q)) /\ (i - 1) + 1 = i
      BY <1>1
    <2>. QED  BY <2>1, <1>1, <1>2
  <1>. HIDE DEF S, V
  <1>7. Cardinality(S) = Cardinality(P) + Cardinality(V) /\ Cardinality(V) \in Nat
    <2>1. P \in SUBSET S /\ \A i \in S : i \in P <=> i <= 1
      OBVIOUS
    <2>. HIDE DEF P
    <2>2. \A n \in Nat :
             /\ \A j \in V : j + n \in S /\ j > 0
             /\ \A i \in S : i > n => i - n \in V
             /\ \A i \in S : i \in P <=> i <= n
             => Cardinality(S) = Cardinality(P) + Cardinality(V) /\ Cardinality(V) \in Nat
      <3>. SUFFICES ASSUME NEW n \in Nat,
                           \A j \in V : j + n \in S /\ j > 0,
                           \A i \in S : i > n => i - n \in V,
                           \A i \in S : i \in P <=> i <= n
                    PROVE  Cardinality(S) = Cardinality(P) + Cardinality(V) /\ Cardinality(V) \in Nat
        OBVIOUS
      <3>1. P \in SUBSET S /\ S \in SUBSET Nat /\ V \in SUBSET Nat /\ IsFiniteSet(S)
        BY <2>1, <1>3, <1>4
      <3>. QED  BY <3>1, PrefixAndSuffix, ZenonT(30)
    <2>3. 1 \in Nat
      OBVIOUS
    <2>. QED  BY <2>1, <2>2, <2>3, <1>5, <1>6, Zenon
  <1>8. P = IF Head(q) = "connect" THEN {1} ELSE {}
    BY <1>1, <1>2 DEF S
  <1>9. Cardinality(P) = IF Head(q) = "connect" THEN 1 ELSE 0
    BY <1>8, FS_EmptySet, FS_Singleton
  <1>. HIDE DEF P
  <1>10. Connects(q) = Cardinality(S) /\ Connects(Tail(q)) = Cardinality(V)
    BY DEF Connects, S, V
  <1>11. Cardinality(S) = Cardinality(V) + IF Head(q) = "connect" THEN 1 ELSE 0
    BY <1>7, <1>9
  <1>. QED  BY <1>1, <1>7, <1>10, <1>11

-----------------------------------------------------------------------------
(* The control stream *)

\* The lengths of the lines, and what a piece is.
LEMMA LineLengths ==
    /\ Pieces("connect") = 2 /\ Pieces("junk") = 1 /\ Pieces("long") = LineCap + 2
    /\ \A k \in Kind : Pieces(k) \in Nat \ {0}
    /\ \A p \in Piece : p.kind \in Kind /\ p.at \in Nat \ {0} /\ Pieces(p.kind) \in Nat \ {0}
  BY Constants DEF Pieces, Kind, Piece

\* Parts of a sequence of pieces.
LEMMA Part ==
    ASSUME NEW q \in Seq(Piece), NEW c \in 0 .. Len(q), NEW d \in 0 .. Len(q), c <= d
    PROVE  /\ SubSeq(q, c + 1, d) \in Seq(Piece)
           /\ Len(SubSeq(q, c + 1, d)) = d - c
           /\ \A i \in 1 .. d - c : SubSeq(q, c + 1, d)[i] = q[c + i]
  <1>1. Len(q) \in Nat /\ \A i \in 1 .. Len(q) : q[i] \in Piece
    BY LenProperties, ElementOfSeq
  <1>. DEFINE m == c + 1
  <1>2. m \in Int /\ d \in Int /\ \A i \in m .. d : q[i] \in Piece
    BY <1>1
  <1>3. d - m + 1 = d - c /\ (m <= d => Len(q) > 0) /\ (~(m <= d) => d - c = 0)
    BY <1>1
  <1>4. \A i \in Int : m + i - 1 = c + i
    BY <1>1
  <1>. HIDE DEF m
  <1>5. /\ SubSeq(q, m, d) \in Seq(Piece)
        /\ Len(SubSeq(q, m, d)) = IF m <= d THEN d - m + 1 ELSE 0
        /\ \A i \in 1 .. d - m + 1 : SubSeq(q, m, d)[i] = q[m + i - 1]
    BY <1>2, SubSeqProperties
  <1>6. \A i \in 1 .. d - c : SubSeq(q, m, d)[i] = q[c + i]
    BY <1>3, <1>4, <1>5
  <1>7. Len(SubSeq(q, m, d)) = d - c
    BY <1>3, <1>5
  <1>. QED  BY <1>5, <1>6, <1>7 DEF m

\* What was received first goes from line to line as well.
LEMMA ChainedPrefix ==
    ASSUME NEW q \in Seq(Piece), NEW r \in Seq(Piece), Chained(q), Len(r) <= Len(q),
           \A i \in 1 .. Len(r) : r[i] = q[i]
    PROVE  Chained(r)
  <1>1. Len(q) \in Nat /\ Len(r) \in Nat
    BY LenProperties
  <1>2. \A i \in 1 .. Len(r) : i \in 1 .. Len(q) /\ r[i] = q[i]
    BY <1>1
  <1>3. \A i \in 1 .. Len(r) - 1 :
           i \in 1 .. Len(q) - 1 /\ i \in 1 .. Len(r) /\ i + 1 \in 1 .. Len(r)
    BY <1>1
  <1>4. Len(r) > 0 => Len(q) > 0 /\ 1 \in 1 .. Len(r)
    BY <1>1
  <1>5. \A i \in 1 .. Len(r) : r[i].at <= Pieces(r[i].kind)
    BY <1>2 DEF Chained
  <1>6. \A i \in 1 .. Len(r) - 1 : Follows(r[i], r[i + 1])
    BY <1>2, <1>3 DEF Chained
  <1>7. Len(r) > 0 => r[1].at = 1 \/ r[1].kind = "long"
    BY <1>2, <1>4 DEF Chained
  <1>. QED  BY <1>5, <1>6, <1>7 DEF Chained

\* So does what is left behind a line, or behind part of a long one.
LEMMA ChainedSuffix ==
    ASSUME NEW q \in Seq(Piece), NEW r \in Seq(Piece), NEW c \in Nat,
           Chained(q), Len(q) = c + Len(r),
           \A i \in 1 .. Len(r) : r[i] = q[c + i],
           c = 0 \/ IsEnd(q[c]) \/ q[c].kind = "long"
    PROVE  Chained(r)
  <1>1. Len(q) \in Nat /\ Len(r) \in Nat
    BY LenProperties
  <1>2. \A i \in 1 .. Len(r) : c + i \in 1 .. Len(q) /\ r[i] = q[c + i]
    BY <1>1
  <1>5. \A i \in 1 .. Len(r) : r[i].at <= Pieces(r[i].kind)
    BY <1>2 DEF Chained
  <1>6. \A i \in 1 .. Len(r) - 1 : Follows(r[i], r[i + 1])
    <2>. SUFFICES ASSUME NEW i \in 1 .. Len(r) - 1 PROVE Follows(r[i], r[i + 1])
      OBVIOUS
    <2>1. /\ i \in 1 .. Len(r) /\ i + 1 \in 1 .. Len(r)
          /\ c + i \in 1 .. Len(q) - 1 /\ c + (i + 1) = (c + i) + 1
      BY <1>1
    <2>2. r[i] = q[c + i] /\ r[i + 1] = q[(c + i) + 1]
      BY <1>2, <2>1
    <2>3. \A j \in 1 .. Len(q) - 1 : Follows(q[j], q[j + 1])
      BY DEF Chained
    <2>4. Follows(q[c + i], q[(c + i) + 1])
      BY <2>1, <2>3
    <2>. QED  BY <2>2, <2>4
  <1>7. ASSUME Len(r) > 0 PROVE r[1].at = 1 \/ r[1].kind = "long"
    <2>1. 1 \in 1 .. Len(r) /\ r[1] = q[c + 1] /\ Len(q) > 0
      BY <1>1, <1>2, <1>7
    <2>2. CASE c = 0
      BY <2>1, <2>2 DEF Chained
    <2>3. CASE c # 0
      <3>1. c \in 1 .. Len(q) - 1
        BY <1>1, <1>7, <2>3
      <3>2. Follows(q[c], q[c + 1])
        BY <3>1 DEF Chained
      <3>. QED  BY <2>1, <2>3, <3>2 DEF Follows
    <2>. QED  BY <2>2, <2>3
  <1>. QED  BY <1>5, <1>6, <1>7 DEF Chained

\* A line is chained to lines that are complete.
LEMMA ChainedLine ==
    ASSUME NEW q \in Seq(Piece), NEW k \in Kind, Chained(q), EndsWithALine(q)
    PROVE  Line(k) \in Seq(Piece) /\ Chained(q \o Line(k)) /\ EndsWithALine(q \o Line(k))
  <1>. DEFINE l == Line(k)
              r == q \o l
  <1>1. Pieces(k) \in Nat \ {0}
    BY LineLengths
  <1>2. l \in Seq(Piece) /\ Len(l) = Pieces(k)
        /\ \A i \in 1 .. Len(l) : l[i].kind = k /\ l[i].at = i
    <2>1. \A i \in 1 .. Pieces(k) : [kind |-> k, at |-> i] \in Piece
      BY <1>1 DEF Piece
    <2>. QED  BY <1>1, <2>1 DEF Line
  <1>. HIDE DEF l
  <1>3. Len(q) \in Nat /\ Len(l) \in Nat
    BY <1>2, LenProperties
  <1>4. r \in Seq(Piece) /\ Len(r) = Len(q) + Len(l)
        /\ \A i \in 1 .. Len(q) + Len(l) : r[i] = IF i <= Len(q) THEN q[i] ELSE l[i - Len(q)]
    BY <1>2, ConcatProperties
  <1>. HIDE DEF r
  <1>5. \A i \in 1 .. Len(r) : r[i].at <= Pieces(r[i].kind)
    <2>. SUFFICES ASSUME NEW i \in 1 .. Len(r) PROVE r[i].at <= Pieces(r[i].kind)
      OBVIOUS
    <2>1. CASE i <= Len(q)
      <3>1. i \in 1 .. Len(q) /\ r[i] = q[i]
        BY <1>3, <1>4, <2>1
      <3>. QED  BY <3>1 DEF Chained
    <2>2. CASE ~(i <= Len(q))
      <3>1. i - Len(q) \in 1 .. Len(l) /\ r[i] = l[i - Len(q)]
        BY <1>3, <1>4, <2>2
      <3>. QED  BY <3>1, <1>2
    <2>. QED  BY <2>1, <2>2
  <1>6. \A i \in 1 .. Len(r) - 1 : Follows(r[i], r[i + 1])
    <2>. SUFFICES ASSUME NEW i \in 1 .. Len(r) - 1 PROVE Follows(r[i], r[i + 1])
      OBVIOUS
    <2>1. CASE i < Len(q)
      <3>1. i \in 1 .. Len(q) - 1 /\ r[i] = q[i] /\ r[i + 1] = q[i + 1]
        BY <1>3, <1>4, <2>1
      <3>. QED  BY <3>1 DEF Chained
    <2>2. CASE i = Len(q)
      <3>1. r[i] = q[Len(q)] /\ Len(q) > 0
        BY <1>3, <1>4, <2>2
      <3>2. /\ (i + 1) - Len(q) = 1 /\ ~(i + 1 <= Len(q))
            /\ i + 1 \in 1 .. Len(q) + Len(l) /\ 1 \in 1 .. Len(l)
        BY <1>3, <1>4, <2>2
      <3>3. r[i + 1] = l[1]
        BY <1>4, <3>2
      <3>. QED  BY <3>1, <3>2, <3>3, <1>2 DEF EndsWithALine, Follows
    <2>3. CASE i > Len(q)
      <3>. DEFINE j == i - Len(q)
      <3>1. j \in 1 .. Len(l) - 1 /\ r[i] = l[j]
        BY <1>3, <1>4, <2>3
      <3>2. (i + 1) - Len(q) = j + 1 /\ ~(i + 1 <= Len(q)) /\ i + 1 \in 1 .. Len(q) + Len(l)
        BY <1>3, <1>4, <2>3
      <3>3. r[i + 1] = l[j + 1]
        BY <1>4, <3>2
      <3>. HIDE DEF j
      <3>4. j \in 1 .. Len(l) /\ j + 1 \in 1 .. Len(l) /\ j # Pieces(k)
        BY <1>2, <1>3, <3>1
      <3>. QED  BY <3>1, <3>3, <3>4, <1>2 DEF Follows, IsEnd
    <2>. QED  BY <1>3, <2>1, <2>2, <2>3
  <1>7. Len(r) > 0 => r[1].at = 1 \/ r[1].kind = "long"
    <2>1. CASE Len(q) > 0
      <3>1. r[1] = q[1]
        BY <1>3, <1>4, <2>1
      <3>. QED  BY <2>1, <3>1 DEF Chained
    <2>2. CASE Len(q) = 0
      <3>1. 1 \in 1 .. Len(l) /\ 1 \in 1 .. Len(q) + Len(l) /\ ~(1 <= Len(q)) /\ 1 - Len(q) = 1
        BY <1>1, <1>2, <2>2
      <3>2. r[1] = l[1]
        BY <1>4, <3>1
      <3>. QED  BY <1>2, <3>1, <3>2
    <2>. QED  BY <1>3, <2>1, <2>2
  <1>8. IsEnd(r[Len(r)])
    <2>1. Len(r) \in 1 .. Len(q) + Len(l) /\ ~(Len(r) <= Len(q)) /\ Len(r) - Len(q) = Len(l)
          /\ Len(l) \in 1 .. Len(l)
      BY <1>1, <1>2, <1>3, <1>4
    <2>2. r[Len(r)] = l[Len(l)]
      BY <1>4, <2>1
    <2>. QED  BY <1>2, <2>1, <2>2 DEF IsEnd
  <1>. QED  BY <1>2, <1>5, <1>6, <1>7, <1>8 DEF Chained, EndsWithALine, l, r

\* The end of a connect line has its beginning before it, and before that the
\* end of a line or nothing.
LEMMA ConnectLine ==
    ASSUME NEW q \in Seq(Piece), Chained(q), NEW i \in 1 .. Len(q),
           IsEnd(q[i]), q[i].kind = "connect"
    PROVE  /\ i - 1 \in 1 .. Len(q) /\ ~IsEnd(q[i - 1])
           /\ i - 2 = 0 \/ (i - 2 \in 1 .. Len(q) /\ IsEnd(q[i - 2]))
  <1>1. Len(q) \in Nat /\ \A j \in 1 .. Len(q) : q[j] \in Piece
    BY LenProperties, ElementOfSeq
  <1>2. q[i].at = 2
    BY LineLengths DEF IsEnd
  <1>3. i # 1
    <2>1. Len(q) > 0
      BY <1>1
    <2>2. "connect" # "long" /\ 2 # 1
      OBVIOUS
    <2>. QED  BY <1>2, <2>1, <2>2 DEF Chained
  <1>. DEFINE h == i - 1
  <1>4. h \in 1 .. Len(q) - 1 /\ h \in 1 .. Len(q) /\ h + 1 = i
    BY <1>1, <1>3
  <1>5. Follows(q[h], q[i])
    <2>1. Follows(q[h], q[h + 1])
      BY <1>4 DEF Chained
    <2>. QED  BY <1>4, <2>1
  <1>. HIDE DEF h
  <1>6. ~IsEnd(q[h]) /\ q[h].kind = "connect" /\ q[h].at = 1
    <2>1. q[h].at \in Nat
      BY <1>1, <1>4, LineLengths
    <2>. QED  BY <1>2, <1>5, <2>1 DEF Follows
  <1>7. ASSUME h # 1 PROVE h - 1 \in 1 .. Len(q) /\ IsEnd(q[h - 1])
    <2>. DEFINE g == h - 1
    <2>1. g \in 1 .. Len(q) - 1 /\ g \in 1 .. Len(q) /\ g + 1 = h
      BY <1>1, <1>4, <1>7
    <2>2. Follows(q[g], q[h])
      <3>1. Follows(q[g], q[g + 1])
        BY <2>1 DEF Chained
      <3>. QED  BY <2>1, <3>1
    <2>. HIDE DEF g
    <2>3. q[g].at \in Nat \ {0}
      BY <1>1, <2>1, LineLengths
    <2>4. IsEnd(q[g])
      BY <1>6, <2>2, <2>3 DEF Follows
    <2>. QED  BY <2>1, <2>4 DEF g
  <1>8. h - 1 = i - 2 /\ (h = 1 => i - 2 = 0)
    BY <1>4 DEF h
  <1>. QED  BY <1>4, <1>6, <1>7, <1>8 DEF h

\* The requests taken from complete lines are connects exactly where connect
\* lines end.
LEMMA RequestsAreTheLines ==
    ASSUME NEW q \in Seq(Piece), Chained(q), NEW r \in Requests(q)
    PROVE  r \in Seq(Kind) /\ Connects(r) = ConnectEnds(q)
  <1>. DEFINE E == {i \in DOMAIN q : IsEnd(q[i])}
              N == Cardinality(E)
              C == {i \in DOMAIN q : IsEnd(q[i]) /\ q[i].kind = "connect"}
              From(at, j) == IF j = 1 THEN 1 ELSE at[j - 1] + 1
              Whole(at, j) == at[j] - From(at, j) + 1 = Pieces(q[at[j]].kind)
  <1>1. DOMAIN q = 1 .. Len(q) /\ Len(q) \in Nat /\ \A i \in 1 .. Len(q) : q[i] \in Piece
    BY LenProperties, ElementOfSeq
  <1>2. E \in SUBSET Nat /\ IsFiniteSet(E) /\ N \in Nat
    BY PlacesAreFinite
  <1>3. PICK at \in InOrder(E) :
           r = [j \in DOMAIN at |-> IF Whole(at, j) THEN q[at[j]].kind ELSE "junk"]
    BY ZenonT(30) DEF Requests
  <1>4. /\ at \in [1 .. N -> E]
        /\ \A i, j \in 1 .. N : at[i] = at[j] => i = j
        /\ \A e \in E : \E j \in 1 .. N : at[j] = e
        /\ \A i, j \in 1 .. N : i < j => at[i] < at[j]
    BY DEF InOrder, Bijection, Injection, Surjection, IsInjective
  <1>. HIDE DEF N
  <1>5. \A j \in 1 .. N : at[j] \in 1 .. Len(q) /\ IsEnd(q[at[j]]) /\ at[j] \in Nat
    BY <1>1, <1>2, <1>4
  <1>6. ASSUME NEW j \in 1 .. N, q[at[j]].kind = "connect" PROVE Whole(at, j)
    <2>. DEFINE e == at[j]
    <2>1. e \in 1 .. Len(q) /\ IsEnd(q[e]) /\ e \in Nat
      BY <1>5
    <2>2. /\ e - 1 \in 1 .. Len(q) /\ ~IsEnd(q[e - 1])
          /\ e - 2 = 0 \/ (e - 2 \in 1 .. Len(q) /\ IsEnd(q[e - 2]))
      BY <1>6, <2>1, ConnectLine
    <2>3. From(at, j) = e - 1
      <3>1. CASE j = 1
        <4>1. ASSUME e - 2 \in E PROVE FALSE
          <5>1. PICK m \in 1 .. N : at[m] = e - 2
            BY <1>4, <4>1
          <5>2. m # j /\ j < m
            BY <2>1, <3>1, <5>1, <1>2
          <5>3. e < e - 2
            BY <1>4, <5>1, <5>2
          <5>. QED  BY <2>1, <5>3
        <4>2. e - 2 = 0
          BY <1>1, <2>2, <4>1
        <4>. QED  BY <2>1, <3>1, <4>2
      <3>2. CASE j # 1
        <4>. DEFINE p == j - 1
                    d == at[p]
        <4>1. p \in 1 .. N /\ p < j
          BY <1>2, <3>2
        <4>2. d \in 1 .. Len(q) /\ IsEnd(q[d]) /\ d \in Nat /\ d < e
          BY <1>4, <1>5, <4>1
        <4>3. d # e - 1
          BY <2>2, <4>2
        <4>4. d <= e - 2
          BY <2>1, <4>2, <4>3
        <4>5. e - 2 \in E
          BY <1>1, <2>1, <2>2, <4>2, <4>4
        <4>6. PICK m \in 1 .. N : at[m] = e - 2
          BY <1>4, <4>5
        <4>7. m < j
          <5>1. m # j
            BY <2>1, <4>6
          <5>2. ~(j < m)
            <6>1. SUFFICES ASSUME j < m PROVE FALSE
              OBVIOUS
            <6>2. e < e - 2
              BY <1>4, <4>6, <6>1
            <6>. QED  BY <2>1, <6>2
          <5>. QED  BY <1>2, <5>1, <5>2
        <4>8. m = p \/ m < p
          BY <1>2, <4>7
        <4>9. e - 2 <= d
          BY <1>4, <1>5, <4>1, <4>2, <4>6, <4>8
        <4>10. d + 1 = e - 1
          BY <2>1, <4>2, <4>4, <4>9
        <4>. QED  BY <3>2, <4>10
      <3>. QED  BY <3>1, <3>2
    <2>4. e - (e - 1) + 1 = 2
      BY <2>1
    <2>. QED  BY <1>6, <2>3, <2>4, LineLengths
  <1>. HIDE DEF Whole
  <1>7. DOMAIN at = 1 .. N /\ DOMAIN r = 1 .. N
        /\ \A j \in 1 .. N : r[j] = IF Whole(at, j) THEN q[at[j]].kind ELSE "junk"
    BY <1>3, <1>4
  <1>8. \A j \in 1 .. N : r[j] \in Kind /\ (r[j] = "connect" <=> q[at[j]].kind = "connect")
    <2>. SUFFICES ASSUME NEW j \in 1 .. N
                  PROVE  r[j] \in Kind /\ (r[j] = "connect" <=> q[at[j]].kind = "connect")
      OBVIOUS
    <2>1. q[at[j]].kind \in Kind /\ "junk" \in Kind /\ "junk" # "connect"
      BY <1>1, <1>5, LineLengths DEF Kind
    <2>. QED  BY <1>6, <1>7, <2>1
  <1>9. r \in Seq(Kind)
    <2>1. r = [j \in 1 .. N |-> IF Whole(at, j) THEN q[at[j]].kind ELSE "junk"]
      BY <1>3, <1>7
    <2>2. r = [j \in 1 .. N |-> r[j]]
      BY <2>1
    <2>3. r \in [1 .. N -> Kind]
      BY <1>8, <2>2
    <2>. QED  BY <1>2, <2>3
  <1>10. Connects(r) = Cardinality(C)
    <2>. DEFINE J == {j \in 1 .. N : r[j] = "connect"}
                f == [j \in J |-> at[j]]
    <2>1. \A j \in J : at[j] \in C
      BY <1>1, <1>5, <1>8
    <2>2. \A i \in C : \E j \in J : at[j] = i
      BY <1>4, <1>8
    <2>3. f \in Bijection(J, C)
      <3>1. f \in [J -> C]
        BY <2>1
      <3>2. \A i, j \in J : f[i] = f[j] => i = j
        BY <1>4
      <3>3. \A i \in C : \E j \in J : f[j] = i
        BY <2>2
      <3>. HIDE DEF f, J, C
      <3>. QED  BY <3>1, <3>2, <3>3 DEF Bijection, Injection, Surjection, IsInjective
    <2>4. IsFiniteSet(J)
      <3>1. IsFiniteSet(1 .. N)
        BY <1>2, FS_Interval
      <3>. QED  BY <3>1, FS_Subset
    <2>5. ExistsBijection(J, C)
      BY <2>3 DEF ExistsBijection
    <2>6. Cardinality(C) = Cardinality(J)
      <3>. HIDE DEF J, C, f
      <3>. QED  BY <2>4, <2>5, FS_Bijection
    <2>7. Connects(r) = Cardinality(J)
      BY <1>7 DEF Connects
    <2>. QED  BY <2>6, <2>7
  <1>. QED  BY <1>9, <1>10 DEF ConnectEnds


\* Connect lines that end in two halves are those that end in the whole.
LEMMA EndsAdd ==
    ASSUME NEW w \in Seq(Piece), NEW g \in Seq(Piece), NEW v \in Seq(Piece),
           Len(w) = Len(g) + Len(v),
           \A i \in 1 .. Len(g) : w[i] = g[i],
           \A i \in 1 .. Len(v) : w[Len(g) + i] = v[i]
    PROVE  /\ ConnectEnds(w) = ConnectEnds(g) + ConnectEnds(v)
           /\ ConnectEnds(g) \in Nat /\ ConnectEnds(v) \in Nat
  <1>. DEFINE S == {i \in DOMAIN w : IsEnd(w[i]) /\ w[i].kind = "connect"}
              P == {i \in DOMAIN g : IsEnd(g[i]) /\ g[i].kind = "connect"}
              V == {i \in DOMAIN v : IsEnd(v[i]) /\ v[i].kind = "connect"}
              n == Len(g)
  <1>1. /\ DOMAIN w = 1 .. Len(w) /\ Len(w) \in Nat
        /\ DOMAIN g = 1 .. n /\ n \in Nat
        /\ DOMAIN v = 1 .. Len(v) /\ Len(v) \in Nat
    BY LenProperties
  <1>2. S \in SUBSET Nat /\ IsFiniteSet(S)
    BY PlacesAreFinite
  <1>3. V \in SUBSET Nat
    BY <1>1
  <1>4. \A j \in V : j + n \in S /\ j > 0
    <2>. SUFFICES ASSUME NEW j \in 1 .. Len(v), IsEnd(v[j]), v[j].kind = "connect"
                  PROVE  j + n \in S /\ j > 0
      BY <1>1
    <2>1. j + n = n + j /\ n + j \in 1 .. Len(w) /\ j > 0
      BY <1>1
    <2>2. w[n + j] = v[j]
      OBVIOUS
    <2>. QED  BY <1>1, <2>1, <2>2
  <1>5. \A i \in S : i > n => i - n \in V
    <2>. SUFFICES ASSUME NEW i \in 1 .. Len(w), IsEnd(w[i]), w[i].kind = "connect", i > n
                  PROVE  i - n \in V
      BY <1>1
    <2>. DEFINE j == i - n
    <2>1. j \in 1 .. Len(v) /\ n + j = i
      BY <1>1
    <2>. HIDE DEF j
    <2>2. w[i] = v[j]
      BY <2>1
    <2>3. j \in V
      BY <1>1, <2>1, <2>2
    <2>. QED  BY <2>3 DEF j
  <1>6. P \in SUBSET S /\ \A i \in S : i \in P <=> i <= n
    <2>1. \A i \in 1 .. n : i \in 1 .. Len(w)
      BY <1>1
    <2>2. \A i \in 1 .. Len(w) : i <= n <=> i \in 1 .. n
      BY <1>1
    <2>. QED  BY <1>1, <2>1, <2>2
  <1>. HIDE DEF S, P, V
  <1>7. \A m \in Nat : m = n =>
           Cardinality(S) = Cardinality(P) + Cardinality(V)
           /\ Cardinality(P) \in Nat /\ Cardinality(V) \in Nat
    <2>. SUFFICES ASSUME NEW m \in Nat, m = n
                  PROVE  Cardinality(S) = Cardinality(P) + Cardinality(V)
                         /\ Cardinality(P) \in Nat /\ Cardinality(V) \in Nat
      OBVIOUS
    <2>1. /\ \A j \in V : j + m \in S /\ j > 0
          /\ \A i \in S : i > m => i - m \in V
          /\ \A i \in S : i \in P <=> i <= m
      BY <1>4, <1>5, <1>6
    <2>. HIDE DEF n
    <2>. QED  BY <1>2, <1>3, <1>6, <2>1, PrefixAndSuffix, ZenonT(30)
  <1>8. /\ ConnectEnds(w) = Cardinality(S)
        /\ ConnectEnds(g) = Cardinality(P) /\ ConnectEnds(v) = Cardinality(V)
    BY DEF ConnectEnds, S, P, V
  <1>. QED  BY <1>1, <1>7, <1>8

\* Where no line ends, no connect line does.
LEMMA NoEndNoConnect ==
    ASSUME NEW g \in Seq(Piece), HasNoEnd(g)
    PROVE  ConnectEnds(g) = 0
  <1>1. DOMAIN g = 1 .. Len(g)
    BY LenProperties
  <1>2. {i \in DOMAIN g : IsEnd(g[i]) /\ g[i].kind = "connect"} = {}
    BY <1>1 DEF HasNoEnd
  <1>. QED  BY <1>2, FS_EmptySet DEF ConnectEnds

\* One connect line ends in a connect line, none in another.
LEMMA LineHasOneEnd ==
    ASSUME NEW k \in Kind
    PROVE  Line(k) \in Seq(Piece)
           /\ ConnectEnds(Line(k)) = IF k = "connect" THEN 1 ELSE 0
  <1>. DEFINE S == {i \in DOMAIN Line(k) : IsEnd(Line(k)[i]) /\ Line(k)[i].kind = "connect"}
  <1>1. Pieces(k) \in Nat \ {0}
    BY LineLengths
  <1>2. \A i \in 1 .. Pieces(k) : [kind |-> k, at |-> i] \in Piece
    BY <1>1 DEF Piece
  <1>3. Line(k) \in Seq(Piece) /\ DOMAIN Line(k) = 1 .. Pieces(k)
        /\ \A i \in 1 .. Pieces(k) : Line(k)[i].kind = k /\ Line(k)[i].at = i
    BY <1>1, <1>2 DEF Line
  <1>4. S = IF k = "connect" THEN {2} ELSE {}
    <2>1. CASE k = "connect"
      BY <1>3, <2>1, LineLengths DEF IsEnd
    <2>2. CASE k # "connect"
      BY <1>3, <2>2
    <2>. QED  BY <2>1, <2>2
  <1>. HIDE DEF S
  <1>5. Cardinality(S) = IF k = "connect" THEN 1 ELSE 0
    BY <1>4, FS_EmptySet, FS_Singleton
  <1>. QED  BY <1>3, <1>5 DEF ConnectEnds, S

\* Only the beginning of a long line can be longer than one piece.
LEMMA OnlyLongLinesAccumulate ==
    ASSUME NEW q \in Seq(Piece), Chained(q), NEW i \in 2 .. Len(q),
           ~IsEnd(q[i - 1]), ~IsEnd(q[i])
    PROVE  q[i].kind = "long"
  <1>1. Len(q) \in Nat /\ \A j \in 1 .. Len(q) : q[j] \in Piece
    BY LenProperties, ElementOfSeq
  <1>. DEFINE h == i - 1
  <1>2. h \in 1 .. Len(q) - 1 /\ h \in 1 .. Len(q) /\ h + 1 = i /\ i \in 1 .. Len(q)
    BY <1>1
  <1>3. Follows(q[h], q[i])
    <2>1. Follows(q[h], q[h + 1])
      BY <1>2 DEF Chained
    <2>. QED  BY <1>2, <2>1
  <1>4. q[i].at = q[h].at + 1
    BY <1>3 DEF Follows
  <1>. HIDE DEF h
  <1>5. q[h].at \in Nat \ {0} /\ q[i].kind \in Kind
    BY <1>1, <1>2, LineLengths
  <1>6. q[i].at >= 2 /\ q[i].at \in Nat
    BY <1>4, <1>5
  <1>7. q[i].at <= Pieces(q[i].kind)
    BY <1>2 DEF Chained
  <1>8. q[i].kind # "connect" /\ q[i].kind # "junk"
    BY <1>6, <1>7, LineLengths DEF IsEnd
  <1>. QED  BY <1>5, <1>8 DEF Kind

\* A sequence of pieces is what it is cut into.
LEMMA Cut ==
    ASSUME NEW q \in Seq(Piece), NEW c \in 0 .. Len(q)
    PROVE  /\ SubSeq(q, 1, c) \in Seq(Piece) /\ Len(SubSeq(q, 1, c)) = c
           /\ SubSeq(q, c + 1, Len(q)) \in Seq(Piece)
           /\ Len(SubSeq(q, c + 1, Len(q))) = Len(q) - c
           /\ \A i \in 1 .. c : SubSeq(q, 1, c)[i] = q[i]
           /\ \A i \in 1 .. Len(q) - c : SubSeq(q, c + 1, Len(q))[i] = q[c + i]
           /\ q = SubSeq(q, 1, c) \o SubSeq(q, c + 1, Len(q))
  <1>0. Len(q) \in Nat /\ 0 \in 0 .. Len(q) /\ Len(q) \in 0 .. Len(q) /\ 0 <= c /\ c <= Len(q)
        /\ 0 + 1 = 1 /\ c - 0 = c
    BY LenProperties
  <1>. DEFINE g == SubSeq(q, 1, c)
              v == SubSeq(q, c + 1, Len(q))
  <1>1. g \in Seq(Piece) /\ Len(g) = c /\ \A i \in 1 .. c : g[i] = q[i]
    <2>1. \A z \in 0 .. Len(q) : z <= c =>
             /\ SubSeq(q, z + 1, c) \in Seq(Piece)
             /\ Len(SubSeq(q, z + 1, c)) = c - z
             /\ \A i \in 1 .. c - z : SubSeq(q, z + 1, c)[i] = q[z + i]
      BY Part
    <2>2. /\ SubSeq(q, 0 + 1, c) \in Seq(Piece)
          /\ Len(SubSeq(q, 0 + 1, c)) = c - 0
          /\ \A i \in 1 .. c - 0 : SubSeq(q, 0 + 1, c)[i] = q[0 + i]
      BY <1>0, <2>1, Zenon
    <2>3. \A i \in 1 .. c : 0 + i = i
      OBVIOUS
    <2>. QED  BY <1>0, <2>2, <2>3
  <1>2. v \in Seq(Piece) /\ Len(v) = Len(q) - c /\ \A i \in 1 .. Len(q) - c : v[i] = q[c + i]
    BY <1>0, Part
  <1>. HIDE DEF g, v
  <1>3. /\ g \o v \in Seq(Piece) /\ Len(g \o v) = Len(g) + Len(v)
        /\ \A i \in 1 .. Len(g) + Len(v) : (g \o v)[i] = IF i <= Len(g) THEN g[i] ELSE v[i - Len(g)]
    BY <1>1, <1>2, ConcatProperties
  <1>4. Len(g \o v) = Len(q)
    BY <1>0, <1>1, <1>2, <1>3
  <1>5. ASSUME NEW i \in 1 .. Len(q) PROVE q[i] = (g \o v)[i]
    <2>1. i \in 1 .. Len(g) + Len(v)
      BY <1>0, <1>1, <1>2
    <2>2. CASE i <= c
      <3>1. i \in 1 .. c
        BY <2>2
      <3>. QED  BY <1>1, <1>3, <2>1, <2>2, <3>1
    <2>3. CASE ~(i <= c)
      <3>1. i - c \in 1 .. Len(q) - c /\ c + (i - c) = i
        BY <1>0, <2>3
      <3>. QED  BY <1>1, <1>2, <1>3, <2>1, <2>3, <3>1
    <2>. QED  BY <2>2, <2>3
  <1>6. q = g \o v
    BY <1>3, <1>4, <1>5, SeqEqual
  <1>. QED  BY <1>1, <1>2, <1>6 DEF g, v

\* Three parts, grouped either way.
LEMMA Regrouped ==
    \A x, y, z \in Seq(Piece) : (x \o y) \o z = x \o (y \o z)
  <1>. SUFFICES ASSUME NEW S, NEW x \in Seq(S), NEW y \in Seq(S), NEW z \in Seq(S)
                PROVE  (x \o y) \o z = x \o (y \o z)
    OBVIOUS
  <1>. QED  BY ConcatAssociative

\* What is divided in two ways goes on the same way.
LEMMA DividedDifferently ==
    \A g, v, x, y, r \in Seq(Piece) : g \o v = x \o y => g \o (v \o r) = x \o (y \o r)
  <1>. DEFINE Joined(a, b) == a \o b
  <1>1. \A x, y, z \in Seq(Piece) : Joined(Joined(x, y), z) = Joined(x, Joined(y, z))
    BY Regrouped
  <1>. HIDE DEF Joined
  <1>2. \A g, v, x, y, r \in Seq(Piece) :
           Joined(g, v) = Joined(x, y) => Joined(g, Joined(v, r)) = Joined(x, Joined(y, r))
    BY <1>1
  <1>. QED  BY <1>2 DEF Joined

\* What the lemmas above say of two parts of a stream.
LEMMA PartsOfAStream ==
    ASSUME NEW g \in Seq(Piece), NEW v \in Seq(Piece)
    PROVE  /\ g \o v \in Seq(Piece)
           /\ ConnectEnds(g \o v) = ConnectEnds(g) + ConnectEnds(v)
           /\ ConnectEnds(g) \in Nat /\ ConnectEnds(v) \in Nat
           /\ Chained(g \o v) => Chained(g)
           /\ Chained(g \o v) /\ (Len(g) = 0 \/ IsEnd(g[Len(g)]) \/ g[Len(g)].kind = "long")
              => Chained(v)
           /\ EndsWithALine(g \o v) => EndsWithALine(v)
  <1>. DEFINE w == g \o v
  <1>1. Len(g) \in Nat /\ Len(v) \in Nat
    BY LenProperties
  <1>2. w \in Seq(Piece) /\ Len(w) = Len(g) + Len(v)
        /\ \A i \in 1 .. Len(g) + Len(v) : w[i] = IF i <= Len(g) THEN g[i] ELSE v[i - Len(g)]
    BY ConcatProperties
  <1>. HIDE DEF w
  <1>3. \A i \in 1 .. Len(g) : w[i] = g[i]
    BY <1>1, <1>2
  <1>4. ASSUME NEW i \in 1 .. Len(v) PROVE w[Len(g) + i] = v[i]
    <2>1. /\ Len(g) + i \in 1 .. Len(g) + Len(v)
          /\ ~(Len(g) + i <= Len(g)) /\ (Len(g) + i) - Len(g) = i
      BY <1>1
    <2>. QED  BY <1>2, <2>1
  <1>5. ConnectEnds(w) = ConnectEnds(g) + ConnectEnds(v)
        /\ ConnectEnds(g) \in Nat /\ ConnectEnds(v) \in Nat
    BY <1>2, <1>3, <1>4, EndsAdd
  <1>6. Chained(w) => Chained(g)
    <2>1. Len(g) <= Len(w) /\ \A i \in 1 .. Len(g) : g[i] = w[i]
      BY <1>1, <1>2, <1>3
    <2>. QED  BY <1>2, <2>1, ChainedPrefix
  <1>7. ASSUME Chained(w), Len(g) = 0 \/ IsEnd(g[Len(g)]) \/ g[Len(g)].kind = "long"
        PROVE  Chained(v)
    <2>1. PICK c \in Nat : c = Len(g)
      BY <1>1
    <2>2. c = 0 \/ w[c] = g[Len(g)]
      BY <1>1, <1>3, <2>1
    <2>3. c = 0 \/ IsEnd(w[c]) \/ w[c].kind = "long"
      BY <1>7, <2>1, <2>2
    <2>4. Len(w) = c + Len(v) /\ \A i \in 1 .. Len(v) : v[i] = w[c + i]
      BY <1>2, <1>4, <2>1
    <2>. QED  BY <1>2, <1>7, <2>3, <2>4, ChainedSuffix
  <1>8. EndsWithALine(w) => EndsWithALine(v)
    <2>. SUFFICES ASSUME EndsWithALine(w), Len(v) > 0 PROVE IsEnd(v[Len(v)])
      BY DEF EndsWithALine
    <2>1. Len(v) \in 1 .. Len(v) /\ Len(w) > 0 /\ Len(g) + Len(v) = Len(w)
      BY <1>1, <1>2
    <2>2. w[Len(g) + Len(v)] = v[Len(v)]
      BY <1>4, <2>1
    <2>. QED  BY <2>1, <2>2 DEF EndsWithALine
  <1>. QED  BY <1>2, <1>5, <1>6, <1>7, <1>8 DEF w

\* When the accumulator is discarded, what arrives next is a sound stream.
LEMMA Discarding ==
    ASSUME NEW b \in Seq(Piece), NEW w \in Seq(Piece), StreamSound(b, w), Len(b) >= 2
    PROVE  Chained(w) /\ EndsWithALine(w)
  <1>. DEFINE m == Len(b)
  <1>1. Chained(b \o w) /\ EndsWithALine(b \o w) /\ HasNoEnd(b)
    BY DEF StreamSound
  <1>2. Chained(b)
    BY <1>1, PartsOfAStream
  <1>3. m \in Nat /\ m \in 2 .. Len(b) /\ m \in 1 .. Len(b) /\ m - 1 \in 1 .. Len(b)
    BY LenProperties
  <1>4. ~IsEnd(b[m]) /\ ~IsEnd(b[m - 1])
    BY <1>1, <1>3 DEF HasNoEnd
  <1>5. b[m].kind = "long"
    <2>. HIDE DEF m
    <2>. QED  BY <1>2, <1>3, <1>4, OnlyLongLinesAccumulate
  <1>. QED  BY <1>1, <1>5, PartsOfAStream

\* What has been received is divided into complete lines and the rest: the
\* stream stays sound, and the connect lines that end in what was received are
\* those that end in the complete lines.
LEMMA ReceivedLines ==
    ASSUME NEW kept \in Seq(Piece), NEW got \in Seq(Piece), NEW rest \in Seq(Piece),
           NEW work \in Seq(Piece), NEW tail \in Seq(Piece),
           Chained(kept \o (got \o rest)), EndsWithALine(kept \o (got \o rest)),
           kept \o got = work \o tail, HasNoEnd(kept), HasNoEnd(tail),
           Len(work) = 0 \/ IsEnd(work[Len(work)])
    PROVE  /\ StreamSound(tail, rest) /\ Chained(work)
           /\ ConnectEnds(got \o rest) = ConnectEnds(work) + ConnectEnds(rest)
           /\ ConnectEnds(work) \in Nat /\ ConnectEnds(rest) \in Nat
  <1>. DEFINE s == tail \o rest
  <1>1. s \in Seq(Piece)
    BY ConcatProperties
  <1>4. kept \o (got \o rest) = work \o s
    <2>. DEFINE Joined(a, b) == a \o b
    <2>1. Joined(kept, got) = Joined(work, tail)
      OBVIOUS
    <2>2. \A g, v, x, y, r \in Seq(Piece) :
             Joined(g, v) = Joined(x, y) => Joined(g, Joined(v, r)) = Joined(x, Joined(y, r))
      BY DividedDifferently
    <2>. HIDE DEF Joined
    <2>3. Joined(kept, Joined(got, rest)) = Joined(work, Joined(tail, rest))
      BY <2>1, <2>2
    <2>. QED  BY <2>3 DEF Joined
  <1>5. Chained(work \o s) /\ EndsWithALine(work \o s)
    BY <1>4
  <1>. HIDE DEF s
  <1>6. Chained(work) /\ Chained(s) /\ EndsWithALine(s)
    BY <1>1, <1>5, PartsOfAStream
  <1>7. StreamSound(tail, rest)
    BY <1>6 DEF StreamSound, s
  <1>8. /\ ConnectEnds(got \o rest) = ConnectEnds(got) + ConnectEnds(rest)
        /\ ConnectEnds(kept \o got) = ConnectEnds(kept) + ConnectEnds(got)
        /\ ConnectEnds(work \o tail) = ConnectEnds(work) + ConnectEnds(tail)
        /\ ConnectEnds(got) \in Nat /\ ConnectEnds(rest) \in Nat /\ ConnectEnds(work) \in Nat
    BY PartsOfAStream
  <1>9. ConnectEnds(kept) = 0 /\ ConnectEnds(tail) = 0
    BY NoEndNoConnect
  <1>10. ConnectEnds(work) = ConnectEnds(got)
    BY <1>8, <1>9
  <1>. QED  BY <1>6, <1>7, <1>8, <1>10

-----------------------------------------------------------------------------
(* The steps that concern the control channel *)

\* Steps that leave the control channel alone.
LEMMA ControlUntouched ==
    ASSUME ControlInv, Running, UNCHANGED <<ctl, batch, handled>>
    PROVE  ControlInv'
  BY DEF ControlInv, NoRequestLost, Running

\* The empty stream is sound.
LEMMA NoControlIsSound ==
    /\ StreamSound(NoControl.buf, NoControl.wire) /\ <<>> \in Seq(Kind)
    /\ Connects(<<>>) = 0 /\ ConnectEnds(NoControl.wire) = 0 /\ NoControl.connects = 0
  <1>1. NoControl.buf = <<>> /\ NoControl.wire = <<>> /\ NoControl.connects = 0
    BY DEF NoControl
  <1>2. Len(<<>>) = 0 /\ <<>> \in Seq(Kind) /\ <<>> \in Seq(Piece)
    BY EmptySeq
  <1>3. <<>> \o <<>> = <<>>
    BY <1>2, ConcatEmptySeq
  <1>4. Chained(<<>>) /\ EndsWithALine(<<>>) /\ HasNoEnd(<<>>)
    BY <1>2 DEF Chained, EndsWithALine, HasNoEnd
  <1>5. StreamSound(<<>>, <<>>)
    BY <1>3, <1>4 DEF StreamSound
  <1>6. DOMAIN <<>> = {}
    OBVIOUS
  <1>7. Connects(<<>>) = 0 /\ ConnectEnds(<<>>) = 0
    BY <1>6, FS_EmptySet DEF Connects, ConnectEnds
  <1>. QED  BY <1>1, <1>2, <1>5, <1>7

\* When srv ends nothing is promised any more.
LEMMA ExitKeepsControl ==
    ASSUME NEW why, Exit(why)
    PROVE  ControlInv'
  BY NoControlIsSound DEF Exit, ControlInv, NoRequestLost, Running

\* The relay sends a line.
LEMMA RelaySendsKeepsControl ==
    ASSUME IInv, ControlInv, NEW k \in Kind, RelaySends(k)
    PROVE  ControlInv'
  <1>1. ctl.buf \in Seq(Piece) /\ ctl.wire \in Seq(Piece)
        /\ ctl.connects \in Nat /\ handled \in Nat
    BY DEF IInv, Typed, ControlState
  <1>2. /\ ctl'.buf = ctl.buf /\ ctl'.wire = ctl.wire \o Line(k)
        /\ ctl'.connects = ctl.connects + IF k = "connect" THEN 1 ELSE 0
        /\ UNCHANGED <<mpc, batch, handled>> /\ mpc = "loop"
    BY DEF RelaySends, IInv, Typed, ControlState
  <1>. DEFINE q == ctl.buf \o ctl.wire
              l == Line(k)
  <1>3. q \in Seq(Piece) /\ Chained(q) /\ EndsWithALine(q) /\ HasNoEnd(ctl.buf)
    BY <1>1, PartsOfAStream DEF ControlInv, StreamSound
  <1>. HIDE DEF q
  <1>4. l \in Seq(Piece) /\ Chained(q \o l) /\ EndsWithALine(q \o l)
    BY <1>3, ChainedLine
  <1>5. ConnectEnds(l) = IF k = "connect" THEN 1 ELSE 0
    BY LineHasOneEnd
  <1>. HIDE DEF l
  <1>6. q \o l = ctl.buf \o (ctl.wire \o l)
    BY <1>1, <1>4, Regrouped, Zenon DEF q
  <1>7. StreamSound(ctl.buf, ctl.wire)'
    <2>1. StreamSound(ctl.buf, ctl.wire \o l)
      BY <1>3, <1>4, <1>6 DEF StreamSound
    <2>2. StreamSound(ctl'.buf, ctl'.wire)
      BY <1>2, <2>1 DEF l
    <2>. QED  BY <2>2 DEF StreamSound
  <1>8. ConnectEnds(ctl.wire \o l) = ConnectEnds(ctl.wire) + ConnectEnds(l)
        /\ ConnectEnds(ctl.wire) \in Nat
    BY <1>1, <1>4, PartsOfAStream
  <1>9. NoRequestLost'
    <2>1. Connects(batch) \in Nat
      <3>1. batch \in Seq(Kind)
        BY DEF ControlInv
      <3>. QED  BY <3>1, PlacesAreFinite DEF Connects
    <2>2. handled + Connects(batch) + ConnectEnds(ctl.wire) = ctl.connects
      BY <1>2 DEF ControlInv, NoRequestLost, Running
    <2>3. handled + Connects(batch) + ConnectEnds(ctl.wire \o l) = ctl'.connects
      BY <1>1, <1>2, <1>5, <1>8, <2>1, <2>2
    <2>4. ConnectEnds(ctl'.wire) = ConnectEnds(ctl.wire \o l) /\ Connects(batch') = Connects(batch)
          /\ handled' = handled
      BY <1>2 DEF l
    <2>5. handled' + Connects(batch') + ConnectEnds(ctl'.wire) = ctl'.connects
      BY <2>3, <2>4
    <2>. QED  BY <2>5 DEF NoRequestLost, Connects, ConnectEnds
  <1>. QED  BY <1>2, <1>7, <1>9 DEF ControlInv

\* A request leaves the batch, and is handled.
LEMMA TakenKeepsControl ==
    ASSUME IInv, ControlInv, mpc = "loop", batch # <<>>, batch' = Tail(batch),
           handled' = handled + (IF IsConnect THEN 1 ELSE 0), UNCHANGED <<mpc, ctl>>
    PROVE  ControlInv'
  <1>1. batch \in Seq(Kind) /\ StreamSound(ctl.buf, ctl.wire) /\ handled \in Nat
        /\ ctl.wire \in Seq(Piece)
    BY DEF ControlInv, IInv, Typed, ControlState
  <1>2. /\ Tail(batch) \in Seq(Kind) /\ Connects(Tail(batch)) \in Nat
        /\ Connects(batch) = Connects(Tail(batch)) + IF Head(batch) = "connect" THEN 1 ELSE 0
    BY <1>1, OneRequestLess
  <1>3. IsConnect <=> Head(batch) = "connect"
    BY DEF IsConnect
  <1>4. ConnectEnds(ctl.wire) \in Nat
    BY <1>1, PlacesAreFinite DEF ConnectEnds
  <1>5. handled + Connects(batch) + ConnectEnds(ctl.wire) = ctl.connects
    BY DEF ControlInv, NoRequestLost, Running
  <1>6. handled' + Connects(Tail(batch)) + ConnectEnds(ctl.wire) = ctl.connects
    BY <1>1, <1>2, <1>3, <1>4, <1>5
  <1>7. handled' + Connects(batch') + ConnectEnds(ctl'.wire) = ctl'.connects
    BY <1>6
  <1>8. NoRequestLost'
    BY <1>7 DEF NoRequestLost, Connects, ConnectEnds
  <1>9. StreamSound(ctl.buf, ctl.wire)'
    BY <1>1
  <1>. QED  BY <1>2, <1>8, <1>9 DEF ControlInv

\* The control thread receives.
LEMMA ControlRecvKeepsControl ==
    ASSUME IInv, ControlInv, NEW n \in 1 .. RecvMax, ControlRecv(n)
    PROVE  ControlInv'
  <1>. DEFINE b    == ctl.buf
              w    == ctl.wire
              kept == IF Len(b) + n > LineCap THEN <<>> ELSE b
              got  == SubSeq(w, 1, n)
              rest == SubSeq(w, n + 1, Len(w))
              all  == kept \o got
              c    == CompleteLen(all)
              work == SubSeq(all, 1, c)
              tail == SubSeq(all, c + 1, Len(all))
  <1>1. b \in Seq(Piece) /\ w \in Seq(Piece) /\ handled \in Nat
        /\ StreamSound(b, w)
    BY DEF IInv, Typed, ControlState, ControlInv
  <1>2. /\ mpc = "loop" /\ batch = <<>> /\ n <= Len(w) /\ handled' = handled
        /\ (c = 0 => batch' = <<>>) /\ (c # 0 => batch' \in Requests(work))
        /\ ctl' = [ctl EXCEPT !.wire = SubSeq(@, n + 1, Len(@)), !.buf = tail]
    BY DEF ControlRecv
  <1>3. ctl'.wire = rest /\ ctl'.buf = tail /\ ctl'.connects = ctl.connects
    <2>1. ctl \in ControlState
      BY DEF IInv, Typed
    <2>. HIDE DEF tail
    <2>. QED  BY <1>2, <2>1 DEF ControlState
  <1>4. /\ Len(b) \in Nat /\ Len(w) \in Nat /\ n \in Nat /\ n <= RecvMax
        /\ LineCap \in Nat /\ LineCap >= RecvMax + 1 /\ RecvMax \in Nat
        /\ n \in 0 .. Len(w)
    <2>1. n <= Len(w)
      BY <1>2
    <2>. HIDE DEF b, w
    <2>2. Len(b) \in Nat /\ Len(w) \in Nat
      BY <1>1, LenProperties
    <2>. QED  BY <2>1, <2>2, Constants
  <1>. HIDE DEF b, w
  <1>5. got \in Seq(Piece) /\ rest \in Seq(Piece) /\ w = got \o rest
    BY <1>1, <1>4, Cut
  <1>. HIDE DEF got, rest
  <1>6. kept \in Seq(Piece) /\ HasNoEnd(kept) /\ Chained(kept \o w) /\ EndsWithALine(kept \o w)
    <2>1. CASE Len(b) + n > LineCap
      <3>1. Len(b) >= 2
        BY <1>4, <2>1
      <3>2. Chained(w) /\ EndsWithALine(w)
        BY <1>1, <3>1, Discarding
      <3>3. <<>> \o w = w /\ <<>> \in Seq(Piece) /\ Len(<<>>) = 0
        BY <1>1, ConcatEmptySeq, EmptySeq
      <3>4. HasNoEnd(<<>>)
        BY <3>3 DEF HasNoEnd
      <3>5. kept = <<>>
        BY <2>1
      <3>. HIDE DEF kept
      <3>6. kept \o w = w
        BY <3>3, <3>5
      <3>. QED  BY <3>2, <3>3, <3>4, <3>5, <3>6
    <2>2. CASE ~(Len(b) + n > LineCap)
      BY <1>1, <2>2 DEF StreamSound
    <2>. QED  BY <2>1, <2>2
  <1>. HIDE DEF kept
  <1>7. all \in Seq(Piece)
    BY <1>5, <1>6, PartsOfAStream
  <1>. HIDE DEF all
  <1>8. /\ c \in 0 .. Len(all) /\ (c # 0 => IsEnd(all[c]))
        /\ \A i \in 1 .. Len(all) : IsEnd(all[i]) => i <= c
    BY <1>7, CompleteLenIsLast
  <1>. HIDE DEF c
  <1>9. /\ work \in Seq(Piece) /\ Len(work) = c /\ \A i \in 1 .. c : work[i] = all[i]
        /\ tail \in Seq(Piece) /\ Len(tail) = Len(all) - c
        /\ \A i \in 1 .. Len(all) - c : tail[i] = all[c + i]
        /\ all = work \o tail
    BY <1>7, <1>8, Cut
  <1>. HIDE DEF work, tail
  <1>10. HasNoEnd(tail)
    <2>. SUFFICES ASSUME NEW i \in 1 .. Len(tail), IsEnd(tail[i]) PROVE FALSE
      BY DEF HasNoEnd
    <2>1. c + i \in 1 .. Len(all) /\ ~(c + i <= c) /\ i \in 1 .. Len(all) - c
      BY <1>7, <1>8, <1>9, LenProperties
    <2>. QED  BY <1>8, <1>9, <2>1
  <1>11. Len(work) = 0 \/ IsEnd(work[Len(work)])
    <2>1. CASE c = 0
      BY <1>9, <2>1
    <2>2. CASE c # 0
      <3>1. c \in 1 .. c
        BY <1>8, <2>2
      <3>. QED  BY <1>8, <1>9, <2>2, <3>1
    <2>. QED  BY <2>1, <2>2
  <1>12. /\ StreamSound(tail, rest) /\ Chained(work)
         /\ ConnectEnds(w) = ConnectEnds(work) + ConnectEnds(rest)
         /\ ConnectEnds(work) \in Nat /\ ConnectEnds(rest) \in Nat
    <2>1. Chained(kept \o (got \o rest)) /\ EndsWithALine(kept \o (got \o rest))
      BY <1>5, <1>6
    <2>2. kept \o got = work \o tail
      BY <1>9 DEF all
    <2>3. /\ kept \in Seq(Piece) /\ got \in Seq(Piece) /\ rest \in Seq(Piece)
          /\ work \in Seq(Piece) /\ tail \in Seq(Piece) /\ HasNoEnd(kept)
      BY <1>5, <1>6, <1>9
    <2>4. /\ StreamSound(tail, rest) /\ Chained(work)
          /\ ConnectEnds(got \o rest) = ConnectEnds(work) + ConnectEnds(rest)
          /\ ConnectEnds(work) \in Nat /\ ConnectEnds(rest) \in Nat
      BY <1>10, <1>11, <2>1, <2>2, <2>3, ReceivedLines, ZenonT(30)
    <2>. QED  BY <1>5, <2>4
  <1>13. batch' \in Seq(Kind) /\ Connects(batch') = ConnectEnds(work)
    <2>1. CASE c = 0
      <3>1. HasNoEnd(work)
        BY <1>9, <2>1 DEF HasNoEnd
      <3>2. ConnectEnds(work) = 0
        BY <1>9, <3>1, NoEndNoConnect
      <3>. QED  BY <1>2, <2>1, <3>2, NoControlIsSound
    <2>2. CASE c # 0
      BY <1>2, <1>9, <1>12, <2>2, RequestsAreTheLines
    <2>. QED  BY <2>1, <2>2
  <1>14. handled + ConnectEnds(w) = ctl.connects
    <2>1. handled + Connects(batch) + ConnectEnds(ctl.wire) = ctl.connects
      BY <1>2 DEF ControlInv, NoRequestLost, Running
    <2>2. Connects(batch) = 0
      BY <1>2, NoControlIsSound
    <2>. QED  BY <1>1, <2>1, <2>2 DEF w
  <1>15. handled' + Connects(batch') + ConnectEnds(ctl'.wire) = ctl'.connects
    <2>1. handled' = handled /\ ctl'.wire = rest /\ ctl'.connects = ctl.connects
      BY <1>2, <1>3
    <2>2. handled + ConnectEnds(work) + ConnectEnds(rest) = ctl.connects
      BY <1>1, <1>12, <1>14
    <2>. QED  BY <1>13, <2>1, <2>2
  <1>16. NoRequestLost'
    BY <1>15 DEF NoRequestLost, Connects, ConnectEnds
  <1>17. StreamSound(ctl.buf, ctl.wire)'
    <2>1. StreamSound(ctl'.buf, ctl'.wire)
      BY <1>3, <1>12
    <2>. QED  BY <2>1 DEF StreamSound
  <1>. QED  BY <1>13, <1>16, <1>17 DEF ControlInv

\* No step loses a request.
LEMMA NextKeepsControl ==
    ASSUME IInv, ControlInv, [Next]_vars
    PROVE  ControlInv'
  <1>1. CASE UNCHANGED vars
    BY <1>1 DEF vars, ControlInv, NoRequestLost, Running
  <1>2. ASSUME NEW o \in Options, Main(o) PROVE ControlInv'
    <2>1. Running /\ (Exit("usage") \/ Exit("failed") \/ NoExit)
      BY <1>2 DEF Main, Running
    <2>. QED  BY <2>1, ExitKeepsControl, ControlUntouched DEF NoExit, control
  <1>3. ASSUME ControlConnect \/ ControlAuth PROVE ControlInv'
    <2>1. Running /\ (Exit("failed") \/ NoExit)
      BY <1>3 DEF ControlConnect, ControlAuth, Running
    <2>. QED  BY <2>1, ExitKeepsControl, ControlUntouched DEF NoExit, control
  <1>4. ASSUME IdleTimeout \/ ControlLost \/ StartSessionFails \/ SingleDone PROVE ControlInv'
    BY <1>4, ExitKeepsControl DEF IdleTimeout, ControlLost, StartSessionFails, SingleDone
  <1>5. ASSUME Tick PROVE ControlInv'
    BY <1>5, ControlUntouched DEF Tick, control, Running
  <1>6. ASSUME SkipRequest PROVE ControlInv'
    BY <1>6, TakenKeepsControl DEF SkipRequest
  <1>7. ASSUME StartSession PROVE ControlInv'
    <2>1. IsConnect /\ batch # <<>>
      BY <1>7 DEF StartSession, IsConnect
    <2>. QED  BY <1>7, <2>1, TakenKeepsControl DEF StartSession
  <1>8. ASSUME NEW s \in Session, SessionStep(s) PROVE ControlInv'
    <2>1. Running /\ UNCHANGED <<ctl, batch, handled>>
      BY <1>8 DEF SessionStep, ConnectSide, AuthSession, Spawn, AwaitFirst, AwaitFirstFails,
                  Join, CloseBoth, SessionEnded, MainFrame, control
    <2>. QED  BY <2>1, ControlUntouched
  <1>9. ASSUME NEW s \in Session, NEW x \in Side,
               SideRecv(s, x) \/ SideSend(s, x) \/ SideStops(s, x)
               \/ SideNotifies(s, x) \/ SideCancelled(s, x)
        PROVE  ControlInv'
    <2>1. Running /\ UNCHANGED <<ctl, batch, handled>>
      BY <1>9 DEF SideRecv, SideSend, SideStops, SideNotifies, SideCancelled, Alive,
                  SessFrame, MainFrame, control
    <2>. QED  BY <2>1, ControlUntouched
  <1>. QED  BY <1>1, <1>2, <1>3, <1>4, <1>5, <1>6, <1>7, <1>8, <1>9,
               RelaySendsKeepsControl, ControlRecvKeepsControl DEF Next

\* The invariant of the control channel, on top of IInv.
LEMMA ControlInvariance == Spec => [](IInv /\ ControlInv)
  <1>1. Init => ControlInv
    <2>. SUFFICES ASSUME Init PROVE ControlInv
      OBVIOUS
    <2>1. ctl = NoControl /\ batch = <<>> /\ handled = 0
      BY DEF Init
    <2>2. Connects(batch) = 0 /\ ConnectEnds(ctl.wire) = 0 /\ ctl.connects = 0
      BY <2>1, NoControlIsSound
    <2>3. handled + Connects(batch) + ConnectEnds(ctl.wire) = ctl.connects
      BY <2>1, <2>2
    <2>4. batch \in Seq(Kind) /\ StreamSound(ctl.buf, ctl.wire)
      BY <2>1, NoControlIsSound
    <2>. QED  BY <2>3, <2>4 DEF ControlInv, NoRequestLost
  <1>2. IInv /\ ControlInv /\ [Next]_vars => ControlInv'
    BY NextKeepsControl
  <1>. QED  BY <1>1, <1>2, Invariance, PTL DEF Spec

\* However TCP cuts the control stream up, and whatever long or malformed lines
\* arrive between them, every connect line that has arrived completely has been
\* handled or is about to be, once (run_srv_daemon_side_multi).
THEOREM RequestsAreNotLost == Spec => []NoRequestLost
  <1>1. ControlInv => NoRequestLost
    BY DEF ControlInv
  <1>. QED  BY <1>1, ControlInvariance, PTL

\* The variables of srv have their types.
THEOREM TypesAreKept == Spec => []TypeOK
  <1>1. IInv /\ ControlInv => TypeOK
    BY DEF IInv, ControlInv, TypeOK
  <1>. QED  BY <1>1, ControlInvariance, PTL
=============================================================================
