---------------------------- MODULE RelayAuthAuto ----------------------------
(***************************************************************************)
(* How one side of a relay session authenticates its sockets:              *)
(* RelayAuthVerifierAuto of noports_core/lib/src/srvd/                     *)
(* relay_auth_verifiers.dart, which finds out for each socket whether the  *)
(* peer speaks first (legacy) or waits for a challenge (ESCR), verifies it *)
(* and hands on what it sends after that.                                  *)
(*                                                                         *)
(* Chunks of data, the end of the stream, the detection timer and hints    *)
(* from the client queue on a mutex for each socket, which is held over    *)
(* the awaits of verifying and of writing.  What a peer sends is a stream  *)
(* of tokens: the first LineLength are its authentication line, of which   *)
(* the last is the newline, and the rest is the data to relay.             *)
(***************************************************************************)
EXTENDS Integers, Sequences

CONSTANTS
    Connections,
    LineLength,
    StreamLength,   \* bound: the most tokens a peer sends
    MaxBuffer,      \* maxAuthBufferLength, in tokens
    MaxHints,       \* bound: calls of setKnownMode
    PeerChoices,    \* bound: the peers the connections may have
    NoConnection

Modes == {"legacy", "escr"}

\* A legacy and a junk peer speak first, the junk peer not with a brace.  One
\* that is not valid sends a line that does not verify.
Peers == [kind : {"legacy", "escr", "junk", "absent"}, valid : BOOLEAN, sends : 0..StreamLength]

ASSUME RelayAuthAutoAssumption ==
    /\ LineLength \in Nat \ {0}
    /\ StreamLength \in Nat
    /\ MaxBuffer \in Nat /\ LineLength <= MaxBuffer
    /\ MaxHints \in Nat
    /\ PeerChoices \subseteq [Connections -> Peers]
    /\ \A choice \in PeerChoices, c \in Connections :
          choice[c].kind = "junk" => ~choice[c].valid
    /\ NoConnection \notin Connections

VARIABLES
    knownMode,      \* _knownMode, or "none"
    hints,          \* calls of setKnownMode so far
    latest,         \* the connection _resolveKnownMode belongs to
    peer,           \* connection -> the kind of its peer
    started,        \* the connections in verifySocketAuth
    sent,           \* connection -> tokens received from the socket so far
    peerClosed,     \* the connections whose peer closed its stream
    waiting,        \* connection -> what waits for its mutex, in order
    holder,         \* connection -> the await its mutex is held over, or "none"
    mode,           \* connection -> detecting, legacy or escr
    timer,          \* the connections whose detectTimer is running
    buffer,         \* connection -> tokens not yet handed on
    authenticated,  \* connections
    completer,      \* connection -> the result of verifySocketAuth
    out,            \* connection -> tokens handed on
    closed,         \* the connections whose stream to the other side is closed
    written,        \* connection -> what was written to the socket
    gone,           \* the connections whose socket could not be flushed
    lookupFailed    \* the connections whose good line met a failed lookup

side == <<knownMode, hints, latest>>
peers == <<peer, started, sent, peerClosed>>
lock == <<waiting, holder>>
stream == <<buffer, authenticated, out, closed>>
failures == <<gone, lookupFailed>>
verifierVars == <<side, peers, lock, mode, timer, stream, completer, written, failures>>

Chunk(lo, hi) == [task |-> "data", lo |-> lo, hi |-> hi]
Resolve(m) == [task |-> "resolve", mode |-> m]
Close == [task |-> "close"]
Tasks ==
    [task : {"data"}, lo : 1..StreamLength, hi : 1..StreamLength]
    \cup [task : {"resolve"}, mode : Modes] \cup {Close}
Tokens(lo, hi) == [n \in 1..(hi - lo + 1) |-> lo + n - 1]

VerifierTypeOK ==
    /\ knownMode \in Modes \cup {"none"}
    /\ hints \in 0..MaxHints
    /\ latest \in Connections \cup {NoConnection}
    /\ peer \in [Connections -> Peers]
    /\ started \subseteq Connections
    /\ sent \in [Connections -> 0..StreamLength]
    /\ peerClosed \subseteq Connections
    /\ waiting \in [Connections -> Seq(Tasks)]
    /\ holder \in [Connections -> {"none", "challenging", "verifying", "accepting", "refusing"}]
    /\ mode \in [Connections -> Modes \cup {"detecting"}]
    /\ timer \subseteq {c \in Connections : mode[c] = "detecting"}
    /\ buffer \in [Connections -> Seq(1..StreamLength)]
    /\ authenticated \subseteq Connections
    /\ completer \in [Connections -> {"open", "accepted", "refused"}]
    /\ out \in [Connections -> Seq(1..StreamLength)]
    /\ closed \subseteq Connections
    /\ written \in [Connections -> Seq({"challenge", "ok", "failed"})]
    /\ gone \subseteq Connections
    /\ lookupFailed \subseteq Connections

VerifierInit ==
    /\ knownMode = "none"
    /\ hints = 0
    /\ latest = NoConnection
    /\ peer \in PeerChoices
    /\ started = {}
    /\ sent = [c \in Connections |-> 0]
    /\ peerClosed = {}
    /\ waiting = [c \in Connections |-> <<>>]
    /\ holder = [c \in Connections |-> "none"]
    /\ mode = [c \in Connections |-> "detecting"]
    /\ timer = {}
    /\ buffer = [c \in Connections |-> <<>>]
    /\ authenticated = {}
    /\ completer = [c \in Connections |-> "open"]
    /\ out = [c \in Connections |-> <<>>]
    /\ closed = {}
    /\ written = [c \in Connections |-> <<>>]
    /\ gone = {}
    /\ lookupFailed = {}

Enqueue(c, task) == waiting' = [waiting EXCEPT ![c] = Append(@, task)]
Hold(c, await) == holder' = [holder EXCEPT ![c] = await]
Write(c, line) == written' = [written EXCEPT ![c] = Append(@, line)]
HandOn(c, tokens) == out' = [out EXCEPT ![c] = @ \o tokens]

-----------------------------------------------------------------------------
(* What happens outside *)

\* Mutant: the detection timer is left running.
ResolveKeepsTimer(c, m) ==
    /\ mode' = [mode EXCEPT ![c] = m]
    /\ timer' = timer
    /\ IF m = "escr" THEN Write(c, "challenge") /\ Hold(c, "challenging")
       ELSE UNCHANGED <<written, holder>>

\* The challenge is written, and its flush is awaited with the mutex held.
ResolveLocked(c, m) ==
    /\ mode' = [mode EXCEPT ![c] = m]
    /\ timer' = timer \ {c}
    /\ IF m = "escr" THEN Write(c, "challenge") /\ Hold(c, "challenging")
       ELSE UNCHANGED <<written, holder>>

\* Mutant: the connections share one detection timer.
ConnectTakesTimer(c) ==
    /\ c \notin started
    /\ peer[c].kind # "absent"
    /\ started' = started \cup {c}
    /\ latest' = c
    /\ IF knownMode # "none" THEN ResolveLocked(c, knownMode)
       ELSE timer' = {c} /\ UNCHANGED <<mode, written, holder>>
    /\ UNCHANGED <<knownMode, hints, peer, sent, peerClosed, waiting, stream, completer, failures>>

\* A socket connects: verifySocketAuth, up to its first await of a flush.
Connect(c) ==
    /\ c \notin started
    /\ peer[c].kind # "absent"
    /\ started' = started \cup {c}
    /\ latest' = c
    /\ IF knownMode # "none" THEN ResolveLocked(c, knownMode)
       ELSE timer' = timer \cup {c} /\ UNCHANGED <<mode, written, holder>>
    /\ UNCHANGED <<knownMode, hints, peer, sent, peerClosed, waiting, stream, completer, failures>>

\* An ESCR peer waits for its challenge and any peer stops when refused.
MaySpeak(c) ==
    /\ c \in started \ peerClosed
    /\ completer[c] # "refused"
    /\ peer[c].kind = "escr" => written[c] # <<>>

\* Mutant: what comes after authentication is not held up by the mutex.
HandOnAtOnce(c) ==
    /\ MaySpeak(c)
    /\ \E hi \in (sent[c] + 1)..peer[c].sends :
          /\ sent' = [sent EXCEPT ![c] = hi]
          /\ IF c \in authenticated
             THEN HandOn(c, Tokens(sent[c] + 1, hi)) /\ UNCHANGED waiting
             ELSE Enqueue(c, Chunk(sent[c] + 1, hi)) /\ UNCHANGED out
    /\ UNCHANGED <<side, peer, started, peerClosed, holder, mode, timer, buffer,
                   authenticated, closed, completer, written, failures>>

\* The listener is given a chunk; it skips the mutex only if that is free.
Data(c) ==
    /\ MaySpeak(c)
    /\ \E hi \in (sent[c] + 1)..peer[c].sends :
          /\ sent' = [sent EXCEPT ![c] = hi]
          /\ IF c \in authenticated /\ holder[c] = "none" /\ waiting[c] = <<>>
             THEN HandOn(c, Tokens(sent[c] + 1, hi)) /\ UNCHANGED waiting
             ELSE Enqueue(c, Chunk(sent[c] + 1, hi)) /\ UNCHANGED out
    /\ UNCHANGED <<side, peer, started, peerClosed, holder, mode, timer, buffer,
                   authenticated, closed, completer, written, failures>>

\* Mutant: the stream is closed without waiting for the mutex.
CloseAtOnce(c) ==
    /\ MaySpeak(c)
    /\ peerClosed' = peerClosed \cup {c}
    /\ closed' = closed \cup {c}
    /\ UNCHANGED <<side, peer, started, sent, lock, mode, timer, buffer, authenticated, out,
                   completer, written, failures>>

\* onDone or onError
PeerCloses(c) ==
    /\ MaySpeak(c)
    /\ peerClosed' = peerClosed \cup {c}
    /\ Enqueue(c, Close)
    /\ UNCHANGED <<side, peer, started, sent, holder, mode, timer, stream, completer,
                   written, failures>>

\* setKnownMode: the client said which mode this side will use.  Only the
\* latest connection is steered.
SetKnownMode(m) ==
    /\ hints < MaxHints
    /\ hints' = hints + 1
    /\ knownMode' = m
    /\ IF latest # NoConnection THEN Enqueue(latest, Resolve(m)) ELSE UNCHANGED waiting
    /\ UNCHANGED <<latest, peers, holder, mode, timer, stream, completer, written, failures>>

\* The detection window is over.
TimerFires(c) ==
    /\ c \in timer
    /\ timer' = timer \ {c}
    /\ Enqueue(c, Resolve("escr"))
    /\ UNCHANGED <<side, peers, holder, mode, stream, completer, written, failures>>

-----------------------------------------------------------------------------
(* What happens with the mutex *)

Acquire(c, task) ==
    /\ holder[c] = "none"
    /\ waiting[c] # <<>>
    /\ Head(waiting[c]).task = task
    /\ waiting' = [waiting EXCEPT ![c] = Tail(@)]

\* failAuth: only a challenged peer is told, and the socket is destroyed.
FailAuth(c, m) ==
    CASE completer[c] # "open" ->
           Hold(c, "none") /\ UNCHANGED <<completer, written>>
      [] completer[c] = "open" /\ m = "escr" ->
           Write(c, "failed") /\ Hold(c, "refusing") /\ UNCHANGED completer
      [] completer[c] = "open" /\ m # "escr" ->
           /\ completer' = [completer EXCEPT ![c] = "refused"]
           /\ Hold(c, "none")
           /\ UNCHANGED written

\* Mutant: a hint is applied whatever was found out before.
ResolveAnyway(c) ==
    /\ Acquire(c, "resolve")
    /\ ResolveLocked(c, Head(waiting[c]).mode)
    /\ UNCHANGED <<side, peers, stream, completer, failures>>

\* resolve: a hint or the timer, which come too late once the mode is known.
RunResolve(c) ==
    /\ Acquire(c, "resolve")
    /\ IF mode[c] = "detecting" THEN ResolveLocked(c, Head(waiting[c]).mode)
       ELSE UNCHANGED <<mode, timer, written, holder>>
    /\ UNCHANGED <<side, peers, stream, completer, failures>>

\* A chunk that waited for the authentication to end.
RunDataAuthenticated(c) ==
    LET chunk == Head(waiting[c])
    IN  /\ Acquire(c, "data")
        /\ c \in authenticated
        /\ IF c \notin closed THEN HandOn(c, Tokens(chunk.lo, chunk.hi)) ELSE UNCHANGED out
        /\ UNCHANGED <<side, peers, holder, mode, timer, buffer, authenticated, closed,
                       completer, written, failures>>

\* Another chunk of the authentication, the first of which tells a legacy
\* peer; the end of the line starts its verification.
RunData(c) ==
    LET chunk == Head(waiting[c])
        all == buffer[c] \o Tokens(chunk.lo, chunk.hi)
        unexpected == mode[c] = "detecting" /\ peer[c].kind = "junk"
        m == IF mode[c] = "detecting" /\ ~unexpected THEN "legacy" ELSE mode[c]
        tooMuch == Len(all) > MaxBuffer
        lineEnds == chunk.lo <= LineLength /\ LineLength <= chunk.hi
        idx == CHOOSE i \in DOMAIN all : all[i] = LineLength
    IN  /\ Acquire(c, "data")
        /\ c \notin authenticated
        /\ timer' = timer \ {c}
        /\ mode' = [mode EXCEPT ![c] = m]
        /\ IF unexpected \/ tooMuch
           THEN FailAuth(c, m) /\ UNCHANGED buffer
           ELSE /\ buffer' = [buffer EXCEPT ![c] =
                                IF lineEnds THEN SubSeq(all, idx + 1, Len(all)) ELSE all]
                /\ Hold(c, IF lineEnds THEN "verifying" ELSE "none")
                /\ UNCHANGED <<completer, written>>
        /\ UNCHANGED <<side, peers, authenticated, out, closed, failures>>

RunClose(c) ==
    /\ Acquire(c, "close")
    /\ closed' = closed \cup {c}
    /\ UNCHANGED <<side, peers, holder, mode, timer, buffer, authenticated, out, completer,
                   written, failures>>

\* The side's mode is remembered and what came behind the line handed on.
CompleteSuccess(c) ==
    /\ authenticated' = authenticated \cup {c}
    /\ knownMode' = IF knownMode = "none" THEN mode[c] ELSE knownMode
    /\ completer' = [completer EXCEPT ![c] = IF @ = "open" THEN "accepted" ELSE @]
    /\ IF c \notin closed THEN HandOn(c, buffer[c]) ELSE UNCHANGED out
    /\ buffer' = [buffer EXCEPT ![c] = <<>>]

\* Mutant: the handler is chosen by the mode of the side.
VerifiesBySide(c) == peer[c].valid /\ peer[c].kind = knownMode

\* The line is for this session and side, and signed by this side's atSign,
\* in the form that the handler for the connection's mode expects.
Verifies(c) == peer[c].valid /\ peer[c].kind = mode[c]

\* Mutant: whether the line verified is not looked at.
VerifyIgnored(c) ==
    /\ holder[c] = "verifying"
    /\ ~Verifies(c)
    /\ CompleteSuccess(c)
    /\ Hold(c, "none")
    /\ UNCHANGED <<hints, latest, peers, waiting, mode, timer, closed, written, failures>>

\* handleLegacyLine or handleEscrLine throws: the line does not verify, or the
\* key of its atSign or the signing key it names cannot be looked up.
VerifyThrows(c) ==
    /\ holder[c] = "verifying"
    /\ FailAuth(c, mode[c])
    /\ lookupFailed' = IF Verifies(c) THEN lookupFailed \cup {c} ELSE lookupFailed
    /\ UNCHANGED <<side, peers, waiting, mode, timer, stream, gone>>

LegacyVerified(c) ==
    /\ holder[c] = "verifying"
    /\ mode[c] = "legacy"
    /\ Verifies(c)
    /\ CompleteSuccess(c)
    /\ Hold(c, "none")
    /\ UNCHANGED <<hints, latest, peers, waiting, mode, timer, closed, written, failures>>

EscrVerified(c) ==
    /\ holder[c] = "verifying"
    /\ mode[c] = "escr"
    /\ Verifies(c)
    /\ Write(c, "ok")
    /\ Hold(c, "accepting")
    /\ UNCHANGED <<side, peers, waiting, mode, timer, stream, completer, failures>>

\* A flush returns: of the challenge, of the ok, of the refusal.
ChallengeFlushed(c) ==
    /\ holder[c] = "challenging"
    /\ Hold(c, "none")
    /\ UNCHANGED <<side, peers, waiting, mode, timer, stream, completer, written, failures>>

OkFlushed(c) ==
    /\ holder[c] = "accepting"
    /\ CompleteSuccess(c)
    /\ Hold(c, "none")
    /\ UNCHANGED <<hints, latest, peers, waiting, mode, timer, closed, written, failures>>

Refused(c) ==
    /\ holder[c] = "refusing"
    /\ completer' = [completer EXCEPT ![c] = "refused"]
    /\ Hold(c, "none")
    /\ UNCHANGED <<side, peers, waiting, mode, timer, stream, written, failures>>

\* A flush throws: the socket is no more.
FlushThrows(c) ==
    /\ holder[c] \in {"challenging", "accepting"}
    /\ gone' = gone \cup {c}
    /\ completer' = [completer EXCEPT ![c] = "refused"]
    /\ Hold(c, "none")
    /\ UNCHANGED <<side, peers, waiting, mode, timer, stream, written, lookupFailed>>

-----------------------------------------------------------------------------
Verifier(c) ==
    \/ RunResolve(c)
    \/ RunDataAuthenticated(c)
    \/ RunData(c)
    \/ RunClose(c)
    \/ VerifyThrows(c)
    \/ LegacyVerified(c)
    \/ EscrVerified(c)
    \/ ChallengeFlushed(c)
    \/ OkFlushed(c)
    \/ Refused(c)
    \/ FlushThrows(c)

VerifierNext ==
    \/ \E c \in Connections :
          Connect(c) \/ Data(c) \/ PeerCloses(c) \/ TimerFires(c) \/ Verifier(c)
    \/ \E m \in Modes : SetKnownMode(m)

VerifierSpec == VerifierInit /\ [][VerifierNext]_verifierVars

\* The relay goes on, the timer fires, and a peer that can go on does.
VerifierFairness ==
    \A c \in Connections :
        WF_verifierVars(Verifier(c)) /\ WF_verifierVars(TimerFires(c)) /\ WF_verifierVars(Data(c))

FairVerifierSpec == VerifierSpec /\ VerifierFairness

-----------------------------------------------------------------------------
(* Properties *)

\* What a peer sends behind its line is handed on in order, with nothing
\* lost, doubled or let through of the line, however it was cut into chunks
\* and whichever of them came while the line was being verified.
StreamIsIntact ==
    \A c \in Connections : out[c] = Tokens(LineLength + 1, LineLength + Len(out[c]))

\* The stream of an authenticated peer is closed behind its last byte.
NothingIsCutOff ==
    \A c \in closed \cap authenticated : Len(out[c]) = sent[c] - LineLength

\* Nothing is written to a peer that is taken for legacy, which would pass it
\* on to its application; a challenged one gets a single challenge and a
\* single answer.
WritesInTurn ==
    \A c \in Connections :
        /\ written[c] # <<>> => mode[c] = "escr"
        /\ written[c] \in {<<>>, <<"challenge">>, <<"challenge", "ok">>,
                           <<"challenge", "failed">>}

\* A peer that would verify is refused only when it was taken for ESCR before
\* it spoke, sent too much with its line, is gone, or when its key could not
\* be looked up.
GoodPeerIsAccepted ==
    \A c \in Connections :
        peer[c].valid /\ completer[c] = "refused"
        => \/ peer[c].kind = "legacy" /\ mode[c] = "escr"
           \/ sent[c] > MaxBuffer
           \/ c \in gone \cup lookupFailed

\* Nothing is handed on for a peer whose line did not verify in its mode.
OnlyVerifiedIsHandedOn ==
    \A c \in Connections :
        out[c] # <<>> \/ completer[c] = "accepted" => Verifies(c) /\ c \in authenticated

\* A peer that waits to be challenged is, whoever connects after it and
\* whichever connection is steered by a hint, unless a hint takes it for
\* legacy; and it is then answered.
EscrPeerIsAnswered ==
    \A c \in Connections :
        c \in started /\ peer[c].kind = "escr"
        ~> completer[c] # "open" \/ mode[c] = "legacy" \/ c \in peerClosed
=============================================================================
