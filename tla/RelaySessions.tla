---------------------------- MODULE RelaySessions ----------------------------
(***************************************************************************)
(* The sessions of a relay: the main isolate of srvd                       *)
(* (noports_core/lib/src/srvd/srvd_impl.dart), which takes requests for    *)
(* ports, records sessions, re-checks the keys they were signed with and   *)
(* stops; and the isolates it talks to by messages, one PortPairWorker per *)
(* session (isolates/port_pair_isolate.dart) and the SinglePortWorker that *)
(* carries every session on port 443                                       *)
(* (isolates/shared_single_port_isolate.dart).                             *)
(*                                                                         *)
(* Handlers of the main isolate interleave at their awaits.  Messages from *)
(* one isolate to another arrive in the order they were sent, and a worker *)
(* that exits is heard of after everything it said.                        *)
(***************************************************************************)
EXTENDS Integers, Sequences, FiniteSets

CONSTANTS
    Requests,           \* request_ports notifications
    SessionIds,
    SessionOf,          \* request -> the session id it carries
    Choices443,         \* bound: the sets of requests that may be for port 443
    Keys,               \* _apsk records
    MaxSigningKeys,     \* maxSigningKeysPerSession
    MaxReports,         \* bound: sockets and connections reported of a session
    MaxLogging,         \* bound: logging notifications validated at a time
    NoRequest,
    NoKey,
    W443                \* the single-port worker

ASSUME RelaySessionsAssumption ==
    /\ SessionOf \in [Requests -> SessionIds]
    /\ Choices443 \subseteq SUBSET Requests
    /\ MaxSigningKeys \in Nat \ {0}
    /\ MaxReports \in Nat
    /\ MaxLogging \in Nat
    /\ NoRequest \notin Requests
    /\ NoKey \notin Keys
    /\ W443 \notin Requests

\* A port-pair worker is named after the request it was spawned for.
Workers == Requests \cup {W443}

VARIABLES
    bind443,           \* a setting of the relay
    only443,           \* the requests for a session on port 443
    pc,                \* request -> where its handler has got to
    startingSessions,  \* the ids of the requests being handled
    sessions,          \* session id -> the request it was recorded for
    signingKeys,       \* request -> SessionInfo.signingKeys
    ending,            \* the requests whose SessionInfo is marked ending
    stats,             \* the requests whose SessionInfo has its first stats
    logging,           \* the requests whose SessionInfo has an eventLoggingConfig
    validating,        \* request -> its logging notifications being validated
    connectedEvents,   \* request -> how often "connected" was logged
    recordedLate,      \* requests recorded after their sessionComplete was handled
    keysBeingChecked,  \* the keys whose re-check has not ended
    stopping,          \* where stop() has got to
    workers,           \* _workers: the isolates whose exit was not heard of
    portKnown,         \* the workers that can be sent messages
    stopAsked,         \* the workers in _stopWorker
    awaited,           \* the workers stop() waits for
    worker,            \* worker -> its state
    connector,         \* request -> its SocketConnector
    sessions443,       \* session id -> the request the single-port worker started
    toWorker,          \* worker -> messages on their way to it
    toMain,            \* worker -> messages on their way from it
    reports,           \* request -> its sockets and connections reported so far
    withdrawn          \* the keys whose record was moved to r.__e or d.__e

WorkerOf(r) == IF r \in only443 THEN W443 ELSE r

given == <<bind443, only443>>
requestVars == <<pc, startingSessions>>
loggingVars == <<stats, logging, validating, connectedEvents>>
infoVars == <<signingKeys, ending, loggingVars>>
recordVars == <<sessions, recordedLate>>
stopVars == <<stopping, awaited>>
isolateVars == <<workers, portKnown, stopAsked>>
workerVars == <<worker, connector, sessions443, reports>>
channels == <<toWorker, toMain>>
vars == <<given, requestVars, infoVars, recordVars, keysBeingChecked, stopVars,
          isolateVars, workerVars, channels, withdrawn>>

Message(type, r) == [type |-> type, req |-> r, key |-> NoKey]
SigningKeyMessage(r, k) == [type |-> "signingKey", req |-> r, key |-> k]

ToWorkerTypes == {"start", "stop", "endSession"}
ToMainTypes == {"sendPort", "ports", "signingKey", "newConnection",
                "sessionComplete", "exit"}
Messages(types) ==
    [type : types, req : Requests \cup {NoRequest}, key : Keys \cup {NoKey}]

TypeOK ==
    /\ bind443 \in BOOLEAN
    /\ only443 \subseteq Requests
    /\ pc \in [Requests ->
          {"idle", "keys", "spawning", "awaitPort", "awaitPorts", "mutex",
           "responding", "answered", "denied", "failed", "timedOut", "lost"}]
    /\ startingSessions \subseteq SessionIds
    /\ sessions \in [SessionIds -> Requests \cup {NoRequest}]
    /\ signingKeys \in [Requests -> SUBSET Keys]
    /\ \A r \in Requests : Cardinality(signingKeys[r]) <= MaxSigningKeys
    /\ ending \subseteq Requests
    /\ stats \subseteq Requests
    /\ logging \subseteq Requests
    /\ validating \in [Requests -> 0..MaxLogging]
    /\ connectedEvents \in [Requests -> Nat]
    /\ recordedLate \subseteq Requests
    /\ keysBeingChecked \subseteq Keys
    /\ stopping \in {"no", "cancelling", "waiting", "done"}
    /\ workers \subseteq Workers
    /\ portKnown \subseteq Workers
    /\ stopAsked \subseteq Workers
    /\ awaited \subseteq Workers
    /\ worker \in [Workers -> {"none", "spawned", "ready", "binding", "running", "closing",
                              "stopped", "exited", "killed"}]
    /\ connector \in [Requests -> {"none", "open", "closing", "closed"}]
    /\ sessions443 \in [SessionIds -> Requests \cup {NoRequest}]
    /\ toWorker \in [Workers -> Seq(Messages(ToWorkerTypes))]
    /\ toMain \in [Workers -> Seq(Messages(ToMainTypes))]
    /\ reports \in [Requests -> 0..MaxReports]
    /\ withdrawn \subseteq Keys

\* init() has spawned the single-port worker, if there is to be one, and
\* run() has subscribed.
Init ==
    /\ bind443 \in BOOLEAN
    /\ only443 \in Choices443
    /\ pc = [r \in Requests |-> "idle"]
    /\ startingSessions = {}
    /\ sessions = [x \in SessionIds |-> NoRequest]
    /\ signingKeys = [r \in Requests |-> {}]
    /\ ending = {}
    /\ stats = {}
    /\ logging = {}
    /\ validating = [r \in Requests |-> 0]
    /\ connectedEvents = [r \in Requests |-> 0]
    /\ recordedLate = {}
    /\ keysBeingChecked = {}
    /\ stopping = "no"
    /\ workers = IF bind443 THEN {W443} ELSE {}
    /\ portKnown = workers
    /\ stopAsked = {}
    /\ awaited = {}
    /\ worker = [w \in Workers |-> IF w \in workers THEN "running" ELSE "none"]
    /\ connector = [r \in Requests |-> "none"]
    /\ sessions443 = [x \in SessionIds |-> NoRequest]
    /\ toWorker = [w \in Workers |-> <<>>]
    /\ toMain = [w \in Workers |-> <<>>]
    /\ reports = [r \in Requests |-> 0]
    /\ withdrawn = {}

GoTo(r, label) == pc' = [pc EXCEPT ![r] = label]

\* Leave handleRequestPorts, by its finally.
Finish(r, label) ==
    /\ GoTo(r, label)
    /\ startingSessions' = startingSessions \ {SessionOf[r]}

Send(w, m) == toWorker' = [toWorker EXCEPT ![w] = Append(@, m)]
Tell(w, ms) == toMain' = [toMain EXCEPT ![w] = @ \o ms]

Alive(w) == worker[w] \notin {"none", "exited", "killed"}

CompletePending(r) ==
    \E n \in DOMAIN toMain[WorkerOf(r)] :
        toMain[WorkerOf(r)][n] = Message("sessionComplete", r)

-----------------------------------------------------------------------------
(* handleRequestPorts and _startSession *)

\* Mutant: ids being started are not looked at.
StartingUnchecked(r) ==
    /\ pc[r] = "idle"
    /\ stopping \in {"no", "cancelling"}
    /\ IF sessions[SessionOf[r]] # NoRequest
       THEN GoTo(r, "denied") /\ UNCHANGED startingSessions
       ELSE GoTo(r, "keys") /\ startingSessions' = startingSessions \cup {SessionOf[r]}
    /\ UNCHANGED <<given, infoVars, recordVars, keysBeingChecked, stopVars, isolateVars,
                   workerVars, channels, withdrawn>>

\* Until the subscription is cancelled; a session id that is live or being
\* started is denied.
HandleRequestPorts(r) ==
    /\ pc[r] = "idle"
    /\ stopping \in {"no", "cancelling"}
    /\ IF sessions[SessionOf[r]] # NoRequest \/ SessionOf[r] \in startingSessions
       THEN GoTo(r, "denied") /\ UNCHANGED startingSessions
       ELSE GoTo(r, "keys") /\ startingSessions' = startingSessions \cup {SessionOf[r]}
    /\ UNCHANGED <<given, infoVars, recordVars, keysBeingChecked, stopVars, isolateVars,
                   workerVars, channels, withdrawn>>

\* withPayloadKeys returns, or throws.
PayloadKeys(r) ==
    /\ pc[r] = "keys"
    /\ \/ GoTo(r, IF r \in only443 THEN "mutex" ELSE "spawning") /\ UNCHANGED startingSessions
       \/ Finish(r, "failed")
    /\ UNCHANGED <<given, infoVars, recordVars, keysBeingChecked, stopVars, isolateVars,
                   workerVars, channels, withdrawn>>

\* Mutant: a worker registered while the relay stops is not stopped.
RegisterOnly(r) ==
    /\ pc[r] = "spawning"
    /\ GoTo(r, "awaitPort")
    /\ worker' = [worker EXCEPT ![r] = "spawned"]
    /\ workers' = workers \cup {r}
    /\ UNCHANGED <<given, startingSessions, infoVars, recordVars, keysBeingChecked, stopVars,
                   portKnown, stopAsked, connector, sessions443, reports, channels, withdrawn>>

\* Isolate.spawn returns: _register, which asks the worker to stop if the
\* relay is stopping.
Spawned(r) ==
    /\ pc[r] = "spawning"
    /\ GoTo(r, "awaitPort")
    /\ worker' = [worker EXCEPT ![r] = "spawned"]
    /\ workers' = workers \cup {r}
    /\ stopAsked' = IF stopping = "no" THEN stopAsked ELSE stopAsked \cup {r}
    /\ UNCHANGED <<given, startingSessions, infoVars, recordVars, keysBeingChecked, stopVars,
                   portKnown, connector, sessions443, reports, channels, withdrawn>>

\* isolateStartTimeoutMs or isolateBindPortsTimeoutMs passes: the worker is
\* left to itself.
SpawnTimesOut(r) ==
    /\ pc[r] \in {"awaitPort", "awaitPorts"}
    /\ Finish(r, "timedOut")
    /\ UNCHANGED <<given, infoVars, recordVars, keysBeingChecked, stopVars, isolateVars,
                   workerVars, channels, withdrawn>>

\* Another relay holds the session mutex, or asking for it throws.
MutexLost(r) ==
    /\ pc[r] = "mutex"
    /\ Finish(r, "lost")
    /\ IF r \in only443 THEN UNCHANGED toWorker ELSE Send(r, Message("stop", r))
    /\ UNCHANGED <<given, infoVars, recordVars, keysBeingChecked, stopVars, isolateVars,
                   workerVars, toMain, withdrawn>>

\* The mutex was acquired, or was not needed.
Record(r) ==
    /\ pc[r] = "mutex"
    /\ IF r \in only443 /\ ~bind443
       THEN /\ Finish(r, "failed")
            /\ UNCHANGED <<recordVars, toWorker>>
       ELSE /\ sessions' = [sessions EXCEPT ![SessionOf[r]] = r]
            /\ recordedLate' = IF connector[r] = "closed" /\ ~CompletePending(r)
                               THEN recordedLate \cup {r} ELSE recordedLate
            /\ IF r \in only443 THEN Send(W443, Message("start", r)) ELSE UNCHANGED toWorker
            /\ GoTo(r, "responding")
            /\ UNCHANGED startingSessions
    /\ UNCHANGED <<given, infoVars, keysBeingChecked, stopVars, isolateVars,
                   workerVars, toMain, withdrawn>>

\* Mutant: the id stays among those being started.
AnswerOnly(r) ==
    /\ pc[r] = "responding"
    /\ GoTo(r, "answered")
    /\ UNCHANGED <<given, startingSessions, infoVars, recordVars, keysBeingChecked, stopVars,
                   isolateVars, workerVars, channels, withdrawn>>

\* The response was sent, or could not be, and the keys to pre-fetch were.
Respond(r) ==
    /\ pc[r] = "responding"
    /\ Finish(r, "answered")
    /\ UNCHANGED <<given, infoVars, recordVars, keysBeingChecked, stopVars, isolateVars,
                   workerVars, channels, withdrawn>>

-----------------------------------------------------------------------------
(* Messages from the workers *)

Receive(w, type) ==
    /\ toMain[w] # <<>>
    /\ Head(toMain[w]).type = type
    /\ toMain' = [toMain EXCEPT ![w] = Tail(@)]

\* A worker that was asked to stop is told so before it is told to start.
ReceiveSendPort(r) ==
    /\ Receive(r, "sendPort")
    /\ portKnown' = portKnown \cup {r}
    /\ toWorker' = [toWorker EXCEPT ![r] = @
                      \o (IF r \in stopAsked THEN <<Message("stop", r)>> ELSE <<>>)
                      \o (IF pc[r] = "awaitPort" THEN <<Message("start", r)>> ELSE <<>>)]
    /\ pc' = IF pc[r] = "awaitPort" THEN [pc EXCEPT ![r] = "awaitPorts"] ELSE pc
    /\ UNCHANGED <<given, startingSessions, infoVars, recordVars, keysBeingChecked, stopVars,
                   workers, stopAsked, workerVars, withdrawn>>

\* spawnNewPortPairIsolate returns, or throws if the relay was stopped.
ReceivePorts(r) ==
    /\ Receive(r, "ports")
    /\ CASE pc[r] = "awaitPorts" /\ stopping = "no" ->
              GoTo(r, "mutex") /\ UNCHANGED startingSessions
         [] pc[r] = "awaitPorts" /\ stopping # "no" -> Finish(r, "failed")
         [] OTHER -> UNCHANGED requestVars
    /\ UNCHANGED <<given, infoVars, recordVars, keysBeingChecked, stopVars, isolateVars,
                   toWorker, workerVars, withdrawn>>

\* Mutant: a key is recorded though no session is.
RecordForNobody(w) ==
    LET m == Head(toMain[w])
        si == sessions[SessionOf[m.req]]
    IN  /\ Receive(w, "signingKey")
        /\ signingKeys' = [r \in DOMAIN signingKeys \cup {si} |->
                              IF r = si THEN {m.key} ELSE signingKeys[r]]
        /\ UNCHANGED <<given, requestVars, ending, loggingVars, recordVars, keysBeingChecked,
                       stopVars, isolateVars, toWorker, workerVars, withdrawn>>

\* recordSigningKey, for whatever session is recorded under the id.
ReceiveSigningKey(w) ==
    LET m == Head(toMain[w])
        si == sessions[SessionOf[m.req]]
        room == si # NoRequest /\ Cardinality(signingKeys[si]) < MaxSigningKeys
    IN  /\ Receive(w, "signingKey")
        /\ signingKeys' = IF room THEN [signingKeys EXCEPT ![si] = @ \cup {m.key}]
                          ELSE signingKeys
        /\ UNCHANGED <<given, requestVars, ending, loggingVars, recordVars, keysBeingChecked,
                       stopVars, isolateVars, toWorker, workerVars, withdrawn>>

\* _handleNewConnection: only the first one matters.
ReceiveNewConnection(w) ==
    LET si == sessions[SessionOf[Head(toMain[w]).req]]
        first == si # NoRequest /\ si \notin stats
    IN  /\ Receive(w, "newConnection")
        /\ stats' = IF first THEN stats \cup {si} ELSE stats
        /\ connectedEvents' = IF first /\ si \in logging
                              THEN [connectedEvents EXCEPT ![si] = @ + 1]
                              ELSE connectedEvents
        /\ UNCHANGED <<given, requestVars, signingKeys, ending, logging, validating,
                       recordVars, keysBeingChecked, stopVars, isolateVars, toWorker, workerVars,
                       withdrawn>>

\* Mutant: a session that ended stays recorded.
CompleteUnheard(w) ==
    /\ Receive(w, "sessionComplete")
    /\ UNCHANGED <<given, requestVars, infoVars, recordVars, keysBeingChecked, stopVars,
                   isolateVars, toWorker, workerVars, withdrawn>>

\* _handleSessionComplete forgets whatever is recorded under the id.  While it
\* first awaits the logging of "done" the id is as good as before the message
\* was received: a request for it is denied.
ReceiveSessionComplete(w) ==
    /\ Receive(w, "sessionComplete")
    /\ sessions' = [sessions EXCEPT ![SessionOf[Head(toMain[w]).req]] = NoRequest]
    /\ UNCHANGED <<given, requestVars, infoVars, recordedLate, keysBeingChecked, stopVars,
                   isolateVars, toWorker, workerVars, withdrawn>>

\* The exit of a worker is heard of: onDone.
ReceiveExit(w) ==
    /\ Receive(w, "exit")
    /\ workers' = workers \ {w}
    /\ IF w # W443 /\ pc[w] = "awaitPorts" THEN Finish(w, "failed")
       ELSE UNCHANGED requestVars
    /\ UNCHANGED <<given, infoVars, recordVars, keysBeingChecked, stopVars, portKnown, stopAsked,
                   toWorker, workerVars, withdrawn>>

-----------------------------------------------------------------------------
(* handleSessionMessages: the daemon's event logging configuration *)

LoggingArrives(r) ==
    /\ stopping \in {"no", "cancelling"}
    /\ sessions[SessionOf[r]] = r
    /\ r \notin logging
    /\ validating[r] < MaxLogging
    /\ validating' = [validating EXCEPT ![r] = @ + 1]
    /\ UNCHANGED <<given, requestVars, signingKeys, ending, stats, logging,
                   connectedEvents, recordVars, keysBeingChecked, stopVars, isolateVars,
                   channels, workerVars, withdrawn>>

\* Mutant: a connection made before the configuration came is not logged.
ValidatedTooLate(r) ==
    /\ validating[r] > 0
    /\ validating' = [validating EXCEPT ![r] = @ - 1]
    /\ logging' = logging \cup {r}
    /\ UNCHANGED <<given, requestVars, signingKeys, ending, stats, connectedEvents,
                   recordVars, keysBeingChecked, stopVars, isolateVars, channels, workerVars,
                   withdrawn>>

\* validAtsign returns; the session may have ended meanwhile.
LoggingValidated(r) ==
    /\ validating[r] > 0
    /\ validating' = [validating EXCEPT ![r] = @ - 1]
    /\ \/ UNCHANGED <<logging, connectedEvents>>
       \/ /\ logging' = logging \cup {r}
          /\ connectedEvents' = IF r \in stats THEN [connectedEvents EXCEPT ![r] = @ + 1]
                                ELSE connectedEvents
    /\ UNCHANGED <<given, requestVars, signingKeys, ending, stats, recordVars, keysBeingChecked,
                   stopVars, isolateVars, channels, workerVars, withdrawn>>

-----------------------------------------------------------------------------
(* checkSigningKeys, every signingKeyCheckInterval *)

Recorded(r) == sessions[SessionOf[r]] = r

\* The recorded sessions signed with key k that are not ending yet.
LiveUnder(k) == {r \in Requests \ ending : Recorded(r) /\ k \in signingKeys[r]}

\* A key whose last re-check has not finished is left out.
CheckSigningKeys ==
    /\ stopping = "no"
    /\ keysBeingChecked' = keysBeingChecked \cup {k \in Keys : LiveUnder(k) # {}}
    /\ UNCHANGED <<given, requestVars, infoVars, recordVars, stopVars, isolateVars,
                   channels, workerVars, withdrawn>>

RecheckEnds(k) ==
    /\ k \in keysBeingChecked
    /\ keysBeingChecked' = keysBeingChecked \ {k}
    /\ UNCHANGED <<given, requestVars, signingKeys, loggingVars, recordVars, stopVars,
                   isolateVars, toMain, workerVars, withdrawn>>

\* _whereWithdrawn: the key is published or merely missing, or was when its
\* record was looked up, or a lookup fails.
NotWithdrawn(k) ==
    /\ RecheckEnds(k)
    /\ UNCHANGED <<ending, toWorker>>

\* Mutant: sessions on port 443 have no worker of their own to stop.
StopsPortPairsOnly(k) ==
    /\ k \in withdrawn
    /\ ending' = ending \cup LiveUnder(k)
    /\ toWorker' = [w \in Workers |->
                      IF w \in LiveUnder(k) THEN Append(toWorker[w], Message("stop", w))
                      ELSE toWorker[w]]
    /\ RecheckEnds(k)

\* _recheck: every session signed with the key by now is ended (_endSession).
Withdrawn(k) ==
    LET gone443 == LiveUnder(k) \cap only443
    IN  /\ k \in withdrawn
        /\ ending' = ending \cup LiveUnder(k)
        /\ \E order \in [1..Cardinality(gone443) -> gone443] :
              /\ \A r \in gone443 : \E n \in DOMAIN order : order[n] = r
              /\ toWorker' = [w \in Workers |->
                    CASE w \in LiveUnder(k) -> Append(toWorker[w], Message("stop", w))
                      [] w = W443 -> toWorker[w] \o
                            [n \in DOMAIN order |-> Message("endSession", order[n])]
                      [] OTHER -> toWorker[w]]
        /\ RecheckEnds(k)

\* The atServer moves the record of a revoked, superseded or expired
\* enrollment, for good.
KeyWithdrawn(k) ==
    /\ withdrawn' = withdrawn \cup {k}
    /\ k \notin withdrawn
    /\ UNCHANGED <<given, requestVars, infoVars, recordVars, keysBeingChecked, stopVars,
                   isolateVars, channels, workerVars>>

-----------------------------------------------------------------------------
(* stop() *)

Stop ==
    /\ stopping = "no"
    /\ stopping' = "cancelling"
    /\ UNCHANGED <<given, requestVars, infoVars, recordVars, keysBeingChecked, awaited,
                   isolateVars, channels, workerVars, withdrawn>>

\* The subscriptions are cancelled: _stopWorker for every worker there is.
StopWorkers ==
    /\ stopping = "cancelling"
    /\ stopping' = "waiting"
    /\ awaited' = workers
    /\ stopAsked' = stopAsked \cup workers
    /\ toWorker' = [w \in Workers |-> IF w \in workers \cap portKnown
                                      THEN Append(toWorker[w], Message("stop", NoRequest))
                                      ELSE toWorker[w]]
    /\ UNCHANGED <<given, requestVars, infoVars, recordVars, keysBeingChecked, workers, portKnown,
                   toMain, workerVars, withdrawn>>

\* _workerStopTimeout passes: the worker is killed, and its sockets stay open.
KillWorker(w) ==
    /\ w \in stopAsked
    /\ Alive(w)
    /\ worker' = [worker EXCEPT ![w] = "killed"]
    /\ Tell(w, <<Message("exit", NoRequest)>>)
    /\ UNCHANGED <<given, requestVars, infoVars, recordVars, keysBeingChecked, stopVars, isolateVars,
                   toWorker, connector, sessions443, reports, withdrawn>>

StopReturns ==
    /\ stopping = "waiting"
    /\ \A w \in awaited \cap workers : worker[w] = "killed"
    /\ stopping' = "done"
    /\ sessions' = [x \in SessionIds |-> NoRequest]
    /\ UNCHANGED <<given, requestVars, infoVars, recordedLate, keysBeingChecked, awaited,
                   isolateVars, channels, workerVars, withdrawn>>

-----------------------------------------------------------------------------
(* The workers *)

WorkerUnchanged ==
    UNCHANGED <<given, requestVars, infoVars, recordVars, keysBeingChecked, stopVars, isolateVars,
                withdrawn>>

Take(w, type) ==
    /\ Alive(w)
    /\ worker[w] \notin {"spawned", "stopped"}
    /\ toWorker[w] # <<>>
    /\ Head(toWorker[w]).type = type
    /\ toWorker' = [toWorker EXCEPT ![w] = Tail(@)]

Closed(S) == [r \in Requests |-> IF r \in S /\ connector[r] = "open" THEN "closing"
                                 ELSE connector[r]]

\* The constructor of RelayWorker.
WorkerStarts(r) ==
    /\ worker[r] = "spawned"
    /\ worker' = [worker EXCEPT ![r] = "ready"]
    /\ Tell(r, <<Message("sendPort", r)>>)
    /\ UNCHANGED <<toWorker, connector, sessions443, reports>>
    /\ WorkerUnchanged

\* PortPairWorker.startSession, up to its await ...
TakeStart(r) ==
    /\ Take(r, "start")
    /\ worker' = [worker EXCEPT ![r] = "binding"]
    /\ UNCHANGED <<toMain, connector, sessions443, reports>>
    /\ WorkerUnchanged

\* ... and after it.
Bound(r) ==
    /\ worker[r] = "binding"
    /\ worker' = [worker EXCEPT ![r] = "running"]
    /\ connector' = [connector EXCEPT ![r] = "open"]
    /\ Tell(r, <<Message("ports", r)>>)
    /\ UNCHANGED <<toWorker, sessions443, reports>>
    /\ WorkerUnchanged

\* No port can be bound: the error ends the isolate.
BindFails(r) ==
    /\ worker[r] = "binding"
    /\ worker' = [worker EXCEPT ![r] = "exited"]
    /\ Tell(r, <<Message("exit", NoRequest)>>)
    /\ UNCHANGED <<toWorker, connector, sessions443, reports>>
    /\ WorkerUnchanged

\* PortPairWorker.stop closes the connector or, before there is one, kills
\* the isolate.
TakeStop(r) ==
    /\ Take(r, "stop")
    /\ connector' = Closed({r})
    /\ IF connector[r] = "none"
       THEN /\ worker' = [worker EXCEPT ![r] = "exited"]
            /\ Tell(r, <<Message("exit", NoRequest)>>)
       ELSE UNCHANGED <<worker, toMain>>
    /\ UNCHANGED <<sessions443, reports>>
    /\ WorkerUnchanged

\* SinglePortWorker.startSession: a start for a live id is ignored.
TakeStart443 ==
    LET r == Head(toWorker[W443]).req
    IN  /\ Take(W443, "start")
        /\ IF sessions443[SessionOf[r]] = NoRequest
           THEN /\ sessions443' = [sessions443 EXCEPT ![SessionOf[r]] = r]
                /\ connector' = [connector EXCEPT ![r] = "open"]
           ELSE UNCHANGED <<sessions443, connector>>
        /\ UNCHANGED <<worker, toMain, reports>>
        /\ WorkerUnchanged

\* SinglePortWorker.endSession
TakeEndSession443 ==
    /\ Take(W443, "endSession")
    /\ connector' = Closed({sessions443[SessionOf[Head(toWorker[W443]).req]]})
    /\ UNCHANGED <<worker, toMain, sessions443, reports>>
    /\ WorkerUnchanged

\* SinglePortWorker.stop: the server socket is closed, which takes a while ...
TakeStop443 ==
    /\ Take(W443, "stop")
    /\ worker' = [worker EXCEPT ![W443] = "closing"]
    /\ UNCHANGED <<toMain, connector, sessions443, reports>>
    /\ WorkerUnchanged

\* ... then every connector ...
CloseAll443 ==
    /\ worker[W443] = "closing"
    /\ worker' = [worker EXCEPT ![W443] = "stopped"]
    /\ connector' = Closed(only443)
    /\ UNCHANGED <<channels, sessions443, reports>>
    /\ WorkerUnchanged

\* ... and run() goes on to kill the isolate, with no regard to what is still
\* closing.
Exit443 ==
    /\ worker[W443] = "stopped"
    /\ worker' = [worker EXCEPT ![W443] = "exited"]
    /\ Tell(W443, <<Message("exit", NoRequest)>>)
    /\ UNCHANGED <<toWorker, connector, sessions443, reports>>
    /\ WorkerUnchanged

\* A socket is accepted with a signature by key k; its verification may have
\* begun before the connector was closed.
SocketVerified(r, k) ==
    /\ Alive(WorkerOf(r))
    /\ connector[r] \in {"open", "closing"}
    /\ reports[r] < MaxReports
    /\ reports' = [reports EXCEPT ![r] = @ + 1]
    /\ Tell(WorkerOf(r), <<SigningKeyMessage(r, k)>>)
    /\ UNCHANGED <<toWorker, worker, connector, sessions443>>
    /\ WorkerUnchanged

\* Sockets of both sides are joined.
NewConnection(r) ==
    /\ Alive(WorkerOf(r))
    /\ connector[r] = "open"
    /\ reports[r] < MaxReports
    /\ reports' = [reports EXCEPT ![r] = @ + 1]
    /\ Tell(WorkerOf(r), <<Message("newConnection", r)>>)
    /\ UNCHANGED <<toWorker, worker, connector, sessions443>>
    /\ WorkerUnchanged

\* The connector is done: it was closed, nobody connected in time, or all its
\* connections are over.  A port-pair worker exits with it.
ConnectorDone(r) ==
    /\ Alive(WorkerOf(r))
    /\ connector[r] \in {"open", "closing"}
    /\ connector' = [connector EXCEPT ![r] = "closed"]
    /\ IF r \in only443
       THEN /\ sessions443' = [sessions443 EXCEPT ![SessionOf[r]] = NoRequest]
            /\ Tell(W443, <<Message("sessionComplete", r)>>)
            /\ UNCHANGED worker
       ELSE /\ worker' = [worker EXCEPT ![r] = "exited"]
            /\ Tell(r, <<Message("sessionComplete", r), Message("exit", NoRequest)>>)
            /\ UNCHANGED sessions443
    /\ UNCHANGED <<toWorker, reports>>
    /\ WorkerUnchanged

-----------------------------------------------------------------------------
Step(r) ==
    \/ PayloadKeys(r)
    \/ Spawned(r)
    \/ MutexLost(r)
    \/ Record(r)
    \/ Respond(r)

PortPairWorker(r) ==
    \/ WorkerStarts(r)
    \/ TakeStart(r)
    \/ Bound(r)
    \/ BindFails(r)
    \/ TakeStop(r)

SinglePortWorker ==
    TakeStart443 \/ TakeEndSession443 \/ TakeStop443 \/ CloseAll443 \/ Exit443

ReceiveFrom(w) ==
    \/ w # W443 /\ (ReceiveSendPort(w) \/ ReceivePorts(w))
    \/ ReceiveSigningKey(w)
    \/ ReceiveNewConnection(w)
    \/ ReceiveSessionComplete(w)
    \/ ReceiveExit(w)

Recheck(k) == NotWithdrawn(k) \/ Withdrawn(k)

Next ==
    \/ \E r \in Requests :
          \/ HandleRequestPorts(r) \/ Step(r) \/ SpawnTimesOut(r)
          \/ LoggingArrives(r) \/ LoggingValidated(r)
          \/ NewConnection(r) \/ ConnectorDone(r)
          \/ \E k \in Keys : SocketVerified(r, k)
    \/ \E r \in Requests : PortPairWorker(r)
    \/ SinglePortWorker
    \/ \E w \in Workers : ReceiveFrom(w) \/ KillWorker(w)
    \/ \E k \in Keys : Recheck(k) \/ KeyWithdrawn(k)
    \/ CheckSigningKeys \/ Stop \/ StopWorkers \/ StopReturns

Spec == Init /\ [][Next]_vars

\* Handlers, timers and isolates go on; messages between isolates arrive; a
\* lookup ends, and one that could succeed does not fail for ever; a
\* connector that is closed is done.
Fairness ==
    /\ \A r \in Requests :
          /\ WF_vars(Step(r) \/ SpawnTimesOut(r))
          /\ WF_vars(ConnectorDone(r) /\ connector[r] = "closing")
    /\ \A r \in Requests : WF_vars(PortPairWorker(r))
    /\ WF_vars(SinglePortWorker)
    /\ \A w \in Workers : WF_vars(ReceiveFrom(w)) /\ WF_vars(KillWorker(w))
    /\ \A k \in Keys :
          /\ WF_vars(Recheck(k))
          /\ SF_vars(Withdrawn(k))
    /\ WF_vars(CheckSigningKeys)
    /\ WF_vars(StopWorkers)
    /\ WF_vars(StopReturns)

FairSpec == Spec /\ Fairness

-----------------------------------------------------------------------------
(* Properties *)

\* The client has its answer and the ports are open.
Serving(r) == pc[r] \in {"responding", "answered"} /\ connector[r] = "open"

\* Every session that serves a client is recorded, until the relay stops.
\* checkSigningKeys looks at recorded sessions only, and a session id is free
\* when no session is recorded under it.
LiveSessionIsRecorded ==
    \A r \in Requests : Serving(r) /\ stopping = "no" => Recorded(r)

\* The worker of a request that was given up, which main no longer knows of,
\* reports its end under the id of the request.
GivenUp(x) == \E r \in Requests : SessionOf[r] = x /\ pc[r] \in {"timedOut", "lost"}

\* A serving session drops out of the record for one reason only: a request
\* with its id was given up after its worker had been spawned.
OnlyGivenUpWorkersHide ==
    \A r \in Requests :
        Serving(r) /\ stopping = "no" => Recorded(r) \/ GivenUp(SessionOf[r])

\* What is recorded goes: once its connector is done, the message that makes
\* main forget the session is on its way, unless it came before the record.
NoStaleRecord ==
    \A r \in Requests :
        Recorded(r) /\ connector[r] = "closed" => CompletePending(r) \/ r \in recordedLate

\* "connected" has been logged when a session has both a connection and a
\* logging configuration, whichever came first, and not before; again only for
\* another configuration that was being validated at the same time.
ConnectedIsLogged ==
    \A r \in Requests :
        IF r \in stats \cap logging THEN connectedEvents[r] \in 1..MaxLogging
        ELSE connectedEvents[r] = 0

\* A session ends when a key its sockets were accepted with is withdrawn,
\* whether it has a worker of its own or shares port 443.
WithdrawnSessionEnds ==
    \A r \in Requests, k \in Keys :
        Recorded(r) /\ k \in signingKeys[r] /\ k \in withdrawn
        ~> connector[r] # "open" \/ ~Recorded(r) \/ stopping # "no"

\* stop() returns and every isolate ends, also one spawned for a request that
\* was being handled when stop() began.
StopEndsEveryWorker ==
    stopping # "no" ~> stopping = "done" /\ [](\A w \in Workers : ~Alive(w))

\* No session id stays among those being started.
StartingEnds ==
    \A x \in SessionIds : x \in startingSessions ~> x \notin startingSessions
=============================================================================
