----------------------------- MODULE SrvdProofs -----------------------------
(***************************************************************************)
(* Proofs about srvd: the record of sessions and the logging of their      *)
(* first connections (RelaySessions), and the stream of tokens of a socket *)
(* through its authentication (RelayAuthAuto).                             *)
(*                                                                         *)
(* The record depends on little: a connector that is done has said so, and *)
(* of what workers say main loses nothing but what it takes.               *)
(*                                                                         *)
(* The stream needs to know, for every connection whose peer would verify, *)
(* where its authentication has got to (Phase) and that the chunks waiting *)
(* for the mutex are the next ones, in order and without a gap (QueueIs).  *)
(***************************************************************************)
EXTENDS RelaySessions, RelayAuthAuto, SequenceTheorems, TLAPS

-----------------------------------------------------------------------------
(* The record of sessions *)

\* What workers say: only an exit is of no request.
MainMessages == {m \in Messages(ToMainTypes) : m.type = "exit" \/ m.req \in Requests}

\* What the record is made of: the sessions, their connectors, and what the
\* workers say.
RecordTyped ==
    /\ sessions \in [SessionIds -> Requests \cup {NoRequest}]
    /\ connector \in [Requests -> {"none", "open", "closing", "closed"}]
    /\ toMain \in [Workers -> Seq(MainMessages)]

RecordInv == RecordTyped /\ NoStaleRecord

\* What the record depends on.
recordState == <<only443, sessions, recordedLate, connector, toMain>>

\* A worker is known to main.
LEMMA WorkerOfIsWorker == \A r \in Requests : WorkerOf(r) \in Workers
  BY DEF WorkerOf, Workers

\* A worker's message is behind those it sent before.
LEMMA TellKeepsPending ==
    ASSUME RecordTyped, NEW w \in Workers, NEW ms \in Seq(MainMessages), Tell(w, ms),
           only443' = only443
    PROVE  /\ toMain' \in [Workers -> Seq(MainMessages)]
           /\ toMain'[w] = toMain[w] \o ms
           /\ \A r \in Requests : CompletePending(r) => CompletePending(r)'
  <1>1. toMain \in [Workers -> Seq(MainMessages)]
    BY DEF RecordTyped
  <1>2. toMain' = [toMain EXCEPT ![w] = @ \o ms]
    BY DEF Tell
  <1>. DEFINE M == MainMessages
  <1>3. ms \in Seq(M) /\ toMain \in [Workers -> Seq(M)]
    BY <1>1
  <1>. HIDE DEF M
  <1>4. toMain[w] \o ms \in Seq(M)
    BY <1>3, ConcatProperties
  <1>5. toMain' \in [Workers -> Seq(M)] /\ toMain'[w] = toMain[w] \o ms
    BY <1>2, <1>3, <1>4
  <1>6. ASSUME NEW r \in Requests, CompletePending(r) PROVE CompletePending(r)'
    <2>. DEFINE v == WorkerOf(r)
    <2>1. v \in Workers /\ WorkerOf(r)' = v
      BY WorkerOfIsWorker DEF WorkerOf
    <2>2. PICK n \in DOMAIN toMain[v] : toMain[v][n] = Message("sessionComplete", r)
      BY <1>6 DEF CompletePending
    <2>. HIDE DEF v
    <2>3. CASE v = w
      <3>1. /\ Len(toMain[w] \o ms) = Len(toMain[w]) + Len(ms) /\ Len(ms) \in Nat /\ Len(toMain[w]) \in Nat
            /\ \A i \in 1 .. Len(toMain[w]) + Len(ms) :
                  (toMain[w] \o ms)[i] = IF i <= Len(toMain[w]) THEN toMain[w][i]
                                         ELSE ms[i - Len(toMain[w])]
            /\ DOMAIN toMain[w] = 1 .. Len(toMain[w])
            /\ DOMAIN (toMain[w] \o ms) = 1 .. Len(toMain[w] \o ms)
        BY <1>3, <1>4, ConcatProperties, LenProperties
      <3>2. /\ n \in 1 .. Len(toMain[w]) /\ n <= Len(toMain[w]) /\ n \in 1 .. Len(toMain[w]) + Len(ms)
        BY <2>2, <2>3, <3>1
      <3>3. n \in DOMAIN toMain'[v] /\ toMain'[v][n] = toMain[v][n]
        BY <1>5, <2>3, <3>1, <3>2
      <3>. QED  BY <2>1, <2>2, <3>3 DEF CompletePending, Message, v
    <2>4. CASE v # w
      <3>1. toMain'[v] = toMain[v]
        BY <1>2, <1>3, <2>1, <2>4
      <3>. QED  BY <2>1, <2>2, <3>1 DEF CompletePending, Message, v
    <2>. QED  BY <2>3, <2>4
  <1>. QED  BY <1>5, <1>6 DEF M

\* A message that main takes is the only one that goes.
LEMMA ReceiveKeepsPending ==
    ASSUME RecordTyped, NEW w \in Workers, NEW type, Receive(w, type), only443' = only443
    PROVE  /\ toMain' \in [Workers -> Seq(MainMessages)]
           /\ Head(toMain[w]) \in MainMessages /\ Head(toMain[w]).type = type
           /\ \A r \in Requests :
                 /\ CompletePending(r)
                 /\ Head(toMain[w]) # Message("sessionComplete", r)
                 => CompletePending(r)'
  <1>. DEFINE M == MainMessages  q == toMain[w]
  <1>1. /\ toMain \in [Workers -> Seq(M)] /\ q # <<>> /\ toMain' = [toMain EXCEPT ![w] = Tail(@)]
        /\ Head(q).type = type
    BY DEF RecordTyped, Receive
  <1>. HIDE DEF M
  <1>2. q \in Seq(M)
    BY <1>1
  <1>. HIDE DEF q
  <1>3. /\ Head(q) \in M /\ Tail(q) \in Seq(M) /\ q[1] = Head(q)
        /\ Len(q) \in Nat \ {0} /\ Len(Tail(q)) = Len(q) - 1
        /\ DOMAIN q = 1 .. Len(q) /\ DOMAIN Tail(q) = 1 .. Len(Tail(q))
        /\ \A i \in 1 .. Len(Tail(q)) : Tail(q)[i] = q[i + 1]
    BY <1>1, <1>2, HeadTailProperties, EmptySeq, LenProperties
  <1>4. toMain' \in [Workers -> Seq(M)] /\ toMain'[w] = Tail(q)
    BY <1>1, <1>3 DEF q
  <1>5. ASSUME NEW r \in Requests, CompletePending(r), Head(q) # Message("sessionComplete", r)
        PROVE  CompletePending(r)'
    <2>. DEFINE v == WorkerOf(r)
    <2>1. v \in Workers /\ WorkerOf(r)' = v
      BY WorkerOfIsWorker DEF WorkerOf
    <2>2. PICK n \in DOMAIN toMain[v] : toMain[v][n] = Message("sessionComplete", r)
      BY <1>5 DEF CompletePending
    <2>. HIDE DEF v
    <2>3. CASE v = w
      <3>1. n \in 1 .. Len(q) /\ q[n] = Message("sessionComplete", r) /\ n # 1
        BY <1>3, <1>5, <2>2, <2>3 DEF q
      <3>2. n - 1 \in 1 .. Len(Tail(q)) /\ (n - 1) + 1 = n
        BY <1>3, <3>1
      <3>3. n - 1 \in DOMAIN Tail(q) /\ Tail(q)[n - 1] = Message("sessionComplete", r)
        BY <1>3, <3>1, <3>2
      <3>. QED  BY <1>4, <2>1, <2>3, <3>3 DEF CompletePending, Message, v
    <2>4. CASE v # w
      <3>1. toMain'[v] = toMain[v]
        BY <1>1, <2>1, <2>4
      <3>. QED  BY <2>1, <2>2, <3>1 DEF CompletePending, Message, v
    <2>. QED  BY <2>3, <2>4
  <1>. QED  BY <1>1, <1>3, <1>4, <1>5 DEF M, q

\* A step that adds nothing to the record and ends no connector, and takes no
\* news of the end of one.
LEMMA RecordStays ==
    ASSUME RecordInv, RecordTyped', only443' = only443,
           \A r \in Requests : Recorded(r)' => Recorded(r),
           \A r \in Requests : connector'[r] = "closed" => connector[r] = "closed",
           \A r \in Requests : CompletePending(r) => CompletePending(r)',
           recordedLate \subseteq recordedLate'
    PROVE  RecordInv'
  BY DEF RecordInv, NoStaleRecord

\* The record when a worker says something else than that a session ended.
LEMMA TellKeepsRecord ==
    ASSUME RecordInv, NEW w \in Workers, NEW ms \in Seq(MainMessages), Tell(w, ms),
           only443' = only443, sessions' = sessions, recordedLate' = recordedLate,
           connector' \in [Requests -> {"none", "open", "closing", "closed"}],
           \A r \in Requests : connector'[r] = "closed" => connector[r] = "closed"
    PROVE  RecordInv'
  <1>1. RecordTyped
    BY DEF RecordInv
  <1>2. /\ toMain' \in [Workers -> Seq(MainMessages)]
        /\ \A r \in Requests : CompletePending(r) => CompletePending(r)'
    BY <1>1, TellKeepsPending
  <1>3. RecordTyped'
    BY <1>1, <1>2 DEF RecordTyped
  <1>4. \A r \in Requests : Recorded(r)' => Recorded(r)
    BY DEF Recorded
  <1>. QED  BY <1>2, <1>3, <1>4, RecordStays

\* The record when main takes another message than that a session ended.
LEMMA ReceiveKeepsRecord ==
    ASSUME RecordInv, NEW w \in Workers, NEW type, Receive(w, type), type # "sessionComplete",
           only443' = only443, sessions' = sessions, recordedLate' = recordedLate,
           connector' = connector
    PROVE  RecordInv'
  <1>1. RecordTyped
    BY DEF RecordInv
  <1>2. /\ toMain' \in [Workers -> Seq(MainMessages)]
        /\ Head(toMain[w]).type = type
        /\ \A r \in Requests :
              CompletePending(r) /\ Head(toMain[w]) # Message("sessionComplete", r)
              => CompletePending(r)'
    BY <1>1, ReceiveKeepsPending
  <1>3. \A r \in Requests : Message("sessionComplete", r).type = "sessionComplete"
    BY DEF Message
  <1>4. \A r \in Requests : CompletePending(r) => CompletePending(r)'
    BY <1>2, <1>3
  <1>5. RecordTyped'
    BY <1>1, <1>2 DEF RecordTyped
  <1>6. \A r \in Requests : Recorded(r)' => Recorded(r)
    BY DEF Recorded
  <1>. QED  BY <1>4, <1>5, <1>6, RecordStays

\* The record when connectors only open or begin to close.
LEMMA ConnectorsKeepRecord ==
    ASSUME RecordInv, only443' = only443, sessions' = sessions, recordedLate' = recordedLate,
           toMain' = toMain,
           connector' \in [Requests -> {"none", "open", "closing", "closed"}],
           \A r \in Requests : connector'[r] = "closed" => connector[r] = "closed"
    PROVE  RecordInv'
  <1>1. RecordTyped
    BY DEF RecordInv
  <1>2. RecordTyped'
    BY <1>1 DEF RecordTyped
  <1>3. \A r \in Requests : Recorded(r)' => Recorded(r)
    BY DEF Recorded
  <1>4. \A r \in Requests : CompletePending(r) => CompletePending(r)'
    BY DEF CompletePending, WorkerOf, Message
  <1>. QED  BY <1>2, <1>3, <1>4, RecordStays

\* Single messages to main.
LEMMA Said ==
    /\ \A type \in ToMainTypes, r \in Requests : <<Message(type, r)>> \in Seq(MainMessages)
    /\ <<Message("exit", NoRequest)>> \in Seq(MainMessages)
    /\ \A r \in Requests, k \in Keys : <<SigningKeyMessage(r, k)>> \in Seq(MainMessages)
  <1>1. \A type \in ToMainTypes, r \in Requests : Message(type, r) \in MainMessages
    BY DEF Message, Messages, MainMessages
  <1>2. Message("exit", NoRequest) \in MainMessages
    BY DEF Message, Messages, MainMessages, ToMainTypes
  <1>3. \A r \in Requests, k \in Keys : SigningKeyMessage(r, k) \in MainMessages
    BY DEF SigningKeyMessage, Messages, ToMainTypes, MainMessages
  <1>4. \A m \in MainMessages : <<m>> \in Seq(MainMessages)
    OBVIOUS
  <1>. QED  BY <1>1, <1>2, <1>3, <1>4

\* A request is recorded: late, if main has forgotten the end of its connector.
LEMMA RecordKeepsRecord ==
    ASSUME RecordInv, NEW r \in Requests, Record(r)
    PROVE  RecordInv'
  <1>1. RecordTyped /\ SessionOf \in [Requests -> SessionIds]
    BY RelaySessionsAssumption DEF RecordInv
  <1>2. only443' = only443 /\ connector' = connector /\ toMain' = toMain
    BY DEF Record, given, workerVars
  <1>3. \A s \in Requests : CompletePending(s) <=> CompletePending(s)'
    BY <1>2 DEF CompletePending, WorkerOf, Message
  <1>4. \/ sessions' = sessions /\ recordedLate' = recordedLate
        \/ /\ sessions' = [sessions EXCEPT ![SessionOf[r]] = r]
           /\ recordedLate \subseteq recordedLate'
           /\ connector[r] = "closed" /\ ~CompletePending(r) => r \in recordedLate'
    BY DEF Record, recordVars
  <1>5. RecordTyped'
    BY <1>1, <1>2, <1>4 DEF RecordTyped
  <1>6. ASSUME NEW s \in Requests, Recorded(s)', connector'[s] = "closed"
        PROVE  CompletePending(s)' \/ s \in recordedLate'
    <2>1. CASE s = r /\ sessions' # sessions
      BY <1>2, <1>3, <1>4, <1>6, <2>1
    <2>2. CASE ~(s = r /\ sessions' # sessions)
      <3>1. Recorded(s)
        BY <1>1, <1>4, <1>6, <2>2 DEF Recorded, RecordTyped
      <3>. QED  BY <1>2, <1>3, <1>4, <1>6, <3>1 DEF RecordInv, NoStaleRecord
    <2>. QED  BY <2>1, <2>2
  <1>. QED  BY <1>5, <1>6 DEF RecordInv, NoStaleRecord

\* A connector is done, and says so.
LEMMA ConnectorDoneKeepsRecord ==
    ASSUME RecordInv, NEW r \in Requests, ConnectorDone(r)
    PROVE  RecordInv'
  <1>. DEFINE m == Message("sessionComplete", r)  x == Message("exit", NoRequest)  w == WorkerOf(r)
              ms == IF r \in only443 THEN <<m>> ELSE <<m, x>>
  <1>1. RecordTyped
    BY DEF RecordInv
  <1>2. /\ only443' = only443 /\ sessions' = sessions /\ recordedLate' = recordedLate
        /\ connector' = [connector EXCEPT ![r] = "closed"]
    BY DEF ConnectorDone, WorkerUnchanged, given, recordVars
  <1>3. Tell(w, ms)
    BY DEF ConnectorDone, WorkerOf
  <1>4. m \in MainMessages /\ x \in MainMessages
    BY DEF Message, Messages, ToMainTypes, MainMessages
  <1>5. ms \in Seq(MainMessages) /\ Len(ms) \in Nat \ {0} /\ ms[1] = m /\ w \in Workers
    <2>. DEFINE M == MainMessages
    <2>1. m \in M /\ x \in M
      BY <1>4
    <2>2. w \in Workers
      BY WorkerOfIsWorker
    <2>. HIDE DEF M, m, x, w
    <2>3. /\ <<m>> \in Seq(M) /\ Len(<<m>>) = 1 /\ <<m>>[1] = m
          /\ <<m, x>> \in Seq(M) /\ Len(<<m, x>>) = 2 /\ <<m, x>>[1] = m
      BY <2>1
    <2>. QED  BY <2>2, <2>3 DEF M
  <1>. HIDE DEF ms, x
  <1>6. /\ toMain' \in [Workers -> Seq(MainMessages)]
        /\ toMain'[w] = toMain[w] \o ms
        /\ \A s \in Requests : CompletePending(s) => CompletePending(s)'
    <2>. HIDE DEF w
    <2>. QED  BY <1>1, <1>2, <1>3, <1>5, TellKeepsPending
  <1>7. CompletePending(r)'
    <2>. DEFINE q == toMain[w]  M == MainMessages
    <2>1. q \in Seq(M) /\ ms \in Seq(M)
      BY <1>1, <1>5 DEF RecordTyped
    <2>. HIDE DEF q, M
    <2>2. /\ q \o ms \in Seq(M) /\ Len(q) \in Nat /\ Len(q \o ms) = Len(q) + Len(ms)
          /\ \A i \in 1 .. Len(q) + Len(ms) :
                (q \o ms)[i] = IF i <= Len(q) THEN q[i] ELSE ms[i - Len(q)]
      BY <2>1, ConcatProperties, LenProperties
    <2>3. DOMAIN (q \o ms) = 1 .. Len(q) + Len(ms)
      BY <2>2, LenProperties
    <2>4. /\ Len(q) + 1 \in 1 .. Len(q) + Len(ms) /\ ~(Len(q) + 1 <= Len(q))
          /\ (Len(q) + 1) - Len(q) = 1
      BY <1>5, <2>2
    <2>5. Len(q) + 1 \in DOMAIN (q \o ms) /\ (q \o ms)[Len(q) + 1] = m
      BY <1>5, <2>2, <2>3, <2>4
    <2>6. WorkerOf(r)' = w
      BY <1>2 DEF WorkerOf
    <2>7. \E n \in DOMAIN toMain'[w] : toMain'[w][n] = m
      BY <1>6, <2>5 DEF q
    <2>. HIDE DEF w
    <2>. QED  BY <2>6, <2>7 DEF CompletePending, Message, m
  <1>8. RecordTyped'
    BY <1>1, <1>2, <1>6 DEF RecordTyped
  <1>9. ASSUME NEW s \in Requests, Recorded(s)', connector'[s] = "closed"
        PROVE  CompletePending(s)' \/ s \in recordedLate'
    <2>1. CASE s = r
      BY <1>7, <2>1
    <2>2. CASE s # r
      <3>1. connector[s] = "closed" /\ Recorded(s)
        BY <1>1, <1>2, <1>9, <2>2 DEF RecordTyped, Recorded
      <3>. QED  BY <1>2, <1>6, <3>1 DEF RecordInv, NoStaleRecord
    <2>. QED  BY <2>1, <2>2
  <1>. QED  BY <1>8, <1>9 DEF RecordInv, NoStaleRecord

\* Main hears of the end of a session and forgets it.
LEMMA CompleteKeepsRecord ==
    ASSUME RecordInv, NEW w \in Workers, ReceiveSessionComplete(w)
    PROVE  RecordInv'
  <1>. DEFINE m == Head(toMain[w])
  <1>1. RecordTyped /\ SessionOf \in [Requests -> SessionIds] /\ NoRequest \notin Requests
    BY RelaySessionsAssumption DEF RecordInv
  <1>2. /\ only443' = only443 /\ recordedLate' = recordedLate /\ connector' = connector
        /\ sessions' = [sessions EXCEPT ![SessionOf[m.req]] = NoRequest]
        /\ Receive(w, "sessionComplete")
    BY DEF ReceiveSessionComplete, given, workerVars
  <1>3. /\ toMain' \in [Workers -> Seq(MainMessages)]
        /\ \A r \in Requests :
              CompletePending(r) /\ m # Message("sessionComplete", r) => CompletePending(r)'
    BY <1>1, <1>2, ReceiveKeepsPending
  <1>. HIDE DEF m
  <1>4. RecordTyped'
    BY <1>1, <1>2, <1>3 DEF RecordTyped
  <1>5. ASSUME NEW r \in Requests, Recorded(r)', connector'[r] = "closed"
        PROVE  CompletePending(r)' \/ r \in recordedLate'
    <2>1. SessionOf[r] # SessionOf[m.req] /\ Recorded(r)
      BY <1>1, <1>2, <1>5 DEF Recorded, RecordTyped
    <2>2. m # Message("sessionComplete", r)
      BY <2>1 DEF Message
    <2>. QED  BY <1>2, <1>3, <1>5, <2>1, <2>2 DEF RecordInv, NoStaleRecord
  <1>. QED  BY <1>4, <1>5 DEF RecordInv, NoStaleRecord

\* stop() returns and forgets every session.
LEMMA StopKeepsRecord == ASSUME RecordInv, StopReturns PROVE RecordInv'
  <1>1. RecordTyped /\ SessionOf \in [Requests -> SessionIds] /\ NoRequest \notin Requests
    BY RelaySessionsAssumption DEF RecordInv
  <1>2. /\ sessions' = [x \in SessionIds |-> NoRequest] /\ connector' = connector /\ toMain' = toMain
    BY DEF StopReturns, workerVars, channels
  <1>3. \A r \in Requests : ~Recorded(r)'
    BY <1>1, <1>2 DEF Recorded
  <1>4. RecordTyped'
    BY <1>1, <1>2 DEF RecordTyped
  <1>. QED  BY <1>3, <1>4 DEF RecordInv, NoStaleRecord

\* Every step keeps what is known of the record.
LEMMA RecordSteps == RecordInv /\ [Next]_vars => RecordInv'
  <1>. SUFFICES ASSUME RecordInv, [Next]_vars PROVE RecordInv'
    OBVIOUS
  <1>. USE DEF given, recordVars, workerVars, channels, WorkerUnchanged
  <1>0. RecordTyped
    BY DEF RecordInv
  <1>1. ASSUME UNCHANGED recordState PROVE RecordInv'
    BY <1>1, ConnectorsKeepRecord, <1>0 DEF recordState, RecordTyped
  <1>2. ASSUME NEW r \in Requests,
               \/ HandleRequestPorts(r) \/ PayloadKeys(r) \/ Spawned(r) \/ MutexLost(r) \/ Respond(r)
               \/ SpawnTimesOut(r) \/ LoggingArrives(r) \/ LoggingValidated(r) \/ TakeStart(r)
        PROVE  RecordInv'
    <2>1. UNCHANGED recordState
      BY <1>2 DEF HandleRequestPorts, PayloadKeys, Spawned, MutexLost, Respond, SpawnTimesOut,
                  LoggingArrives, LoggingValidated, TakeStart, recordState
    <2>. QED  BY <1>1, <2>1
  <1>3. ASSUME NEW r \in Requests, NewConnection(r) \/ (\E k \in Keys : SocketVerified(r, k))
        PROVE  RecordInv'
    <2>1. PICK ms \in Seq(MainMessages) : Tell(WorkerOf(r), ms)
      BY <1>3, Said DEF NewConnection, SocketVerified, ToMainTypes
    <2>2. /\ only443' = only443 /\ sessions' = sessions /\ recordedLate' = recordedLate
          /\ connector' = connector
      BY <1>3 DEF NewConnection, SocketVerified
    <2>3. WorkerOf(r) \in Workers
      BY WorkerOfIsWorker
    <2>. QED  BY <1>0, <2>1, <2>2, <2>3, TellKeepsRecord DEF RecordTyped
  <1>4. ASSUME NEW r \in Requests, WorkerStarts(r) \/ Bound(r) \/ BindFails(r) PROVE RecordInv'
    <2>1. PICK ms \in Seq(MainMessages) : Tell(r, ms)
      BY <1>4, Said DEF WorkerStarts, Bound, BindFails, ToMainTypes
    <2>2. /\ only443' = only443 /\ sessions' = sessions /\ recordedLate' = recordedLate
          /\ connector' \in {connector, [connector EXCEPT ![r] = "open"]}
      BY <1>4 DEF WorkerStarts, Bound, BindFails
    <2>3. /\ connector' \in [Requests -> {"none", "open", "closing", "closed"}]
          /\ \A s \in Requests : connector'[s] = "closed" => connector[s] = "closed"
      BY <1>0, <2>2 DEF RecordTyped
    <2>4. r \in Workers
      BY DEF Workers
    <2>. QED  BY <2>1, <2>2, <2>3, <2>4, TellKeepsRecord
  <1>5. ASSUME NEW S, connector' = Closed(S)
        PROVE  /\ connector' \in [Requests -> {"none", "open", "closing", "closed"}]
               /\ \A s \in Requests : connector'[s] = "closed" => connector[s] = "closed"
    BY <1>0, <1>5 DEF RecordTyped, Closed
  <1>6. ASSUME NEW r \in Requests, TakeStop(r) PROVE RecordInv'
    <2>1. /\ only443' = only443 /\ sessions' = sessions /\ recordedLate' = recordedLate
          /\ connector' = Closed({r})
      BY <1>6 DEF TakeStop
    <2>2. /\ connector' \in [Requests -> {"none", "open", "closing", "closed"}]
          /\ \A s \in Requests : connector'[s] = "closed" => connector[s] = "closed"
      BY <1>5, <2>1
    <2>3. \/ toMain' = toMain
          \/ Tell(r, <<Message("exit", NoRequest)>>)
      BY <1>6 DEF TakeStop
    <2>4. <<Message("exit", NoRequest)>> \in Seq(MainMessages) /\ r \in Workers
      BY Said DEF Workers, ToMainTypes
    <2>. QED  BY <2>1, <2>2, <2>3, <2>4, TellKeepsRecord, ConnectorsKeepRecord
  <1>7. ASSUME SinglePortWorker PROVE RecordInv'
    <2>1. CASE TakeStart443
      <3>1. /\ only443' = only443 /\ sessions' = sessions /\ recordedLate' = recordedLate
            /\ toMain' = toMain
        BY <2>1 DEF TakeStart443
      <3>2. \E r : connector' \in {connector, [connector EXCEPT ![r] = "open"]}
        BY <2>1 DEF TakeStart443
      <3>3. /\ connector' \in [Requests -> {"none", "open", "closing", "closed"}]
            /\ \A s \in Requests : connector'[s] = "closed" => connector[s] = "closed"
        BY <1>0, <3>2 DEF RecordTyped
      <3>. QED  BY <3>1, <3>3, ConnectorsKeepRecord
    <2>2. CASE TakeEndSession443 \/ CloseAll443
      <3>1. /\ only443' = only443 /\ sessions' = sessions /\ recordedLate' = recordedLate
            /\ toMain' = toMain /\ \E S : connector' = Closed(S)
        BY <2>2 DEF TakeEndSession443, CloseAll443
      <3>2. /\ connector' \in [Requests -> {"none", "open", "closing", "closed"}]
            /\ \A s \in Requests : connector'[s] = "closed" => connector[s] = "closed"
        BY <1>5, <3>1
      <3>. QED  BY <3>1, <3>2, ConnectorsKeepRecord
    <2>3. CASE TakeStop443
      BY <1>1, <2>3 DEF TakeStop443, recordState
    <2>4. CASE Exit443
      <3>1. /\ only443' = only443 /\ sessions' = sessions /\ recordedLate' = recordedLate
            /\ connector' = connector /\ Tell(W443, <<Message("exit", NoRequest)>>)
        BY <2>4 DEF Exit443
      <3>2. <<Message("exit", NoRequest)>> \in Seq(MainMessages) /\ W443 \in Workers
        BY Said DEF Workers, ToMainTypes
      <3>. QED  BY <1>0, <3>1, <3>2, TellKeepsRecord DEF RecordTyped
    <2>. QED  BY <1>7, <2>1, <2>2, <2>3, <2>4 DEF SinglePortWorker
  <1>8. ASSUME NEW w \in Workers, ReceiveFrom(w) PROVE RecordInv'
    <2>1. CASE ReceiveSessionComplete(w)
      BY <2>1, CompleteKeepsRecord
    <2>2. CASE ~ReceiveSessionComplete(w)
      <3>1. PICK type \in {"sendPort", "ports", "signingKey", "newConnection", "exit"} : Receive(w, type)
        BY <1>8, <2>2 DEF ReceiveFrom, ReceiveSendPort, ReceivePorts, ReceiveSigningKey,
                          ReceiveNewConnection, ReceiveExit
      <3>2. /\ only443' = only443 /\ sessions' = sessions /\ recordedLate' = recordedLate
            /\ connector' = connector
        BY <1>8, <2>2 DEF ReceiveFrom, ReceiveSendPort, ReceivePorts, ReceiveSigningKey,
                          ReceiveNewConnection, ReceiveExit
      <3>. QED  BY <3>1, <3>2, ReceiveKeepsRecord
    <2>. QED  BY <2>1, <2>2
  <1>9. ASSUME NEW w \in Workers, KillWorker(w) PROVE RecordInv'
    <2>1. /\ only443' = only443 /\ sessions' = sessions /\ recordedLate' = recordedLate
          /\ connector' = connector /\ Tell(w, <<Message("exit", NoRequest)>>)
      BY <1>9 DEF KillWorker
    <2>2. <<Message("exit", NoRequest)>> \in Seq(MainMessages)
      BY Said DEF ToMainTypes
    <2>. QED  BY <1>0, <2>1, <2>2, TellKeepsRecord DEF RecordTyped
  <1>10. ASSUME NEW k \in Keys, Recheck(k) \/ KeyWithdrawn(k) PROVE RecordInv'
    <2>1. UNCHANGED recordState
      BY <1>10 DEF Recheck, NotWithdrawn, Withdrawn, RecheckEnds, KeyWithdrawn, recordState
    <2>. QED  BY <1>1, <2>1
  <1>11. ASSUME CheckSigningKeys \/ Stop \/ StopWorkers PROVE RecordInv'
    <2>1. UNCHANGED recordState
      BY <1>11 DEF CheckSigningKeys, Stop, StopWorkers, recordState
    <2>. QED  BY <1>1, <2>1
  <1>12. CASE Next
    BY <1>2, <1>3, <1>4, <1>6, <1>7, <1>8, <1>9, <1>10, <1>11, <1>12, RecordKeepsRecord,
       ConnectorDoneKeepsRecord, StopKeepsRecord DEF Next, Step, PortPairWorker
  <1>13. CASE UNCHANGED vars
    BY <1>1, <1>13 DEF vars, recordState
  <1>. QED  BY <1>12, <1>13

\* Nothing is recorded when the relay starts.
LEMMA RecordInitially == Init => RecordInv
  <1>. SUFFICES ASSUME Init PROVE RecordInv
    OBVIOUS
  <1>1. RecordTyped
    BY DEF Init, RecordTyped
  <1>2. \A r \in Requests : ~Recorded(r)
    BY RelaySessionsAssumption DEF Init, Recorded
  <1>. QED  BY <1>1, <1>2 DEF RecordInv, NoStaleRecord

\* A session whose connector is done does not stay recorded: the message that
\* makes main forget it is on its way, unless it was handled before the session
\* was recorded.  Whatever the workers do, however their messages interleave.
THEOREM NoRecordStaysStale == Spec => []NoStaleRecord
  <1>1. RecordInv => NoStaleRecord
    BY DEF RecordInv
  <1>. QED  BY <1>1, RecordInitially, RecordSteps, PTL DEF Spec

-----------------------------------------------------------------------------
(* The logging of "connected" *)

\* Every configuration whose validation has not ended may log it once more.
LoggingInv ==
    /\ stats \subseteq Requests /\ logging \subseteq Requests
    /\ validating \in [Requests -> 0 .. MaxLogging]
    /\ connectedEvents \in [Requests -> Nat]
    /\ \A r \in Requests :
          /\ r \in logging => validating[r] < MaxLogging
          /\ r \in stats \cap logging => 1 <= connectedEvents[r]
                                         /\ connectedEvents[r] + validating[r] <= MaxLogging
          /\ r \notin stats \cap logging => connectedEvents[r] = 0

\* Every step keeps that.
LEMMA LoggingSteps == LoggingInv /\ RecordInv /\ [Next]_vars => LoggingInv'
  <1>. SUFFICES ASSUME LoggingInv, RecordInv, [Next]_vars PROVE LoggingInv'
    OBVIOUS
  <1>. USE DEF infoVars, loggingVars, WorkerUnchanged
  <1>0. MaxLogging \in Nat /\ SessionOf \in [Requests -> SessionIds]
    BY RelaySessionsAssumption
  <1>1. ASSUME UNCHANGED loggingVars PROVE LoggingInv'
    BY <1>1 DEF LoggingInv
  <1>2. ASSUME NEW r \in Requests, LoggingArrives(r) PROVE LoggingInv'
    <2>1. /\ r \notin logging /\ validating[r] < MaxLogging
          /\ validating' = [validating EXCEPT ![r] = @ + 1]
          /\ stats' = stats /\ logging' = logging /\ connectedEvents' = connectedEvents
      BY <1>2 DEF LoggingArrives
    <2>2. validating' \in [Requests -> 0 .. MaxLogging]
      BY <1>0, <2>1 DEF LoggingInv
    <2>3. \A s \in logging : validating'[s] = validating[s]
      BY <2>1 DEF LoggingInv
    <2>. QED  BY <2>1, <2>2, <2>3 DEF LoggingInv
  <1>3. ASSUME NEW r \in Requests, LoggingValidated(r) PROVE LoggingInv'
    <2>1. /\ validating[r] > 0 /\ validating' = [validating EXCEPT ![r] = @ - 1] /\ stats' = stats
          /\ \/ logging' = logging /\ connectedEvents' = connectedEvents
             \/ /\ logging' = logging \cup {r}
                /\ connectedEvents' = IF r \in stats THEN [connectedEvents EXCEPT ![r] = @ + 1]
                                      ELSE connectedEvents
      BY <1>3 DEF LoggingValidated
    <2>2. validating' \in [Requests -> 0 .. MaxLogging] /\ validating'[r] = validating[r] - 1
      BY <1>0, <2>1 DEF LoggingInv
    <2>3. connectedEvents' \in [Requests -> Nat] /\ logging' \subseteq Requests
      BY <2>1 DEF LoggingInv
    <2>4. ASSUME NEW s \in Requests, s # r
          PROVE  /\ validating'[s] = validating[s] /\ connectedEvents'[s] = connectedEvents[s]
                 /\ s \in logging' <=> s \in logging
      BY <2>1, <2>4 DEF LoggingInv
    <2>5. /\ validating[r] \in 0 .. MaxLogging /\ connectedEvents[r] \in Nat
          /\ r \in logging => validating[r] < MaxLogging
          /\ r \in stats \cap logging => 1 <= connectedEvents[r]
                                         /\ connectedEvents[r] + validating[r] <= MaxLogging
          /\ r \notin stats \cap logging => connectedEvents[r] = 0
      BY DEF LoggingInv
    <2>6. \/ (r \in logging' <=> r \in logging) /\ connectedEvents'[r] = connectedEvents[r]
          \/ r \in logging' /\ r \in stats /\ connectedEvents'[r] = connectedEvents[r] + 1
          \/ r \in logging' /\ r \notin stats /\ connectedEvents'[r] = connectedEvents[r]
      BY <2>1 DEF LoggingInv
    <2>7. /\ r \in logging' => validating'[r] < MaxLogging
          /\ r \in stats' \cap logging' => 1 <= connectedEvents'[r]
                                           /\ connectedEvents'[r] + validating'[r] <= MaxLogging
          /\ r \notin stats' \cap logging' => connectedEvents'[r] = 0
      BY <1>0, <2>1, <2>2, <2>5, <2>6
    <2>. QED  BY <2>1, <2>2, <2>3, <2>4, <2>7 DEF LoggingInv
  <1>4. ASSUME NEW w \in Workers, ReceiveNewConnection(w) PROVE LoggingInv'
    <2>. DEFINE si == sessions[SessionOf[Head(toMain[w]).req]]
    <2>1. /\ logging' = logging /\ validating' = validating
          /\ \/ stats' = stats /\ connectedEvents' = connectedEvents
             \/ /\ si # NoRequest /\ si \notin stats /\ stats' = stats \cup {si}
                /\ connectedEvents' = IF si \in logging THEN [connectedEvents EXCEPT ![si] = @ + 1]
                                      ELSE connectedEvents
      BY <1>4 DEF ReceiveNewConnection
    <2>2. CASE stats' = stats /\ connectedEvents' = connectedEvents
      BY <1>1, <2>1, <2>2
    <2>3. CASE /\ si # NoRequest /\ si \notin stats /\ stats' = stats \cup {si}
               /\ connectedEvents' = IF si \in logging THEN [connectedEvents EXCEPT ![si] = @ + 1]
                                     ELSE connectedEvents
      <3>1. si \in Requests
        <4>1. Receive(w, "newConnection") /\ Head(toMain[w]) \in MainMessages
                /\ Head(toMain[w]).type = "newConnection"
          BY <1>4, ReceiveKeepsPending DEF RecordInv, ReceiveNewConnection, given
        <4>. QED  BY <1>0, <2>3, <4>1 DEF RecordInv, RecordTyped, MainMessages
      <3>. HIDE DEF si
      <3>2. /\ connectedEvents' \in [Requests -> Nat]
            /\ \A s \in Requests \ {si} : connectedEvents'[s] = connectedEvents[s]
            /\ connectedEvents'[si] = IF si \in logging THEN connectedEvents[si] + 1
                                      ELSE connectedEvents[si]
        BY <2>3, <3>1 DEF LoggingInv
      <3>3. connectedEvents[si] = 0 /\ validating[si] \in 0 .. MaxLogging
        BY <2>3, <3>1 DEF LoggingInv
      <3>4. /\ si \in logging => validating[si] < MaxLogging
            /\ si \in logging => 1 <= connectedEvents'[si]
                                 /\ connectedEvents'[si] + validating[si] <= MaxLogging
            /\ si \notin logging => connectedEvents'[si] = 0
        BY <1>0, <3>1, <3>2, <3>3 DEF LoggingInv
      <3>. QED  BY <2>1, <2>3, <3>1, <3>2, <3>4 DEF LoggingInv
    <2>. QED  BY <2>1, <2>2, <2>3
  <1>5. ASSUME NEW r \in Requests,
               \/ HandleRequestPorts(r) \/ Step(r) \/ SpawnTimesOut(r) \/ NewConnection(r)
               \/ ConnectorDone(r) \/ (\E k \in Keys : SocketVerified(r, k)) \/ PortPairWorker(r)
        PROVE  LoggingInv'
    <2>1. UNCHANGED loggingVars
      BY <1>5 DEF HandleRequestPorts, Step, PayloadKeys, Spawned, MutexLost, Record, Respond,
                  SpawnTimesOut, NewConnection, ConnectorDone, SocketVerified, PortPairWorker,
                  WorkerStarts, TakeStart, Bound, BindFails, TakeStop
    <2>. QED  BY <1>1, <2>1
  <1>6. ASSUME SinglePortWorker PROVE LoggingInv'
    <2>1. UNCHANGED loggingVars
      BY <1>6
         DEF SinglePortWorker, TakeStart443, TakeEndSession443, TakeStop443, CloseAll443,
             Exit443
    <2>. QED  BY <1>1, <2>1
  <1>7. ASSUME NEW w \in Workers, ReceiveFrom(w) \/ KillWorker(w), ~ReceiveNewConnection(w)
        PROVE  LoggingInv'
    <2>1. UNCHANGED loggingVars
      BY <1>7 DEF ReceiveFrom, ReceiveSendPort, ReceivePorts, ReceiveSigningKey,
                  ReceiveSessionComplete, ReceiveExit, KillWorker
    <2>. QED  BY <1>1, <2>1
  <1>8. ASSUME \/ \E k \in Keys : Recheck(k) \/ KeyWithdrawn(k)
               \/ CheckSigningKeys \/ Stop \/ StopWorkers \/ StopReturns
        PROVE  LoggingInv'
    <2>1. UNCHANGED loggingVars
      BY <1>8 DEF Recheck, NotWithdrawn, Withdrawn, RecheckEnds, KeyWithdrawn, CheckSigningKeys,
                  Stop, StopWorkers, StopReturns
    <2>. QED  BY <1>1, <2>1
  <1>9. CASE Next
    BY <1>2, <1>3, <1>4, <1>5, <1>6, <1>7, <1>8, <1>9 DEF Next
  <1>10. CASE UNCHANGED vars
    BY <1>1, <1>10 DEF vars
  <1>. QED  BY <1>9, <1>10

\* "connected" is logged for every session that has a connection and a logging
\* configuration, whichever came first, and for no other; at most as often as
\* configurations can be validated at the same time.
THEOREM ConnectedGetsLogged == Spec => []ConnectedIsLogged
  <1>1. Init => LoggingInv
    BY RelaySessionsAssumption DEF Init, LoggingInv
  <1>2. LoggingInv => ConnectedIsLogged
    <2>. SUFFICES ASSUME LoggingInv, NEW r \in Requests
                  PROVE  IF r \in stats \cap logging THEN connectedEvents[r] \in 1 .. MaxLogging
                         ELSE connectedEvents[r] = 0
      BY DEF ConnectedIsLogged
    <2>1. validating[r] \in 0 .. MaxLogging /\ connectedEvents[r] \in Nat /\ MaxLogging \in Nat
      BY RelaySessionsAssumption DEF LoggingInv
    <2>. QED  BY <2>1 DEF LoggingInv
  <1>. QED  BY <1>1, <1>2, RecordInitially, RecordSteps, LoggingSteps, PTL DEF Spec

-----------------------------------------------------------------------------
(* The invariant of the verifier *)

\* What waits on a mutex: the chunks of the tokens after the n-th up to the
\* m-th, in order and none of them missing, and whatever else is queued.
QueueIs(q, n, m) ==
    /\ n <= m
    /\ \A i \in DOMAIN q : q[i].task = "data" => n < q[i].lo /\ q[i].lo <= q[i].hi /\ q[i].hi <= m
    /\ \A i, j \in DOMAIN q :
          i < j /\ q[i].task = "data" /\ q[j].task = "data" => q[i].hi < q[j].lo
    /\ \A t \in n + 1 .. m :
          \E i \in DOMAIN q : q[i].task = "data" /\ q[i].lo <= t /\ t <= q[i].hi

\* Where a connection has got to whose peer would verify.  Its line is still
\* being read;
Reading(c) ==
    /\ c \notin authenticated /\ holder[c] \notin {"verifying", "accepting"}
    /\ Len(buffer[c]) < LineLength /\ buffer[c] = Tokens(1, Len(buffer[c]))
    /\ QueueIs(waiting[c], Len(buffer[c]), sent[c])
    /\ written[c] \in {<<>>, <<"challenge">>} /\ holder[c] # "refusing"
\* or it is being verified, and what is buffered came behind it;
BeingVerified(c) ==
    /\ c \notin authenticated /\ c \notin closed
    /\ buffer[c] = Tokens(LineLength + 1, LineLength + Len(buffer[c]))
    /\ QueueIs(waiting[c], LineLength + Len(buffer[c]), sent[c])
    /\ \/ holder[c] = "verifying" /\ written[c] \in {<<>>, <<"challenge">>}
       \/ holder[c] = "accepting" /\ written[c] = <<"challenge", "ok">>
\* or it was verified, and the rest is handed on;
Relaying(c) ==
    /\ c \in authenticated /\ holder[c] \notin {"verifying", "accepting", "refusing"}
    /\ out[c] = Tokens(LineLength + 1, LineLength + Len(out[c]))
    /\ QueueIs(waiting[c], LineLength + Len(out[c]), sent[c])
\* or it was refused with its line, which will not come again.
Over(c) ==
    /\ c \notin authenticated /\ holder[c] \notin {"verifying", "accepting"}
    /\ completer[c] # "open" \/ holder[c] = "refusing"
    /\ \E n \in LineLength .. sent[c] : QueueIs(waiting[c], n, sent[c])
Phase(c) ==
    IF peer[c].valid THEN Reading(c) \/ BeingVerified(c) \/ Relaying(c) \/ Over(c)
    ELSE c \notin authenticated /\ holder[c] # "accepting"

\* Nothing has happened on a connection that was not made.
NotStarted(c) ==
    c \notin started => /\ mode[c] = "detecting" /\ holder[c] = "none" /\ sent[c] = 0
                        /\ waiting[c] = <<>> /\ c \notin authenticated

\* A peer speaks when it may, and its mode is known by the time its line is
\* verified.
Spoken(c) ==
    /\ c \in started => peer[c].kind # "absent"
    /\ sent[c] > 0 => (peer[c].kind = "escr" => written[c] # <<>>)
    /\ holder[c] = "verifying" => mode[c] # "detecting"

\* The end of the stream is behind all of its chunks.
CloseIsLast(c) ==
    /\ c \in closed => /\ c \in peerClosed /\ holder[c] \notin {"verifying", "accepting"}
                       /\ \A i \in DOMAIN waiting[c] : waiting[c][i].task # "data"
    /\ \A i \in DOMAIN waiting[c] :
          waiting[c][i].task = "close" =>
             /\ c \in peerClosed
             /\ \A j \in DOMAIN waiting[c] : j > i => waiting[c][j].task # "data"

\* What was written to a peer, which is told of its refusal once.
Written(c) ==
    /\ mode[c] # "escr" => written[c] = <<>>
    /\ mode[c] = "escr" =>
          written[c] \in {<<"challenge">>, <<"challenge", "ok">>, <<"challenge", "failed">>}
    /\ written[c] = <<"challenge", "failed">> => completer[c] # "open" \/ holder[c] = "refusing"
    /\ written[c] = <<"challenge", "ok">> =>
          completer[c] # "open" \/ holder[c] = "accepting" \/ c \in authenticated

\* What was found out about a peer before it is believed or refused.
Judged(c) ==
    /\ c \in authenticated \/ holder[c] = "accepting" => Verifies(c)
    /\ c \notin authenticated => out[c] = <<>> /\ completer[c] # "accepted"
    /\ peer[c].valid /\ (completer[c] = "refused" \/ holder[c] = "refusing")
       => \/ peer[c].kind = "legacy" /\ mode[c] = "escr"
          \/ sent[c] > MaxBuffer
          \/ c \in gone \cup lookupFailed

Connection(c) ==
    /\ NotStarted(c) /\ Spoken(c) /\ CloseIsLast(c) /\ Written(c) /\ Judged(c) /\ Phase(c)

VerifierInv ==
    /\ VerifierTypeOK
    /\ timer \subseteq started /\ latest \in started \cup {NoConnection}
    /\ \A c \in Connections : (peer[c].kind = "junk" => ~peer[c].valid) /\ Connection(c)

-----------------------------------------------------------------------------
(* Tokens *)

\* Tokens(a, b) are the tokens from the a-th to the b-th.
LEMMA TokensAre ==
    ASSUME NEW a \in Nat \ {0}, NEW b \in Nat, a <= b + 1
    PROVE  /\ Tokens(a, b) \in Seq(Nat) /\ Len(Tokens(a, b)) = b - a + 1
           /\ \A k \in 1 .. b - a + 1 : Tokens(a, b)[k] = a + k - 1
  <1>. DEFINE n == b - a + 1
  <1>1. n \in Nat
    OBVIOUS
  <1>2. [k \in 1 .. n |-> a + k - 1] \in [1 .. n -> Nat]
    OBVIOUS
  <1>3. [k \in 1 .. n |-> a + k - 1] \in Seq(Nat) /\ Len([k \in 1 .. n |-> a + k - 1]) = n
    BY <1>1, <1>2
  <1>. QED  BY <1>1, <1>3 DEF Tokens

\* They are tokens of a stream that is long enough.
LEMMA TokensTyped ==
    ASSUME NEW a \in Nat \ {0}, NEW b \in Nat, a <= b + 1, NEW m \in Nat, b <= m
    PROVE  Tokens(a, b) \in Seq(1 .. m)
  <1>. DEFINE n == b - a + 1
  <1>1. n \in Nat
    OBVIOUS
  <1>2. [k \in 1 .. n |-> a + k - 1] \in [1 .. n -> 1 .. m]
    OBVIOUS
  <1>3. [k \in 1 .. n |-> a + k - 1] \in Seq(1 .. m)
    BY <1>1, <1>2
  <1>. QED  BY <1>1, <1>3 DEF Tokens

\* No tokens are the empty sequence.
LEMMA NoTokens == ASSUME NEW a \in Nat \ {0} PROVE Tokens(a, a - 1) = <<>>
  <1>1. a - 1 \in Nat /\ a <= (a - 1) + 1 /\ (a - 1) - a + 1 = 0
    OBVIOUS
  <1>2. Tokens(a, a - 1) \in Seq(Nat) /\ Len(Tokens(a, a - 1)) = (a - 1) - a + 1
    BY <1>1, TokensAre
  <1>. QED  BY <1>1, <1>2, EmptySeq

\* Adjacent runs of tokens make one.
LEMMA TokensJoin ==
    ASSUME NEW a \in Nat \ {0}, NEW b \in Nat, NEW c \in Nat, a <= b + 1, b <= c
    PROVE  Tokens(a, b) \o Tokens(b + 1, c) = Tokens(a, c)
  <1>. DEFINE x == Tokens(a, b)  y == Tokens(b + 1, c)  z == Tokens(a, c)
  <1>1. /\ x \in Seq(Nat) /\ Len(x) = b - a + 1
        /\ \A k \in 1 .. b - a + 1 : x[k] = a + k - 1
    BY TokensAre
  <1>2. /\ y \in Seq(Nat) /\ Len(y) = c - b
        /\ \A k \in 1 .. c - b : y[k] = b + k
    <2>1. b + 1 \in Nat \ {0} /\ b + 1 <= c + 1 /\ c - (b + 1) + 1 = c - b
      OBVIOUS
    <2>2. /\ y \in Seq(Nat) /\ Len(y) = c - (b + 1) + 1
          /\ \A k \in 1 .. c - (b + 1) + 1 : y[k] = (b + 1) + k - 1
      BY <2>1, TokensAre
    <2>. HIDE DEF y
    <2>3. \A k \in 1 .. c - b : (b + 1) + k - 1 = b + k
      OBVIOUS
    <2>. QED  BY <2>1, <2>2, <2>3
  <1>3. /\ z \in Seq(Nat) /\ Len(z) = c - a + 1
        /\ \A k \in 1 .. c - a + 1 : z[k] = a + k - 1
    <2>1. a <= c + 1
      OBVIOUS
    <2>. QED  BY <2>1, TokensAre
  <1>. HIDE DEF x, y, z
  <1>4. /\ x \o y \in Seq(Nat) /\ Len(x \o y) = Len(x) + Len(y)
        /\ \A k \in 1 .. Len(x) + Len(y) :
             (x \o y)[k] = IF k <= Len(x) THEN x[k] ELSE y[k - Len(x)]
    BY <1>1, <1>2, ConcatProperties
  <1>5. Len(x \o y) = Len(z)
    BY <1>1, <1>2, <1>3, <1>4
  <1>6. ASSUME NEW k \in 1 .. Len(x \o y) PROVE (x \o y)[k] = z[k]
    <2>1. k \in 1 .. c - a + 1
      BY <1>3, <1>5
    <2>2. CASE k <= Len(x)
      BY <1>1, <1>3, <1>4, <2>1, <2>2
    <2>3. CASE ~(k <= Len(x))
      <3>1. k - Len(x) \in 1 .. c - b /\ b + (k - Len(x)) = a + k - 1
        BY <1>1, <2>1, <2>3
      <3>. QED  BY <1>2, <1>3, <1>4, <2>1, <2>3, <3>1
    <2>. QED  BY <2>2, <2>3
  <1>7. x \o y = z
    BY <1>3, <1>4, <1>5, <1>6, SeqEqual
  <1>. QED  BY <1>7 DEF x, y, z

\* Tokens are found where they should be, and cut behind the n-th.
LEMMA TokensCut ==
    ASSUME NEW b \in Nat, NEW n \in 1 .. b
    PROVE  /\ DOMAIN Tokens(1, b) = 1 .. b /\ \A k \in 1 .. b : Tokens(1, b)[k] = k
           /\ SubSeq(Tokens(1, b), n + 1, b) = Tokens(n + 1, b)
  <1>. DEFINE s == Tokens(1, b)
              u == SubSeq(s, n + 1, b)  v == Tokens(n + 1, b)
  <1>1. s \in Seq(Nat) /\ Len(s) = b /\ \A k \in 1 .. b : s[k] = k
    <2>1. 1 \in Nat \ {0} /\ 1 <= b + 1 /\ b - 1 + 1 = b
      OBVIOUS
    <2>2. s \in Seq(Nat) /\ Len(s) = b - 1 + 1 /\ \A k \in 1 .. b - 1 + 1 : s[k] = 1 + k - 1
      BY <2>1, TokensAre
    <2>. HIDE DEF s
    <2>3. \A k \in 1 .. b : 1 + k - 1 = k
      OBVIOUS
    <2>. QED  BY <2>1, <2>2, <2>3
  <1>2. v \in Seq(Nat) /\ Len(v) = b - n /\ \A k \in 1 .. b - n : v[k] = n + k
    <2>1. n + 1 \in Nat \ {0} /\ n + 1 <= b + 1 /\ b - (n + 1) + 1 = b - n
      OBVIOUS
    <2>2. /\ v \in Seq(Nat) /\ Len(v) = b - (n + 1) + 1
          /\ \A k \in 1 .. b - (n + 1) + 1 : v[k] = (n + 1) + k - 1
      BY <2>1, TokensAre
    <2>. HIDE DEF v
    <2>3. \A k \in 1 .. b - n : (n + 1) + k - 1 = n + k
      OBVIOUS
    <2>. QED  BY <2>1, <2>2, <2>3
  <1>. HIDE DEF s, v
  <1>3. DOMAIN s = 1 .. b
    BY <1>1, LenProperties
  <1>5. /\ u \in Seq(Nat) /\ Len(u) = IF n + 1 <= b THEN b - (n + 1) + 1 ELSE 0
        /\ \A k \in 1 .. b - (n + 1) + 1 : u[k] = s[(n + 1) + k - 1]
    <2>1. n + 1 \in Int /\ b \in Int /\ \A k \in n + 1 .. b : s[k] \in Nat
      BY <1>1
    <2>. QED  BY <2>1, SubSeqProperties
  <1>. HIDE DEF u
  <1>6. Len(u) = Len(v) /\ \A k \in 1 .. Len(u) : u[k] = v[k]
    <2>1. Len(u) = b - n
      BY <1>5
    <2>2. ASSUME NEW k \in 1 .. b - n PROVE u[k] = v[k]
      <3>1. k \in 1 .. b - (n + 1) + 1 /\ (n + 1) + k - 1 \in 1 .. b /\ (n + 1) + k - 1 = n + k
        OBVIOUS
      <3>. QED  BY <1>1, <1>2, <1>5, <3>1
    <2>. QED  BY <1>2, <2>1, <2>2
  <1>7. u = v
    BY <1>2, <1>5, <1>6, SeqEqual
  <1>. QED  BY <1>1, <1>3, <1>7 DEF s, u, v

\* A line that is being read grows, and what is handed on grows.
LEMMA LineGrows ==
    ASSUME NEW n \in Nat, NEW h \in Nat, n <= h
    PROVE  Tokens(1, n) \o Tokens(n + 1, h) = Tokens(1, h) /\ Len(Tokens(1, h)) = h
  <1>1. 1 \in Nat \ {0} /\ 1 <= n + 1 /\ 1 <= h + 1 /\ h - 1 + 1 = h
    OBVIOUS
  <1>2. Tokens(1, n) \o Tokens(n + 1, h) = Tokens(1, h)
    BY <1>1, TokensJoin
  <1>3. Len(Tokens(1, h)) = h - 1 + 1
    BY <1>1, TokensAre
  <1>. QED  BY <1>1, <1>2, <1>3

\* Chunks that follow each other join to one stretch of the stream.
LEMMA StreamGrows ==
    ASSUME NEW l \in Nat, NEW n \in Nat, NEW h \in Nat, l <= n, n <= h
    PROVE  Tokens(l + 1, n) \o Tokens(n + 1, h) = Tokens(l + 1, h)
  <1>1. l + 1 \in Nat \ {0} /\ l + 1 <= n + 1
    OBVIOUS
  <1>. QED  BY <1>1, TokensJoin

-----------------------------------------------------------------------------
(* What waits for a mutex *)

\* Whatever its ends, a chunk has tokens of the stream.
LEMMA ChunkTyped ==
    ASSUME NEW a \in 1 .. StreamLength, NEW b \in 1 .. StreamLength
    PROVE  Tokens(a, b) \in Seq(1 .. StreamLength)
  <1>1. CASE a <= b + 1
    BY <1>1, TokensTyped, RelayAuthAutoAssumption
  <1>2. CASE b + 1 < a
    <2>1. 1 .. (b - a + 1) = {}
      BY <1>2, RelayAuthAutoAssumption
    <2>2. Tokens(a, b) = [k \in {} |-> a + k - 1]
      BY <2>1 DEF Tokens
    <2>3. [k \in {} |-> a + k - 1] = <<>>
      OBVIOUS
    <2>. QED  BY <2>2, <2>3
  <1>. QED  BY <1>1, <1>2, RelayAuthAutoAssumption

\* The fields of a task.
LEMMA TaskFields ==
    /\ \A t \in Tasks : t.task \in {"data", "resolve", "close"}
    /\ \A t \in Tasks : t.task = "data" => t.lo \in 1 .. StreamLength /\ t.hi \in 1 .. StreamLength
    /\ \A t \in Tasks : t.task = "resolve" => t.mode \in Modes
    /\ \A a, b \in 1 .. StreamLength :
          /\ Chunk(a, b) \in Tasks /\ Chunk(a, b).task = "data"
          /\ Chunk(a, b).lo = a /\ Chunk(a, b).hi = b
    /\ \A m \in Modes : Resolve(m) \in Tasks /\ Resolve(m).task = "resolve"
    /\ Close \in Tasks /\ Close.task = "close"
  <1>1. ASSUME NEW t \in Tasks
        PROVE  /\ t.task \in {"data", "resolve", "close"}
               /\ t.task = "data" => t.lo \in 1 .. StreamLength /\ t.hi \in 1 .. StreamLength
               /\ t.task = "resolve" => t.mode \in Modes
    <2>1. CASE t \in [task : {"data"}, lo : 1 .. StreamLength, hi : 1 .. StreamLength]
      BY <2>1
    <2>2. CASE t \in [task : {"resolve"}, mode : Modes]
      BY <2>2
    <2>3. CASE t = Close
      BY <2>3 DEF Close
    <2>. QED  BY <2>1, <2>2, <2>3 DEF Tasks
  <1>2. ASSUME NEW a \in 1 .. StreamLength, NEW b \in 1 .. StreamLength
        PROVE  /\ Chunk(a, b) \in Tasks /\ Chunk(a, b).task = "data"
               /\ Chunk(a, b).lo = a /\ Chunk(a, b).hi = b
    <2>1. Chunk(a, b) \in [task : {"data"}, lo : 1 .. StreamLength, hi : 1 .. StreamLength]
      BY DEF Chunk
    <2>2. Chunk(a, b).task = "data" /\ Chunk(a, b).lo = a /\ Chunk(a, b).hi = b
      BY DEF Chunk
    <2>. QED  BY <2>1, <2>2 DEF Tasks
  <1>3. ASSUME NEW m \in Modes PROVE Resolve(m) \in Tasks /\ Resolve(m).task = "resolve"
    <2>1. Resolve(m) \in [task : {"resolve"}, mode : Modes] /\ Resolve(m).task = "resolve"
      BY DEF Resolve
    <2>. QED  BY <2>1 DEF Tasks
  <1>4. Close \in Tasks /\ Close.task = "close"
    BY DEF Tasks, Close
  <1>. QED  BY <1>1, <1>2, <1>3, <1>4

\* A queue whose head is taken.
LEMMA TailIs ==
    ASSUME NEW q \in Seq(Tasks), q # <<>>
    PROVE  /\ Head(q) \in Tasks /\ 1 \in DOMAIN q /\ q[1] = Head(q)
           /\ Tail(q) \in Seq(Tasks)
           /\ DOMAIN q = 1 .. Len(q) /\ DOMAIN Tail(q) = 1 .. Len(Tail(q))
           /\ Len(q) \in Nat \ {0} /\ Len(Tail(q)) = Len(q) - 1
           /\ \A i \in DOMAIN Tail(q) : i + 1 \in DOMAIN q /\ Tail(q)[i] = q[i + 1]
           /\ \A i \in DOMAIN q : i = 1 \/ (i - 1 \in DOMAIN Tail(q) /\ Tail(q)[i - 1] = q[i])
  <1>1. /\ Head(q) \in Tasks /\ Tail(q) \in Seq(Tasks) /\ Len(q) \in Nat \ {0}
        /\ Len(Tail(q)) = Len(q) - 1 /\ Head(q) = q[1]
        /\ \A i \in 1 .. Len(Tail(q)) : Tail(q)[i] = q[i + 1]
    BY HeadTailProperties, EmptySeq, LenProperties
  <1>2. DOMAIN q = 1 .. Len(q) /\ DOMAIN Tail(q) = 1 .. Len(Tail(q))
    BY <1>1, LenProperties
  <1>3. ASSUME NEW i \in 1 .. Len(q), i # 1
        PROVE  i - 1 \in 1 .. Len(Tail(q)) /\ Tail(q)[i - 1] = q[i]
    <2>1. i - 1 \in 1 .. Len(Tail(q)) /\ (i - 1) + 1 = i
      BY <1>1, <1>3
    <2>. QED  BY <1>1, <2>1
  <1>4. ASSUME NEW i \in 1 .. Len(Tail(q)) PROVE i + 1 \in 1 .. Len(q)
    BY <1>1
  <1>. QED  BY <1>1, <1>2, <1>3, <1>4

\* A queue that something joins.
LEMMA AppendIs ==
    ASSUME NEW q \in Seq(Tasks), NEW t \in Tasks
    PROVE  /\ Append(q, t) \in Seq(Tasks)
           /\ Len(q) \in Nat
           /\ DOMAIN q = 1 .. Len(q) /\ DOMAIN Append(q, t) = 1 .. Len(q) + 1
           /\ Append(q, t)[Len(q) + 1] = t
           /\ \A i \in 1 .. Len(q) : Append(q, t)[i] = q[i]
  BY AppendProperties, LenProperties

\* The next chunk joins the queue.
LEMMA ChunkJoins ==
    ASSUME NEW q \in Seq(Tasks), NEW n \in Nat, NEW m \in Nat, NEW h \in Nat,
           QueueIs(q, n, m), m < h, h <= StreamLength
    PROVE  QueueIs(Append(q, Chunk(m + 1, h)), n, h)
  <1>. DEFINE t == Chunk(m + 1, h)  r == Append(q, t)
  <1>1. t \in Tasks /\ t.task = "data" /\ t.lo = m + 1 /\ t.hi = h
    <2>1. m + 1 \in 1 .. StreamLength /\ h \in 1 .. StreamLength
      BY RelayAuthAutoAssumption
    <2>. QED  BY <2>1, TaskFields
  <1>. HIDE DEF t
  <1>2. /\ Len(q) \in Nat /\ DOMAIN q = 1 .. Len(q) /\ DOMAIN r = 1 .. Len(q) + 1
        /\ r[Len(q) + 1] = t /\ \A i \in 1 .. Len(q) : r[i] = q[i]
    BY <1>1, AppendIs
  <1>3. \A i \in DOMAIN q : q[i] \in Tasks
    BY ElementOfSeq, LenProperties
  <1>4. \A i \in DOMAIN q : q[i].task = "data" => q[i].lo \in Nat /\ q[i].hi \in Nat
    BY <1>3, TaskFields, RelayAuthAutoAssumption
  <1>. HIDE DEF r
  <1>5. n <= h
    BY DEF QueueIs
  <1>6. ASSUME NEW i \in DOMAIN r, r[i].task = "data"
        PROVE  n < r[i].lo /\ r[i].lo <= r[i].hi /\ r[i].hi <= h
    <2>1. CASE i = Len(q) + 1
      BY <1>1, <1>2, <2>1 DEF QueueIs
    <2>2. CASE i \in DOMAIN q
      BY <1>2, <1>4, <1>6, <2>2 DEF QueueIs
    <2>. QED  BY <1>2, <2>1, <2>2
  <1>7. ASSUME NEW i \in DOMAIN r, NEW j \in DOMAIN r, i < j, r[i].task = "data", r[j].task = "data"
        PROVE  r[i].hi < r[j].lo
    <2>1. i \in DOMAIN q /\ r[i] = q[i]
      BY <1>2, <1>7
    <2>2. CASE j = Len(q) + 1
      BY <1>1, <1>2, <1>4, <1>7, <2>1, <2>2 DEF QueueIs
    <2>3. CASE j \in DOMAIN q
      BY <1>2, <1>7, <2>1, <2>3 DEF QueueIs
    <2>. QED  BY <1>2, <2>2, <2>3
  <1>8. ASSUME NEW k \in n + 1 .. h
        PROVE  \E i \in DOMAIN r : r[i].task = "data" /\ r[i].lo <= k /\ k <= r[i].hi
    <2>1. CASE m < k
      <3>1. Len(q) + 1 \in DOMAIN r /\ m + 1 <= k /\ k <= h
        BY <1>2, <2>1
      <3>. QED  BY <1>1, <1>2, <3>1
    <2>2. CASE k <= m
      <3>1. PICK i \in DOMAIN q : q[i].task = "data" /\ q[i].lo <= k /\ k <= q[i].hi
        BY <2>2 DEF QueueIs
      <3>. QED  BY <1>2, <3>1
    <2>. QED  BY <2>1, <2>2
  <1>9. QueueIs(r, n, h)
    BY <1>5, <1>6, <1>7, <1>8 DEF QueueIs
  <1>. QED  BY <1>9 DEF r, t

\* Something else joins the queue.
LEMMA OtherJoins ==
    ASSUME NEW q \in Seq(Tasks), NEW n \in Nat, NEW m \in Nat, NEW t \in Tasks,
           QueueIs(q, n, m), t.task # "data"
    PROVE  QueueIs(Append(q, t), n, m)
  <1>. DEFINE r == Append(q, t)
  <1>2. /\ Len(q) \in Nat /\ DOMAIN q = 1 .. Len(q) /\ DOMAIN r = 1 .. Len(q) + 1
        /\ r[Len(q) + 1] = t /\ \A i \in 1 .. Len(q) : r[i] = q[i]
    BY AppendIs
  <1>. HIDE DEF r
  <1>3. \A i \in DOMAIN r : r[i].task = "data" => i \in DOMAIN q /\ r[i] = q[i]
    BY <1>2
  <1>4. \A i \in DOMAIN q : i \in DOMAIN r /\ r[i] = q[i]
    BY <1>2
  <1>5. QueueIs(r, n, m)
    BY <1>3, <1>4 DEF QueueIs
  <1>. QED  BY <1>5 DEF r

\* A chunk at the head is the next one, and the rest is behind it.
LEMMA ChunkLeaves ==
    ASSUME NEW q \in Seq(Tasks), NEW n \in Nat, NEW m \in Nat, q # <<>>,
           QueueIs(q, n, m), Head(q).task = "data"
    PROVE  /\ Head(q).lo = n + 1 /\ n < Head(q).hi /\ Head(q).hi <= m
           /\ QueueIs(Tail(q), Head(q).hi, m)
  <1>. DEFINE h == Head(q)  r == Tail(q)
  <1>1. /\ h \in Tasks /\ 1 \in DOMAIN q /\ q[1] = h
        /\ DOMAIN q = 1 .. Len(q) /\ DOMAIN r = 1 .. Len(r) /\ Len(q) \in Nat /\ Len(r) = Len(q) - 1
        /\ \A i \in DOMAIN r : i + 1 \in DOMAIN q /\ r[i] = q[i + 1]
        /\ \A i \in DOMAIN q : i = 1 \/ (i - 1 \in DOMAIN r /\ r[i - 1] = q[i])
    BY TailIs
  <1>2. \A i \in DOMAIN q : q[i] \in Tasks
    BY ElementOfSeq, LenProperties
  <1>3. \A i \in DOMAIN q : q[i].task = "data" => q[i].lo \in Nat /\ q[i].hi \in Nat
    BY <1>2, TaskFields, RelayAuthAutoAssumption
  <1>. HIDE DEF h, r
  <1>4. h.lo \in Nat /\ h.hi \in Nat /\ n < h.lo /\ h.lo <= h.hi /\ h.hi <= m /\ h.task = "data"
    BY <1>1, <1>3 DEF QueueIs, h
  <1>5. h.lo = n + 1
    <2>1. n + 1 \in n + 1 .. m
      BY <1>4
    <2>2. PICK i \in DOMAIN q : q[i].task = "data" /\ q[i].lo <= n + 1 /\ n + 1 <= q[i].hi
      BY <2>1 DEF QueueIs
    <2>3. CASE i = 1
      BY <1>1, <1>4, <2>2, <2>3
    <2>4. CASE i # 1
      <3>1. 1 < i
        BY <1>1, <2>4
      <3>2. h.hi < q[i].lo
        BY <1>1, <1>4, <2>2, <3>1 DEF QueueIs
      <3>. QED  BY <1>3, <1>4, <2>2, <3>2
    <2>. QED  BY <2>3, <2>4
  <1>6. ASSUME NEW i \in DOMAIN r, r[i].task = "data"
        PROVE  h.hi < r[i].lo /\ r[i].lo <= r[i].hi /\ r[i].hi <= m
    <2>1. i + 1 \in DOMAIN q /\ r[i] = q[i + 1] /\ 1 < i + 1
      BY <1>1
    <2>. QED  BY <1>1, <1>4, <1>6, <2>1 DEF QueueIs
  <1>7. ASSUME NEW i \in DOMAIN r, NEW j \in DOMAIN r, i < j, r[i].task = "data", r[j].task = "data"
        PROVE  r[i].hi < r[j].lo
    <2>1. /\ i + 1 \in DOMAIN q /\ r[i] = q[i + 1] /\ j + 1 \in DOMAIN q /\ r[j] = q[j + 1]
          /\ i + 1 < j + 1
      BY <1>1, <1>7
    <2>. QED  BY <1>7, <2>1 DEF QueueIs
  <1>8. ASSUME NEW k \in h.hi + 1 .. m
        PROVE  \E i \in DOMAIN r : r[i].task = "data" /\ r[i].lo <= k /\ k <= r[i].hi
    <2>1. k \in n + 1 .. m
      BY <1>4
    <2>2. PICK i \in DOMAIN q : q[i].task = "data" /\ q[i].lo <= k /\ k <= q[i].hi
      BY <2>1 DEF QueueIs
    <2>3. i # 1
      BY <1>1, <1>4, <2>2
    <2>. QED  BY <1>1, <2>2, <2>3
  <1>9. QueueIs(r, h.hi, m)
    BY <1>4, <1>6, <1>7, <1>8 DEF QueueIs
  <1>10. n < h.hi
    BY <1>4
  <1>. QED  BY <1>4, <1>5, <1>9, <1>10 DEF h, r

\* Something else leaves the queue.
LEMMA OtherLeaves ==
    ASSUME NEW q \in Seq(Tasks), NEW n \in Nat, NEW m \in Nat, q # <<>>,
           QueueIs(q, n, m), Head(q).task # "data"
    PROVE  QueueIs(Tail(q), n, m)
  <1>. DEFINE h == Head(q)  r == Tail(q)
  <1>1. /\ 1 \in DOMAIN q /\ q[1] = h
        /\ DOMAIN q = 1 .. Len(q) /\ DOMAIN r = 1 .. Len(r) /\ Len(q) \in Nat /\ Len(r) = Len(q) - 1
        /\ \A i \in DOMAIN r : i + 1 \in DOMAIN q /\ r[i] = q[i + 1]
        /\ \A i \in DOMAIN q : i = 1 \/ (i - 1 \in DOMAIN r /\ r[i - 1] = q[i])
    BY TailIs
  <1>. HIDE DEF h, r
  <1>2. ASSUME NEW i \in DOMAIN r, r[i].task = "data"
        PROVE  n < r[i].lo /\ r[i].lo <= r[i].hi /\ r[i].hi <= m
    BY <1>1, <1>2 DEF QueueIs
  <1>3. ASSUME NEW i \in DOMAIN r, NEW j \in DOMAIN r, i < j, r[i].task = "data", r[j].task = "data"
        PROVE  r[i].hi < r[j].lo
    <2>1. /\ i + 1 \in DOMAIN q /\ r[i] = q[i + 1] /\ j + 1 \in DOMAIN q /\ r[j] = q[j + 1]
          /\ i + 1 < j + 1
      BY <1>1, <1>3
    <2>. QED  BY <1>3, <2>1 DEF QueueIs
  <1>4. ASSUME NEW k \in n + 1 .. m
        PROVE  \E i \in DOMAIN r : r[i].task = "data" /\ r[i].lo <= k /\ k <= r[i].hi
    <2>1. PICK i \in DOMAIN q : q[i].task = "data" /\ q[i].lo <= k /\ k <= q[i].hi
      BY DEF QueueIs
    <2>2. i # 1
      BY <1>1, <2>1 DEF h
    <2>. QED  BY <1>1, <2>1, <2>2
  <1>5. QueueIs(r, n, m)
    BY <1>2, <1>3, <1>4 DEF QueueIs
  <1>. QED  BY <1>5 DEF r

\* When no chunk waits, all was taken.
LEMMA NoChunkWaits ==
    ASSUME NEW q, NEW n \in Nat, NEW m \in Nat, QueueIs(q, n, m),
           \A i \in DOMAIN q : q[i].task # "data"
    PROVE  n = m
  <1>1. SUFFICES ASSUME n < m PROVE FALSE
    BY DEF QueueIs
  <1>2. m \in n + 1 .. m
    BY <1>1
  <1>. QED  BY <1>2 DEF QueueIs

-----------------------------------------------------------------------------
(* Connections that a step leaves alone, and what is written *)

Untouched(d) ==
    /\ peer' = peer
    /\ sent'[d] = sent[d] /\ waiting'[d] = waiting[d] /\ holder'[d] = holder[d]
    /\ mode'[d] = mode[d] /\ buffer'[d] = buffer[d] /\ completer'[d] = completer[d]
    /\ out'[d] = out[d] /\ written'[d] = written[d]
    /\ d \in started' <=> d \in started
    /\ d \in peerClosed' <=> d \in peerClosed
    /\ d \in authenticated' <=> d \in authenticated
    /\ d \in closed' <=> d \in closed
    /\ d \in gone' <=> d \in gone
    /\ d \in lookupFailed' <=> d \in lookupFailed

\* What is known of a connection stays so when it is left alone.
LEMMA UntouchedStays ==
    ASSUME NEW d \in Connections, Connection(d), Untouched(d)
    PROVE  Connection(d)'
  <1>1. NotStarted(d)'
    BY DEF Connection, Untouched, NotStarted
  <1>2. Spoken(d)'
    BY DEF Connection, Untouched, Spoken
  <1>3. CloseIsLast(d)'
    BY DEF Connection, Untouched, CloseIsLast
  <1>4. Written(d)'
    BY DEF Connection, Untouched, Written
  <1>5. Judged(d)'
    BY DEF Connection, Untouched, Judged, Verifies
  <1>6. Phase(d)'
    BY DEF Connection, Untouched, Phase, Reading, BeingVerified, Relaying, Over
  <1>. QED  BY <1>1, <1>2, <1>3, <1>4, <1>5, <1>6 DEF Connection

\* Something is appended to a single line.
LEMMA SecondLine ==
    ASSUME NEW T, NEW s \in Seq(T), NEW a \in T
    PROVE  Len(s) = 1 => Append(s, a) = <<s[1], a>>
  <1>. DEFINE x == Append(s, a)  y == <<s[1], a>>
  <1>1. /\ x \in Seq(T) /\ Len(x) = Len(s) + 1
        /\ \A i \in 1 .. Len(s) : x[i] = s[i]
        /\ x[Len(s) + 1] = a
    BY AppendProperties
  <1>0. \A i \in 1 .. Len(s) : s[i] \in T
    BY ElementOfSeq
  <1>. SUFFICES ASSUME Len(s) = 1 PROVE x = y
    OBVIOUS
  <1>2. y \in Seq(T) /\ Len(y) = 2 /\ y[1] = s[1] /\ y[2] = a
    <2>1. s[1] \in T
      BY <1>0
    <2>. QED  BY <2>1
  <1>. HIDE DEF x, y
  <1>3. Len(x) = Len(y) /\ \A i \in 1 .. Len(x) : x[i] = y[i]
    BY <1>1, <1>2
  <1>. QED  BY <1>1, <1>2, <1>3, SeqEqual

\* A challenge and its answer.
LEMMA AnswerIs ==
    ASSUME NEW a \in {"ok", "failed"}
    PROVE  Append(<<"challenge">>, a) = <<"challenge", a>>
  <1>. DEFINE T == {"challenge", "ok", "failed"}  s == <<"challenge">>
  <1>1. s \in Seq(T) /\ Len(s) = 1 /\ s[1] = "challenge" /\ a \in T
    OBVIOUS
  <1>. HIDE DEF T, s
  <1>2. Append(s, a) = <<s[1], a>>
    BY <1>1, SecondLine
  <1>. QED  BY <1>1, <1>2 DEF s

\* What may be written to a peer, and in which order.
LEMMA Lines ==
    /\ Append(<<>>, "challenge") = <<"challenge">>
    /\ Append(<<"challenge">>, "ok") = <<"challenge", "ok">>
    /\ Append(<<"challenge">>, "failed") = <<"challenge", "failed">>
    /\ <<"challenge">> # <<>> /\ <<"challenge", "ok">> # <<>> /\ <<"challenge", "failed">> # <<>>
    /\ <<"challenge">> # <<"challenge", "ok">> /\ <<"challenge">> # <<"challenge", "failed">>
    /\ <<"challenge", "ok">> # <<"challenge", "failed">>
  <1>1. Append(<<>>, "challenge") = <<"challenge">>
    OBVIOUS
  <1>2. Append(<<"challenge">>, "ok") = <<"challenge", "ok">>
    BY AnswerIs
  <1>3. Append(<<"challenge">>, "failed") = <<"challenge", "failed">>
    BY AnswerIs
  <1>4. <<"challenge">> # <<>> /\ <<"challenge", "ok">> # <<>> /\ <<"challenge", "failed">> # <<>>
    OBVIOUS
  <1>5. <<"challenge">> # <<"challenge", "ok">> /\ <<"challenge">> # <<"challenge", "failed">>
    <2>1. Len(<<"challenge">>) = 1 /\ Len(<<"challenge", "ok">>) = 2
          /\ Len(<<"challenge", "failed">>) = 2
      OBVIOUS
    <2>. QED  BY <2>1
  <1>6. <<"challenge", "ok">> # <<"challenge", "failed">>
    <2>1. <<"challenge", "ok">>[2] = "ok" /\ <<"challenge", "failed">>[2] = "failed"
      OBVIOUS
    <2>. QED  BY <2>1
  <1>. QED  BY <1>1, <1>2, <1>3, <1>4, <1>5, <1>6

-----------------------------------------------------------------------------
(* The steps *)

\* A step that touches one connection.
LEMMA OneTouched ==
    ASSUME VerifierInv, NEW c \in Connections, VerifierTypeOK', peer' = peer,
           timer' \subseteq started', latest' \in started' \cup {NoConnection},
           Connection(c)', \A d \in Connections \ {c} : Untouched(d)
    PROVE  VerifierInv'
  <1>1. ASSUME NEW d \in Connections PROVE Connection(d)'
    <2>1. CASE d = c
      BY <2>1
    <2>2. CASE d # c
      BY <2>2, UntouchedStays DEF VerifierInv
    <2>. QED  BY <2>1, <2>2
  <1>. QED  BY <1>1 DEF VerifierInv

\* The parts of what is known of one connection, in the types they have.
LEMMA OneConnection ==
    ASSUME VerifierInv, NEW c \in Connections
    PROVE  /\ sent[c] \in Nat /\ sent[c] <= StreamLength /\ waiting[c] \in Seq(Tasks)
           /\ buffer[c] \in Seq(1 .. StreamLength) /\ Len(buffer[c]) \in Nat
           /\ out[c] \in Seq(1 .. StreamLength) /\ Len(out[c]) \in Nat
           /\ mode[c] \in {"legacy", "escr", "detecting"}
           /\ holder[c] \in {"none", "challenging", "verifying", "accepting", "refusing"}
           /\ completer[c] \in {"open", "accepted", "refused"}
           /\ peer[c].kind \in {"legacy", "escr", "junk", "absent"} /\ peer[c].valid \in BOOLEAN
           /\ peer[c].sends \in 0 .. StreamLength
           /\ peer[c].kind = "junk" => ~peer[c].valid
           /\ NotStarted(c) /\ Spoken(c) /\ CloseIsLast(c) /\ Written(c) /\ Judged(c) /\ Phase(c)
  <1>1. VerifierTypeOK /\ Connection(c) /\ (peer[c].kind = "junk" => ~peer[c].valid)
    BY DEF VerifierInv
  <1>2. sent[c] \in 0 .. StreamLength /\ waiting[c] \in Seq(Tasks)
    BY <1>1 DEF VerifierTypeOK
  <1>3. /\ buffer[c] \in Seq(1 .. StreamLength) /\ out[c] \in Seq(1 .. StreamLength)
        /\ Len(buffer[c]) \in Nat /\ Len(out[c]) \in Nat
    BY <1>1 DEF VerifierTypeOK
  <1>4. /\ mode[c] \in {"legacy", "escr", "detecting"}
        /\ holder[c] \in {"none", "challenging", "verifying", "accepting", "refusing"}
        /\ completer[c] \in {"open", "accepted", "refused"}
    BY <1>1 DEF VerifierTypeOK, Modes
  <1>5. /\ peer[c].kind \in {"legacy", "escr", "junk", "absent"} /\ peer[c].valid \in BOOLEAN
        /\ peer[c].sends \in 0 .. StreamLength
    BY <1>1 DEF VerifierTypeOK, Peers
  <1>. QED  BY <1>1, <1>2, <1>3, <1>4, <1>5, RelayAuthAutoAssumption DEF Connection

\* verifySocketAuth begins.
LEMMA ConnectKeeps ==
    ASSUME VerifierInv, NEW c \in Connections, Connect(c)
    PROVE  VerifierInv'
  <1>1. VerifierTypeOK
    BY DEF VerifierInv
  <1>2. /\ mode[c] = "detecting" /\ holder[c] = "none" /\ sent[c] = 0 /\ waiting[c] = <<>>
        /\ c \notin authenticated /\ c \notin started
    BY OneConnection DEF Connect, NotStarted
  <1>3. written[c] = <<>>
    BY <1>2, OneConnection DEF Written
  <1>4. VerifierTypeOK' /\ timer' \subseteq started' /\ latest' \in started' \cup {NoConnection}
    <2>1. /\ mode' \in [Connections -> Modes \cup {"detecting"}]
          /\ timer' \subseteq {d \in Connections : mode'[d] = "detecting"}
          /\ holder' \in [Connections -> {"none", "challenging", "verifying", "accepting", "refusing"}]
      <3>1. CASE knownMode = "none"
        BY <1>1, <1>2, <3>1 DEF VerifierTypeOK, Connect
      <3>2. CASE knownMode # "none"
        <4>1. mode' = [mode EXCEPT ![c] = knownMode] /\ timer' = timer \ {c} /\ knownMode \in Modes
          BY <1>1, <3>2 DEF VerifierTypeOK, Connect, ResolveLocked
        <4>2. holder' \in {holder, [holder EXCEPT ![c] = "challenging"]}
          BY <3>2 DEF Connect, ResolveLocked, Hold
        <4>3. holder' \in [Connections -> {"none", "challenging", "verifying", "accepting", "refusing"}]
          BY <1>1, <4>2 DEF VerifierTypeOK
        <4>. QED  BY <1>1, <4>1, <4>3 DEF VerifierTypeOK
      <3>. QED  BY <3>1, <3>2
    <2>2. written' \in [Connections -> Seq({"challenge", "ok", "failed"})]
      <3>1. written' \in {written, [written EXCEPT ![c] = Append(@, "challenge")]}
        BY DEF Connect, ResolveLocked, Write
      <3>2. Append(written[c], "challenge") \in Seq({"challenge", "ok", "failed"})
        BY <1>1 DEF VerifierTypeOK
      <3>. QED  BY <1>1, <3>1, <3>2 DEF VerifierTypeOK
    <2>3. timer' \subseteq started' /\ latest' \in started' \cup {NoConnection}
      BY DEF VerifierInv, Connect, ResolveLocked
    <2>. QED  BY <1>1, <2>1, <2>2, <2>3 DEF VerifierTypeOK, Connect, stream, failures
  <1>5. /\ mode'[c] \in {"detecting", "legacy", "escr"}
        /\ holder'[c] \in {"none", "challenging"}
        /\ mode'[c] = "escr" => written'[c] = <<"challenge">>
        /\ mode'[c] # "escr" => written'[c] = <<>>
    BY <1>1, <1>2, <1>3, Lines DEF VerifierTypeOK, Connect, ResolveLocked, Write, Hold, Modes
  <1>6. /\ sent' = sent /\ waiting' = waiting /\ authenticated' = authenticated /\ out' = out
        /\ closed' = closed /\ completer' = completer /\ peer' = peer /\ buffer' = buffer
        /\ peerClosed' = peerClosed /\ gone' = gone /\ c \in started'
        /\ lookupFailed' = lookupFailed
    BY DEF Connect, stream, failures
  <1>7. Connection(c)'
    <2>1. NotStarted(c)' /\ Spoken(c)' /\ CloseIsLast(c)'
      BY <1>2, <1>5, <1>6, OneConnection DEF Connect, NotStarted, Spoken, CloseIsLast
    <2>2. Written(c)' /\ Judged(c)'
      BY <1>2, <1>5, <1>6, OneConnection, Lines DEF Written, Judged, Verifies
    <2>3. Phase(c)'
      BY <1>2, <1>3, <1>5, <1>6, OneConnection, RelayAuthAutoAssumption
      DEF Phase, Reading, BeingVerified, Relaying, Over
    <2>. QED  BY <2>1, <2>2, <2>3 DEF Connection
  <1>8. ASSUME NEW d \in Connections \ {c} PROVE Untouched(d)
    BY <1>1, <1>6 DEF VerifierTypeOK, Connect, ResolveLocked, Write, Hold, Untouched
  <1>. QED  BY <1>4, <1>6, <1>7, <1>8, OneTouched

\* A chunk is handed on, if nothing holds it up, or queued.
LEMMA DataKeeps ==
    ASSUME VerifierInv, NEW c \in Connections, Data(c)
    PROVE  VerifierInv'
  <1>1. VerifierTypeOK
    BY DEF VerifierInv
  <1>2. PICK h \in sent[c] + 1 .. peer[c].sends :
          /\ sent' = [sent EXCEPT ![c] = h]
          /\ IF c \in authenticated /\ holder[c] = "none" /\ waiting[c] = <<>>
             THEN HandOn(c, Tokens(sent[c] + 1, h)) /\ UNCHANGED waiting
             ELSE Enqueue(c, Chunk(sent[c] + 1, h)) /\ UNCHANGED out
    BY DEF Data
  <1>3. /\ peer' = peer /\ started' = started /\ peerClosed' = peerClosed /\ holder' = holder
        /\ mode' = mode /\ timer' = timer /\ buffer' = buffer /\ authenticated' = authenticated
        /\ closed' = closed /\ completer' = completer /\ written' = written /\ gone' = gone
        /\ lookupFailed' = lookupFailed
        /\ knownMode' = knownMode /\ hints' = hints /\ latest' = latest
    BY DEF Data, side, failures
  <1>4. c \in started /\ c \notin peerClosed /\ (peer[c].kind = "escr" => written[c] # <<>>)
    BY DEF Data, MaySpeak
  <1>5. /\ h \in Nat /\ sent[c] < h /\ h <= StreamLength /\ sent[c] + 1 \in 1 .. StreamLength
        /\ h \in 1 .. StreamLength /\ h \in 0 .. StreamLength /\ sent[c] \in Nat
    BY <1>2, OneConnection, RelayAuthAutoAssumption
  <1>6. sent'[c] = h
    BY <1>1, <1>2 DEF VerifierTypeOK
  <1>. DEFINE t == Chunk(sent[c] + 1, h)
  <1>7. t \in Tasks /\ t.task = "data" /\ t.lo = sent[c] + 1 /\ t.hi = h
    BY <1>5, TaskFields
  <1>8. c \notin closed
    BY <1>4, OneConnection DEF CloseIsLast
  <1>. HIDE DEF t
  <1>9. ASSUME NEW d \in Connections \ {c} PROVE Untouched(d)
    BY <1>1, <1>2, <1>3 DEF VerifierTypeOK, HandOn, Enqueue, Untouched
  <1>10. CASE c \in authenticated /\ holder[c] = "none" /\ waiting[c] = <<>>
    <2>. DEFINE s == Tokens(sent[c] + 1, h)
    <2>1. out' = [out EXCEPT ![c] = @ \o s] /\ waiting' = waiting
      BY <1>2, <1>10 DEF HandOn
    <2>2. s \in Seq(1 .. StreamLength) /\ s \in Seq(Nat) /\ Len(s) = h - sent[c]
      <3>1. s \in Seq(1 .. StreamLength)
        BY <1>5, ChunkTyped
      <3>2. sent[c] + 1 \in Nat \ {0} /\ sent[c] + 1 <= h + 1 /\ h - (sent[c] + 1) + 1 = h - sent[c]
        BY <1>5
      <3>3. s \in Seq(Nat) /\ Len(s) = h - (sent[c] + 1) + 1
        BY <1>5, <3>2, TokensAre
      <3>. HIDE DEF s
      <3>. QED  BY <3>1, <3>2, <3>3
    <2>. HIDE DEF s
    <2>3. out'[c] = out[c] \o s
      BY <1>1, <2>1 DEF VerifierTypeOK
    <2>4. VerifierTypeOK'
      <3>1. out' \in [Connections -> Seq(1 .. StreamLength)]
        BY <1>1, <2>1, <2>2 DEF VerifierTypeOK
      <3>2. sent' \in [Connections -> 0 .. StreamLength]
        BY <1>1, <1>2, <1>5 DEF VerifierTypeOK
      <3>. QED  BY <1>1, <1>3, <2>1, <3>1, <3>2 DEF VerifierTypeOK
    <2>5. peer[c].valid /\ Relaying(c)
      BY <1>10, OneConnection DEF Phase, Reading, BeingVerified, Over, Judged, Verifies
    <2>6. LineLength + Len(out[c]) = sent[c]
      <3>1. QueueIs(waiting[c], LineLength + Len(out[c]), sent[c])
        BY <2>5 DEF Relaying
      <3>2. \A i \in DOMAIN waiting[c] : waiting[c][i].task # "data"
        BY <1>10
      <3>3. LineLength + Len(out[c]) \in Nat /\ sent[c] \in Nat
        BY OneConnection, RelayAuthAutoAssumption
      <3>. QED  BY <3>1, <3>2, <3>3, NoChunkWaits
    <2>7. out'[c] = Tokens(LineLength + 1, h) /\ Len(out'[c]) = h - LineLength
      <3>1. out[c] = Tokens(LineLength + 1, sent[c])
        BY <2>5, <2>6 DEF Relaying
      <3>2. /\ LineLength + 1 \in Nat \ {0} /\ LineLength + 1 <= sent[c] + 1 /\ sent[c] <= h
            /\ sent[c] \in Nat
        <4>1. Len(out[c]) \in Nat /\ LineLength \in Nat
          BY OneConnection, RelayAuthAutoAssumption
        <4>. QED  BY <1>5, <2>6, <4>1
      <3>3. out[c] \o s = Tokens(LineLength + 1, h)
        BY <1>5, <3>1, <3>2, TokensJoin DEF s
      <3>4. Len(out[c] \o s) = Len(out[c]) + Len(s)
        BY <2>2, OneConnection, ConcatProperties
      <3>5. Len(out[c]) + Len(s) = h - LineLength
        <4>1. Len(out[c]) \in Nat /\ LineLength \in Nat
          BY OneConnection, RelayAuthAutoAssumption
        <4>. QED  BY <1>5, <2>2, <2>6, <4>1
      <3>. QED  BY <2>3, <3>3, <3>4, <3>5
    <2>8. Relaying(c)'
      <3>1. LineLength + Len(out'[c]) = h
        BY <1>5, <2>7, RelayAuthAutoAssumption
      <3>2. QueueIs(<<>>, h, h)
        BY <1>5 DEF QueueIs
      <3>. QED  BY <1>3, <1>6, <1>10, <2>1, <2>5, <2>7, <3>1, <3>2 DEF Relaying
    <2>9. Connection(c)'
      <3>1. NotStarted(c)' /\ CloseIsLast(c)'
        BY <1>3, <1>4, <1>8, <1>10, <2>1, OneConnection DEF NotStarted, CloseIsLast
      <3>2. Spoken(c)' /\ Written(c)'
        BY <1>3, <1>4, <1>6, OneConnection DEF Spoken, Written
      <3>3. Judged(c)'
        BY <1>3, <1>5, <1>6, <1>10, OneConnection, RelayAuthAutoAssumption DEF Judged, Verifies
      <3>. QED  BY <1>3, <2>5, <2>8, <3>1, <3>2, <3>3 DEF Connection, Phase
    <2>. QED  BY <1>3, <1>9, <2>4, <2>9, OneTouched DEF VerifierInv
  <1>11. CASE ~(c \in authenticated /\ holder[c] = "none" /\ waiting[c] = <<>>)
    <2>. DEFINE q == waiting[c]  r == waiting'[c]
    <2>1. waiting' = [waiting EXCEPT ![c] = Append(@, t)] /\ out' = out
      BY <1>2, <1>11 DEF Enqueue, t
    <2>2. r = Append(q, t)
      BY <1>1, <2>1 DEF VerifierTypeOK
    <2>3. VerifierTypeOK'
      <3>1. waiting' \in [Connections -> Seq(Tasks)]
        BY <1>1, <1>7, <2>1 DEF VerifierTypeOK
      <3>2. sent' \in [Connections -> 0 .. StreamLength]
        BY <1>1, <1>2, <1>5 DEF VerifierTypeOK
      <3>. QED  BY <1>1, <1>3, <2>1, <3>1, <3>2 DEF VerifierTypeOK
    <2>4. ASSUME NEW n \in Nat, QueueIs(q, n, sent[c]) PROVE QueueIs(r, n, h)
      BY <1>5, <2>2, <2>4, ChunkJoins, OneConnection DEF t
    <2>5. CloseIsLast(c)'
      <3>1. /\ Len(q) \in Nat /\ DOMAIN q = 1 .. Len(q) /\ DOMAIN r = 1 .. Len(q) + 1
            /\ r[Len(q) + 1] = t /\ \A i \in 1 .. Len(q) : r[i] = q[i]
        BY <1>7, <2>2, AppendIs, OneConnection
      <3>2. \A i \in DOMAIN q : q[i].task # "close"
        BY <1>4, OneConnection DEF CloseIsLast
      <3>3. \A i \in DOMAIN r : r[i].task # "close"
        BY <1>7, <3>1, <3>2
      <3>. QED  BY <1>3, <1>8, <3>3 DEF CloseIsLast
    <2>6. NotStarted(c)' /\ Spoken(c)' /\ Written(c)'
      BY <1>3, <1>4, OneConnection DEF NotStarted, Spoken, Written
    <2>7. Judged(c)'
      BY <1>3, <1>5, <1>6, <2>1, OneConnection, RelayAuthAutoAssumption DEF Judged, Verifies
    <2>8. Phase(c)'
      <3>1. CASE ~peer[c].valid
        BY <1>3, <3>1, OneConnection DEF Phase
      <3>2. CASE peer[c].valid /\ Reading(c)
        BY <1>3, <1>6, <2>4, <3>2, OneConnection DEF Phase, Reading
      <3>3. CASE peer[c].valid /\ BeingVerified(c)
        <4>1. LineLength + Len(buffer[c]) \in Nat
          BY OneConnection, RelayAuthAutoAssumption
        <4>. QED  BY <1>3, <1>6, <2>4, <3>3, <4>1 DEF Phase, BeingVerified
      <3>4. CASE peer[c].valid /\ Relaying(c)
        <4>1. LineLength + Len(out[c]) \in Nat
          BY OneConnection, RelayAuthAutoAssumption
        <4>. QED  BY <1>3, <1>6, <2>1, <2>4, <3>4, <4>1 DEF Phase, Relaying
      <3>5. CASE peer[c].valid /\ Over(c)
        <4>1. PICK n \in LineLength .. sent[c] : QueueIs(q, n, sent[c])
          BY <3>5 DEF Over
        <4>2. n \in Nat /\ n \in LineLength .. h
          BY <1>5, OneConnection, RelayAuthAutoAssumption
        <4>3. QueueIs(r, n, h)
          BY <2>4, <4>1, <4>2
        <4>. QED  BY <1>3, <1>6, <3>5, <4>2, <4>3 DEF Phase, Over
      <3>. QED  BY <3>1, <3>2, <3>3, <3>4, <3>5, OneConnection DEF Phase
    <2>. QED  BY <1>3, <1>9, <2>3, <2>5, <2>6, <2>7, <2>8, OneTouched
                 DEF VerifierInv, Connection
  <1>. QED  BY <1>10, <1>11

\* Something other than a chunk joins the queue of a connection.
LEMMA TaskJoins ==
    ASSUME VerifierInv, NEW c \in Connections, NEW t \in Tasks, t.task # "data",
           t.task = "close" => c \in peerClosed', peerClosed \subseteq peerClosed', Enqueue(c, t),
           c \in started, peer' = peer, started' = started, sent' = sent, holder' = holder,
           mode' = mode, buffer' = buffer, authenticated' = authenticated, out' = out,
           closed' = closed, completer' = completer, written' = written, gone' = gone,
           lookupFailed' = lookupFailed
    PROVE  waiting' \in [Connections -> Seq(Tasks)] /\ Connection(c)'
  <1>. DEFINE q == waiting[c]  r == waiting'[c]
  <1>1. waiting \in [Connections -> Seq(Tasks)]
    BY DEF VerifierInv, VerifierTypeOK
  <1>2. waiting' = [waiting EXCEPT ![c] = Append(@, t)]
    BY DEF Enqueue
  <1>3. waiting' \in [Connections -> Seq(Tasks)] /\ r = Append(q, t) /\ q \in Seq(Tasks)
    BY <1>1, <1>2
  <1>4. /\ Len(q) \in Nat /\ DOMAIN q = 1 .. Len(q) /\ DOMAIN r = 1 .. Len(q) + 1
        /\ r[Len(q) + 1] = t /\ \A i \in 1 .. Len(q) : r[i] = q[i]
    BY <1>3, AppendIs
  <1>5. ASSUME NEW n \in Nat, QueueIs(q, n, sent[c]) PROVE QueueIs(r, n, sent[c])
    BY <1>3, <1>5, OtherJoins, OneConnection
  <1>. HIDE DEF r, q
  <1>6. CloseIsLast(c)'
    <2>1. \A i \in DOMAIN r : r[i].task = "data" => i \in DOMAIN q /\ r[i] = q[i]
      BY <1>4
    <2>2. c \in closed' => /\ c \in peerClosed' /\ holder'[c] \notin {"verifying", "accepting"}
                           /\ \A i \in DOMAIN r : r[i].task # "data"
      BY <2>1, OneConnection DEF CloseIsLast, q
    <2>3. ASSUME NEW i \in DOMAIN r, r[i].task = "close"
          PROVE  c \in peerClosed' /\ \A j \in DOMAIN r : j > i => r[j].task # "data"
      <3>1. CASE i = Len(q) + 1
        BY <1>4, <2>1, <2>3, <3>1
      <3>2. CASE i \in DOMAIN q
        <4>1. q[i].task = "close"
          BY <1>4, <2>3, <3>2
        <4>. QED  BY <2>1, <3>2, <4>1, OneConnection DEF CloseIsLast, q
      <3>. QED  BY <1>4, <3>1, <3>2
    <2>. QED  BY <2>2, <2>3 DEF CloseIsLast, r
  <1>7. NotStarted(c)' /\ Spoken(c)' /\ Written(c)' /\ Judged(c)'
    BY OneConnection DEF NotStarted, Spoken, Written, Judged, Verifies
  <1>8. Phase(c)'
    <2>1. CASE ~peer[c].valid
      BY <2>1, OneConnection DEF Phase
    <2>2. CASE peer[c].valid /\ Reading(c)
      BY <1>5, <2>2, OneConnection DEF Phase, Reading, q, r
    <2>3. CASE peer[c].valid /\ BeingVerified(c)
      <3>1. LineLength + Len(buffer[c]) \in Nat
        BY OneConnection, RelayAuthAutoAssumption
      <3>. QED  BY <1>5, <2>3, <3>1 DEF Phase, BeingVerified, q, r
    <2>4. CASE peer[c].valid /\ Relaying(c)
      <3>1. LineLength + Len(out[c]) \in Nat
        BY OneConnection, RelayAuthAutoAssumption
      <3>. QED  BY <1>5, <2>4, <3>1 DEF Phase, Relaying, q, r
    <2>5. CASE peer[c].valid /\ Over(c)
      <3>1. PICK n \in LineLength .. sent[c] : QueueIs(q, n, sent[c])
        BY <2>5 DEF Over, q
      <3>2. n \in Nat
        BY OneConnection, RelayAuthAutoAssumption
      <3>3. QueueIs(r, n, sent[c])
        BY <1>5, <3>1, <3>2
      <3>. QED  BY <2>5, <3>3 DEF Phase, Over, r
    <2>. QED  BY <2>1, <2>2, <2>3, <2>4, <2>5, OneConnection DEF Phase
  <1>. QED  BY <1>3, <1>6, <1>7, <1>8 DEF Connection

\* A peer that closes has nothing more to send.
LEMMA PeerClosesKeeps ==
    ASSUME VerifierInv, NEW c \in Connections, PeerCloses(c)
    PROVE  VerifierInv'
  <1>1. /\ c \in started /\ peerClosed' = peerClosed \cup {c} /\ Enqueue(c, Close)
        /\ peer' = peer /\ started' = started /\ sent' = sent /\ holder' = holder /\ mode' = mode
        /\ buffer' = buffer /\ authenticated' = authenticated /\ out' = out /\ closed' = closed
        /\ completer' = completer /\ written' = written /\ gone' = gone /\ timer' = timer
        /\ lookupFailed' = lookupFailed
        /\ knownMode' = knownMode /\ hints' = hints /\ latest' = latest
    BY DEF PeerCloses, MaySpeak, side, stream, failures
  <1>2. waiting' \in [Connections -> Seq(Tasks)] /\ Connection(c)'
    BY <1>1, TaskJoins, TaskFields
  <1>3. VerifierTypeOK'
    BY <1>1, <1>2 DEF VerifierInv, VerifierTypeOK
  <1>4. ASSUME NEW d \in Connections \ {c} PROVE Untouched(d)
    BY <1>1 DEF Enqueue, Untouched, VerifierInv, VerifierTypeOK
  <1>. QED  BY <1>1, <1>2, <1>3, <1>4, OneTouched DEF VerifierInv

\* The end of the detection window queues behind the chunks that wait.
LEMMA TimerFiresKeeps ==
    ASSUME VerifierInv, NEW c \in Connections, TimerFires(c)
    PROVE  VerifierInv'
  <1>1. /\ timer' = timer \ {c} /\ c \in timer /\ Enqueue(c, Resolve("escr"))
        /\ peer' = peer /\ started' = started /\ sent' = sent /\ holder' = holder /\ mode' = mode
        /\ buffer' = buffer /\ authenticated' = authenticated /\ out' = out /\ closed' = closed
        /\ completer' = completer /\ written' = written /\ gone' = gone /\ peerClosed' = peerClosed
        /\ lookupFailed' = lookupFailed
        /\ knownMode' = knownMode /\ hints' = hints /\ latest' = latest
    BY DEF TimerFires, side, stream, peers, failures
  <1>2. c \in started /\ "escr" \in Modes
    BY <1>1 DEF VerifierInv, Modes
  <1>3. waiting' \in [Connections -> Seq(Tasks)] /\ Connection(c)'
    BY <1>1, <1>2, TaskJoins, TaskFields
  <1>4. VerifierTypeOK'
    BY <1>1, <1>3 DEF VerifierInv, VerifierTypeOK
  <1>5. ASSUME NEW d \in Connections \ {c} PROVE Untouched(d)
    BY <1>1 DEF Enqueue, Untouched, VerifierInv, VerifierTypeOK
  <1>. QED  BY <1>1, <1>3, <1>4, <1>5, OneTouched DEF VerifierInv

\* A hint queues behind the chunks that wait.
LEMMA SetKnownModeKeeps ==
    ASSUME VerifierInv, NEW m \in Modes, SetKnownMode(m)
    PROVE  VerifierInv'
  <1>1. /\ peer' = peer /\ started' = started /\ sent' = sent /\ holder' = holder /\ mode' = mode
        /\ buffer' = buffer /\ authenticated' = authenticated /\ out' = out /\ closed' = closed
        /\ completer' = completer /\ written' = written /\ gone' = gone /\ peerClosed' = peerClosed
        /\ lookupFailed' = lookupFailed
        /\ latest' = latest /\ timer' = timer
    BY DEF SetKnownMode, stream, peers, failures
  <1>2. knownMode' \in Modes \cup {"none"} /\ hints' \in 0 .. MaxHints
    BY RelayAuthAutoAssumption DEF SetKnownMode, VerifierInv, VerifierTypeOK
  <1>3. CASE latest = NoConnection
    <2>1. waiting' = waiting
      BY <1>3 DEF SetKnownMode
    <2>2. VerifierTypeOK'
      BY <1>1, <1>2, <2>1 DEF VerifierInv, VerifierTypeOK
    <2>3. ASSUME NEW d \in Connections PROVE Connection(d)'
      <3>1. Untouched(d)
        BY <1>1, <2>1 DEF Untouched
      <3>. QED  BY <3>1, UntouchedStays DEF VerifierInv
    <2>. QED  BY <1>1, <2>2, <2>3 DEF VerifierInv
  <1>4. CASE latest # NoConnection
    <2>1. PICK c \in Connections : c = latest
      BY <1>4 DEF VerifierInv, VerifierTypeOK
    <2>2. c \in started /\ Enqueue(c, Resolve(m))
      BY <1>4, <2>1 DEF VerifierInv, SetKnownMode
    <2>3. waiting' \in [Connections -> Seq(Tasks)] /\ Connection(c)'
      BY <1>1, <2>2, TaskJoins, TaskFields
    <2>4. VerifierTypeOK'
      BY <1>1, <1>2, <2>3 DEF VerifierInv, VerifierTypeOK
    <2>5. ASSUME NEW d \in Connections \ {c} PROVE Untouched(d)
      BY <1>1, <2>2 DEF Enqueue, Untouched, VerifierInv, VerifierTypeOK
    <2>. QED  BY <1>1, <2>3, <2>4, <2>5, OneTouched DEF VerifierInv
  <1>. QED  BY <1>3, <1>4

\* A task leaves the queue of a connection.
LEMMA TaskLeaves ==
    ASSUME VerifierInv, NEW c \in Connections, NEW k, Acquire(c, k)
    PROVE  /\ waiting[c] # <<>> /\ Head(waiting[c]) \in Tasks /\ Head(waiting[c]).task = k
           /\ holder[c] = "none" /\ c \in started /\ c \notin timer \ started
           /\ waiting' \in [Connections -> Seq(Tasks)] /\ waiting'[c] = Tail(waiting[c])
           /\ \A d \in Connections \ {c} : waiting'[d] = waiting[d]
           /\ k = "data" => c \notin closed
           /\ k = "close" => c \in peerClosed /\ \A i \in DOMAIN waiting'[c] : waiting'[c][i].task # "data"
           /\ c \in closed => \A i \in DOMAIN waiting'[c] : waiting'[c][i].task # "data"
           /\ \A i \in DOMAIN waiting'[c] :
                 waiting'[c][i].task = "close" =>
                    /\ c \in peerClosed
                    /\ \A j \in DOMAIN waiting'[c] : j > i => waiting'[c][j].task # "data"
  <1>. DEFINE q == waiting[c]  r == Tail(q)
  <1>1. waiting \in [Connections -> Seq(Tasks)]
    BY DEF VerifierInv, VerifierTypeOK
  <1>2. /\ holder[c] = "none" /\ q # <<>> /\ Head(q).task = k
        /\ waiting' = [waiting EXCEPT ![c] = Tail(@)]
    BY DEF Acquire
  <1>3. /\ q \in Seq(Tasks) /\ waiting'[c] = r /\ \A d \in Connections \ {c} : waiting'[d] = waiting[d]
    BY <1>1, <1>2
  <1>4. /\ Head(q) \in Tasks /\ 1 \in DOMAIN q /\ q[1] = Head(q) /\ r \in Seq(Tasks)
        /\ DOMAIN q = 1 .. Len(q) /\ DOMAIN r = 1 .. Len(r) /\ Len(q) \in Nat /\ Len(r) = Len(q) - 1
        /\ \A i \in DOMAIN r : i + 1 \in DOMAIN q /\ r[i] = q[i + 1]
    BY <1>2, <1>3, TailIs
  <1>5. waiting' \in [Connections -> Seq(Tasks)]
    BY <1>1, <1>2, <1>4
  <1>6. c \in started
    BY <1>2, OneConnection DEF NotStarted
  <1>. HIDE DEF r
  <1>7. /\ k = "data" => c \notin closed
        /\ c \in closed => \A i \in DOMAIN r : r[i].task # "data"
    BY <1>2, <1>4, OneConnection DEF CloseIsLast
  <1>8. ASSUME NEW i \in DOMAIN r, r[i].task = "close"
        PROVE  c \in peerClosed /\ \A j \in DOMAIN r : j > i => r[j].task # "data"
    <2>1. i + 1 \in DOMAIN q /\ q[i + 1].task = "close"
      BY <1>4, <1>8
    <2>2. c \in peerClosed /\ \A j \in DOMAIN q : j > i + 1 => q[j].task # "data"
      BY <2>1, OneConnection DEF CloseIsLast
    <2>3. ASSUME NEW j \in DOMAIN r, j > i PROVE r[j].task # "data"
      <3>1. j + 1 \in DOMAIN q /\ j + 1 > i + 1 /\ r[j] = q[j + 1]
        BY <1>4, <2>3
      <3>. QED  BY <2>2, <3>1
    <2>. QED  BY <2>2, <2>3
  <1>9. k = "close" => c \in peerClosed /\ \A i \in DOMAIN r : r[i].task # "data"
    <2>. SUFFICES ASSUME k = "close" PROVE c \in peerClosed /\ \A i \in DOMAIN r : r[i].task # "data"
      OBVIOUS
    <2>1. c \in peerClosed /\ \A j \in DOMAIN q : j > 1 => q[j].task # "data"
      BY <1>2, <1>4, OneConnection DEF CloseIsLast
    <2>2. \A i \in DOMAIN r : i + 1 \in DOMAIN q /\ i + 1 > 1 /\ r[i] = q[i + 1]
      BY <1>4
    <2>. QED  BY <2>1, <2>2
  <1>. QED  BY <1>2, <1>3, <1>4, <1>5, <1>6, <1>7, <1>8, <1>9

\* Something other than a chunk leaves the queue: the phase is the same, as far
\* as nothing else changes it.
LEMMA PhaseWithout ==
    ASSUME VerifierInv, NEW c \in Connections, NEW k, Acquire(c, k), k # "data", peer[c].valid,
           authenticated' = authenticated, buffer' = buffer, out' = out, sent' = sent, peer' = peer,
           completer' = completer, holder'[c] \in {"none", "challenging"},
           ~Relaying(c) /\ mode[c] # "escr" => written'[c] \in {<<>>, <<"challenge">>},
           mode[c] = "escr" => written' = written
    PROVE  Phase(c)'
  <1>. DEFINE q == waiting[c]  r == waiting'[c]
  <1>1. q \in Seq(Tasks) /\ q # <<>> /\ Head(q).task # "data" /\ holder[c] = "none" /\ r = Tail(q)
    BY TaskLeaves, OneConnection
  <1>2. ASSUME NEW n \in Nat, QueueIs(q, n, sent[c]) PROVE QueueIs(r, n, sent[c])
    BY <1>1, <1>2, OtherLeaves, OneConnection
  <1>3. CASE Reading(c)
    <2>1. c \notin authenticated /\ written'[c] \in {<<>>, <<"challenge">>}
      BY <1>3 DEF Reading, Relaying
    <2>. QED  BY <1>2, <1>3, <2>1, OneConnection DEF Phase, Reading
  <1>4. CASE Relaying(c)
    <2>1. LineLength + Len(out[c]) \in Nat
      BY OneConnection, RelayAuthAutoAssumption
    <2>. QED  BY <1>2, <1>4, <2>1 DEF Phase, Relaying
  <1>5. CASE Over(c)
    <2>1. PICK n \in LineLength .. sent[c] : QueueIs(q, n, sent[c])
      BY <1>5 DEF Over
    <2>2. n \in Nat
      BY OneConnection, RelayAuthAutoAssumption
    <2>3. QueueIs(r, n, sent[c])
      BY <1>2, <2>1, <2>2
    <2>. QED  BY <1>1, <1>5, <2>3 DEF Phase, Over
  <1>. QED  BY <1>1, <1>3, <1>4, <1>5, OneConnection DEF Phase, BeingVerified

\* A close that gets the mutex ends the connection.
LEMMA RunCloseKeeps ==
    ASSUME VerifierInv, NEW c \in Connections, RunClose(c)
    PROVE  VerifierInv'
  <1>1. /\ Acquire(c, "close") /\ closed' = closed \cup {c}
        /\ peer' = peer /\ started' = started /\ sent' = sent /\ holder' = holder /\ mode' = mode
        /\ buffer' = buffer /\ authenticated' = authenticated /\ out' = out /\ peerClosed' = peerClosed
        /\ completer' = completer /\ written' = written /\ gone' = gone /\ timer' = timer
        /\ lookupFailed' = lookupFailed
        /\ knownMode' = knownMode /\ hints' = hints /\ latest' = latest
    BY DEF RunClose, side, peers, failures
  <1>2. /\ holder[c] = "none" /\ c \in started /\ c \in peerClosed
        /\ waiting' \in [Connections -> Seq(Tasks)]
        /\ \A d \in Connections \ {c} : waiting'[d] = waiting[d]
        /\ \A i \in DOMAIN waiting'[c] : waiting'[c][i].task # "data"
    BY <1>1, TaskLeaves
  <1>3. VerifierTypeOK'
    BY <1>1, <1>2 DEF VerifierInv, VerifierTypeOK
  <1>4. NotStarted(c)' /\ CloseIsLast(c)'
    BY <1>1, <1>2, OneConnection DEF NotStarted, CloseIsLast
  <1>5. Spoken(c)' /\ Written(c)' /\ Judged(c)'
    BY <1>1, OneConnection DEF Spoken, Written, Judged, Verifies
  <1>6. Phase(c)'
    <2>1. CASE ~peer[c].valid
      BY <1>1, <2>1, OneConnection DEF Phase
    <2>2. CASE peer[c].valid
      <3>1. ~Relaying(c) /\ mode[c] # "escr" => written'[c] \in {<<>>, <<"challenge">>}
        BY <1>1, OneConnection DEF Written
      <3>. QED  BY <1>1, <1>2, <2>2, <3>1, PhaseWithout
    <2>. QED  BY <2>1, <2>2
  <1>7. ASSUME NEW d \in Connections \ {c} PROVE Untouched(d)
    BY <1>1, <1>2 DEF Untouched, VerifierInv, VerifierTypeOK
  <1>. QED  BY <1>1, <1>3, <1>4, <1>5, <1>6, <1>7, OneTouched DEF VerifierInv, Connection

\* A mode is settled once, by the first to get the mutex.
LEMMA RunResolveKeeps ==
    ASSUME VerifierInv, NEW c \in Connections, RunResolve(c)
    PROVE  VerifierInv'
  <1>. DEFINE m == Head(waiting[c]).mode
  <1>1. /\ Acquire(c, "resolve") /\ closed' = closed
        /\ peer' = peer /\ started' = started /\ sent' = sent
        /\ buffer' = buffer /\ authenticated' = authenticated /\ out' = out /\ peerClosed' = peerClosed
        /\ completer' = completer /\ gone' = gone /\ lookupFailed' = lookupFailed
        /\ knownMode' = knownMode /\ hints' = hints /\ latest' = latest
    BY DEF RunResolve, side, peers, stream, failures
  <1>2. /\ holder[c] = "none" /\ c \in started
        /\ waiting' \in [Connections -> Seq(Tasks)]
        /\ \A d \in Connections \ {c} : waiting'[d] = waiting[d]
        /\ c \in closed => \A i \in DOMAIN waiting'[c] : waiting'[c][i].task # "data"
        /\ \A i \in DOMAIN waiting'[c] :
              waiting'[c][i].task = "close" =>
                 /\ c \in peerClosed
                 /\ \A j \in DOMAIN waiting'[c] : j > i => waiting'[c][j].task # "data"
    BY <1>1, TaskLeaves
  <1>3. m \in Modes
    BY <1>1, TaskLeaves, TaskFields
  <1>. HIDE DEF m
  <1>4. \/ mode[c] # "detecting" /\ mode' = mode /\ timer' = timer /\ written' = written /\ holder' = holder
        \/ /\ mode[c] = "detecting" /\ mode' = [mode EXCEPT ![c] = "legacy"]
           /\ timer' = timer \ {c} /\ written' = written /\ holder' = holder
        \/ /\ mode[c] = "detecting" /\ mode' = [mode EXCEPT ![c] = "escr"]
           /\ timer' = timer \ {c} /\ written' = [written EXCEPT ![c] = Append(@, "challenge")]
           /\ holder' = [holder EXCEPT ![c] = "challenging"]
    BY <1>3 DEF RunResolve, ResolveLocked, Write, Hold, Modes, m
  <1>5. VerifierTypeOK
    BY DEF VerifierInv
  <1>6. VerifierTypeOK' /\ timer' \subseteq started'
    <2>1. /\ mode' \in [Connections -> Modes \cup {"detecting"}]
          /\ timer' \subseteq {d \in Connections : mode'[d] = "detecting"}
      BY <1>4, <1>5 DEF VerifierTypeOK, Modes
    <2>2. holder' \in [Connections -> {"none", "challenging", "verifying", "accepting", "refusing"}]
      BY <1>4, <1>5 DEF VerifierTypeOK
    <2>3. written' \in [Connections -> Seq({"challenge", "ok", "failed"})]
      <3>1. Append(written[c], "challenge") \in Seq({"challenge", "ok", "failed"})
        BY <1>5 DEF VerifierTypeOK
      <3>2. written' \in {written, [written EXCEPT ![c] = Append(@, "challenge")]}
        BY <1>4
      <3>. QED  BY <1>5, <3>1, <3>2 DEF VerifierTypeOK
    <2>4. timer' \subseteq started'
      BY <1>1, <1>4 DEF VerifierInv
    <2>. QED  BY <1>1, <1>2, <1>5, <2>1, <2>2, <2>3, <2>4 DEF VerifierTypeOK
  <1>7. \/ mode[c] # "detecting" /\ mode' = mode /\ written' = written /\ holder'[c] = "none"
        \/ /\ mode[c] = "detecting" /\ mode'[c] = "legacy" /\ written[c] = <<>>
           /\ written'[c] = <<>> /\ holder'[c] = "none"
        \/ /\ mode[c] = "detecting" /\ mode'[c] = "escr" /\ written[c] = <<>>
           /\ written'[c] = <<"challenge">> /\ holder'[c] = "challenging"
    <2>1. mode[c] = "detecting" => written[c] = <<>>
      BY OneConnection DEF Written
    <2>2. /\ mode \in [Connections -> Modes \cup {"detecting"}] /\ DOMAIN written = Connections
          /\ DOMAIN holder = Connections
      BY <1>5 DEF VerifierTypeOK
    <2>. QED  BY <1>2, <1>4, <2>1, <2>2, Lines
  <1>8. mode[c] = "detecting" => c \notin authenticated
    BY OneConnection DEF Judged, Verifies
  <1>9. NotStarted(c)' /\ CloseIsLast(c)'
    BY <1>1, <1>2, <1>7, OneConnection DEF NotStarted, CloseIsLast
  <1>10. Spoken(c)'
    BY <1>1, <1>7, Lines, OneConnection DEF Spoken
  <1>11. Written(c)'
    <2>1. CASE mode[c] # "detecting"
      <3>1. mode'[c] = mode[c] /\ written'[c] = written[c] /\ holder'[c] = holder[c]
        BY <1>2, <1>7, <2>1
      <3>. QED  BY <1>1, <3>1, OneConnection DEF Written
    <2>2. CASE mode[c] = "detecting"
      <3>1. \/ mode'[c] = "legacy" /\ written'[c] = <<>>
            \/ mode'[c] = "escr" /\ written'[c] = <<"challenge">>
        BY <1>7, <2>2
      <3>. QED  BY <3>1, Lines DEF Written
    <2>. QED  BY <2>1, <2>2
  <1>12. Judged(c)'
    BY <1>1, <1>2, <1>7, <1>8, OneConnection DEF Judged, Verifies
  <1>13. Phase(c)'
    <2>1. CASE ~peer[c].valid
      BY <1>1, <1>7, <2>1, OneConnection DEF Phase
    <2>2. CASE peer[c].valid
      <3>1. ~Relaying(c) /\ mode[c] # "escr" => written'[c] \in {<<>>, <<"challenge">>}
        BY <1>7, OneConnection DEF Written
      <3>2. mode[c] = "escr" => written' = written
        BY <1>7
      <3>3. holder'[c] \in {"none", "challenging"}
        BY <1>7
      <3>. QED  BY <1>1, <2>2, <3>1, <3>2, <3>3, PhaseWithout
    <2>. QED  BY <2>1, <2>2
  <1>14. ASSUME NEW d \in Connections \ {c} PROVE Untouched(d)
    BY <1>1, <1>2, <1>4, <1>5 DEF Untouched, VerifierTypeOK
  <1>. QED  BY <1>1, <1>6, <1>9, <1>10, <1>11, <1>12, <1>13, <1>14, OneTouched
               DEF VerifierInv, Connection

\* A chunk that waited for the authentication to end is handed on.
LEMMA RunDataAuthenticatedKeeps ==
    ASSUME VerifierInv, NEW c \in Connections, RunDataAuthenticated(c)
    PROVE  VerifierInv'
  <1>. DEFINE q == waiting[c]  r == waiting'[c]  b == Head(q)  L == LineLength + Len(out[c])
              s == Tokens(b.lo, b.hi)
  <1>1. /\ Acquire(c, "data") /\ c \in authenticated
        /\ IF c \notin closed THEN HandOn(c, s) ELSE UNCHANGED out
        /\ peer' = peer /\ started' = started /\ sent' = sent /\ holder' = holder /\ mode' = mode
        /\ buffer' = buffer /\ authenticated' = authenticated /\ closed' = closed
        /\ completer' = completer /\ written' = written /\ gone' = gone /\ timer' = timer
        /\ lookupFailed' = lookupFailed
        /\ peerClosed' = peerClosed /\ knownMode' = knownMode /\ hints' = hints /\ latest' = latest
    BY DEF RunDataAuthenticated, side, peers, failures
  <1>2. VerifierTypeOK
    BY DEF VerifierInv
  <1>3. /\ q # <<>> /\ b.task = "data" /\ holder[c] = "none" /\ c \in started /\ c \notin closed
        /\ q \in Seq(Tasks) /\ waiting' \in [Connections -> Seq(Tasks)] /\ r = Tail(q)
        /\ \A d \in Connections \ {c} : waiting'[d] = waiting[d]
        /\ \A i \in DOMAIN r :
              r[i].task = "close" =>
                 c \in peerClosed /\ \A j \in DOMAIN r : j > i => r[j].task # "data"
        /\ b \in Tasks
    BY <1>1, TaskLeaves, OneConnection
  <1>4. peer[c].valid /\ Relaying(c)
    BY <1>1, OneConnection DEF Phase, Reading, BeingVerified, Over, Judged, Verifies
  <1>5. L \in Nat /\ sent[c] \in Nat /\ LineLength \in Nat /\ Len(out[c]) \in Nat
    BY OneConnection, RelayAuthAutoAssumption
  <1>6. b.lo = L + 1 /\ L < b.hi /\ b.hi <= sent[c] /\ QueueIs(r, b.hi, sent[c])
    <2>1. QueueIs(q, L, sent[c])
      BY <1>4 DEF Relaying
    <2>. HIDE DEF L, q, r
    <2>2. b.lo = L + 1 /\ L < b.hi /\ b.hi <= sent[c] /\ QueueIs(Tail(q), b.hi, sent[c])
      BY <1>3, <1>5, <2>1, ChunkLeaves DEF b
    <2>. QED  BY <1>3, <2>2
  <1>7. b.lo \in 1 .. StreamLength /\ b.hi \in 1 .. StreamLength
    BY <1>3, TaskFields
  <1>8. s \in Seq(1 .. StreamLength)
    BY <1>7, ChunkTyped
  <1>9. Len(s) = b.hi - L
    <2>. HIDE DEF L, b
    <2>1. L + 1 \in Nat \ {0} /\ b.hi \in Nat /\ L + 1 <= b.hi + 1 /\ b.hi - (L + 1) + 1 = b.hi - L
      BY <1>5, <1>6, <1>7
    <2>2. Len(Tokens(L + 1, b.hi)) = b.hi - (L + 1) + 1
      BY <2>1, TokensAre
    <2>. QED  BY <1>6, <2>1, <2>2
  <1>10. out' = [out EXCEPT ![c] = @ \o s]
    BY <1>1, <1>3 DEF HandOn
  <1>11. out[c] \o s = Tokens(LineLength + 1, b.hi)
    <2>1. out[c] = Tokens(LineLength + 1, L)
      BY <1>4 DEF Relaying
    <2>2. LineLength <= L /\ L <= b.hi /\ b.hi \in Nat
      BY <1>5, <1>6, <1>7
    <2>3. s = Tokens(L + 1, b.hi)
      BY <1>6
    <2>. HIDE DEF L, s, b
    <2>4. Tokens(LineLength + 1, L) \o Tokens(L + 1, b.hi) = Tokens(LineLength + 1, b.hi)
      BY <1>5, <2>2, StreamGrows
    <2>. QED  BY <2>1, <2>3, <2>4
  <1>. HIDE DEF s
  <1>12. out'[c] = Tokens(LineLength + 1, b.hi) /\ LineLength + Len(out'[c]) = b.hi
    <2>1. out'[c] = out[c] \o s
      BY <1>2, <1>10 DEF VerifierTypeOK
    <2>2. Len(out[c] \o s) = Len(out[c]) + Len(s)
      BY <1>8, OneConnection, ConcatProperties
    <2>3. b.hi \in Nat
      BY <1>7
    <2>. HIDE DEF b
    <2>4. LineLength + (Len(out[c]) + Len(s)) = b.hi
      BY <1>5, <1>9, <2>3
    <2>5. Len(out'[c]) = Len(out[c]) + Len(s)
      BY <2>1, <2>2
    <2>. QED  BY <1>11, <2>1, <2>4, <2>5
  <1>13. VerifierTypeOK'
    <2>1. out' \in [Connections -> Seq(1 .. StreamLength)]
      BY <1>2, <1>8, <1>10 DEF VerifierTypeOK
    <2>. QED  BY <1>1, <1>2, <1>3, <2>1 DEF VerifierTypeOK
  <1>14. Phase(c)'
    BY <1>1, <1>3, <1>4, <1>6, <1>12 DEF Phase, Relaying
  <1>15. NotStarted(c)' /\ CloseIsLast(c)'
    BY <1>1, <1>3, OneConnection DEF NotStarted, CloseIsLast
  <1>16. Spoken(c)' /\ Written(c)' /\ Judged(c)'
    BY <1>1, OneConnection DEF Spoken, Written, Judged, Verifies
  <1>17. ASSUME NEW d \in Connections \ {c} PROVE Untouched(d)
    BY <1>1, <1>2, <1>3, <1>10 DEF Untouched, VerifierTypeOK
  <1>. QED  BY <1>1, <1>13, <1>14, <1>15, <1>16, <1>17, OneTouched DEF VerifierInv, Connection

\* failAuth does nothing, tells a challenged peer, or refuses another.
LEMMA FailAuthIs ==
    ASSUME VerifierInv, NEW c \in Connections, NEW m, FailAuth(c, m),
           holder[c] \in {"none", "verifying"}, c \notin authenticated,
           m = "escr" <=> mode[c] = "escr"
    PROVE  /\ completer' \in [Connections -> {"open", "accepted", "refused"}]
           /\ holder' \in [Connections -> {"none", "challenging", "verifying", "accepting", "refusing"}]
           /\ written' \in [Connections -> Seq({"challenge", "ok", "failed"})]
           /\ \A d \in Connections \ {c} : /\ completer'[d] = completer[d] /\ holder'[d] = holder[d]
                                          /\ written'[d] = written[d]
           /\ \/ /\ completer[c] # "open" /\ completer'[c] = completer[c]
                 /\ holder'[c] = "none" /\ written'[c] = written[c]
              \/ /\ completer[c] = "open" /\ completer'[c] = "open" /\ m = "escr"
                 /\ holder'[c] = "refusing" /\ written'[c] = <<"challenge", "failed">>
              \/ /\ completer[c] = "open" /\ completer'[c] = "refused" /\ m # "escr"
                 /\ holder'[c] = "none" /\ written'[c] = written[c]
  <1>1. VerifierTypeOK
    BY DEF VerifierInv
  <1>2. /\ DOMAIN completer = Connections /\ DOMAIN holder = Connections /\ DOMAIN written = Connections
    BY <1>1 DEF VerifierTypeOK
  <1>3. CASE completer[c] # "open"
    <2>1. holder' = [holder EXCEPT ![c] = "none"] /\ completer' = completer /\ written' = written
      BY <1>3 DEF FailAuth, Hold
    <2>. QED  BY <1>1, <1>3, <2>1 DEF VerifierTypeOK
  <1>4. CASE completer[c] = "open" /\ m = "escr"
    <2>1. /\ holder' = [holder EXCEPT ![c] = "refusing"] /\ completer' = completer
          /\ written' = [written EXCEPT ![c] = Append(@, "failed")]
      BY <1>4 DEF FailAuth, Hold, Write
    <2>2. written[c] = <<"challenge">>
      BY <1>4, OneConnection DEF Written
    <2>3. Append(written[c], "failed") \in Seq({"challenge", "ok", "failed"})
      BY <1>1 DEF VerifierTypeOK
    <2>4. written' \in [Connections -> Seq({"challenge", "ok", "failed"})]
      BY <1>1, <2>1, <2>3 DEF VerifierTypeOK
    <2>5. written'[c] = <<"challenge", "failed">>
      BY <1>2, <2>1, <2>2, Lines
    <2>6. holder' \in [Connections -> {"none", "challenging", "verifying", "accepting", "refusing"}]
      BY <1>1, <2>1 DEF VerifierTypeOK
    <2>7. completer' \in [Connections -> {"open", "accepted", "refused"}]
      BY <1>1, <2>1 DEF VerifierTypeOK
    <2>. QED  BY <1>2, <1>4, <2>1, <2>4, <2>5, <2>6, <2>7
  <1>5. CASE completer[c] = "open" /\ m # "escr"
    <2>1. /\ holder' = [holder EXCEPT ![c] = "none"] /\ written' = written
          /\ completer' = [completer EXCEPT ![c] = "refused"]
      BY <1>5 DEF FailAuth, Hold
    <2>2. holder' \in [Connections -> {"none", "challenging", "verifying", "accepting", "refusing"}]
      BY <1>1, <2>1 DEF VerifierTypeOK
    <2>3. completer' \in [Connections -> {"open", "accepted", "refused"}]
      BY <1>1, <2>1 DEF VerifierTypeOK
    <2>. QED  BY <1>1, <1>2, <1>5, <2>1, <2>2, <2>3 DEF VerifierTypeOK
  <1>. QED  BY <1>3, <1>4, <1>5

\* What is left of a line and what came with it.
LEMMA RunDataKeeps ==
    ASSUME VerifierInv, NEW c \in Connections, RunData(c)
    PROVE  VerifierInv'
  <1>. DEFINE q == waiting[c]  r == waiting'[c]  b == Head(q)
              all == buffer[c] \o Tokens(b.lo, b.hi)
              unexpected == mode[c] = "detecting" /\ peer[c].kind = "junk"
              m == IF mode[c] = "detecting" /\ ~unexpected THEN "legacy" ELSE mode[c]
              tooMuch == Len(all) > MaxBuffer
              lineEnds == b.lo <= LineLength /\ LineLength <= b.hi
              idx == CHOOSE i \in DOMAIN all : all[i] = LineLength
              rest == IF lineEnds THEN SubSeq(all, idx + 1, Len(all)) ELSE all
  <1>1. /\ Acquire(c, "data") /\ c \notin authenticated /\ timer' = timer \ {c}
        /\ mode' = [mode EXCEPT ![c] = m]
        /\ peer' = peer /\ started' = started /\ sent' = sent
        /\ authenticated' = authenticated /\ closed' = closed /\ out' = out
        /\ gone' = gone /\ lookupFailed' = lookupFailed /\ peerClosed' = peerClosed
        /\ knownMode' = knownMode /\ hints' = hints /\ latest' = latest
    BY DEF RunData, side, peers, failures
  <1>2. VerifierTypeOK
    BY DEF VerifierInv
  <1>3. /\ q # <<>> /\ b.task = "data" /\ holder[c] = "none" /\ c \in started /\ c \notin closed
        /\ q \in Seq(Tasks) /\ waiting' \in [Connections -> Seq(Tasks)] /\ r = Tail(q)
        /\ \A d \in Connections \ {c} : waiting'[d] = waiting[d]
        /\ \A i \in DOMAIN r :
              r[i].task = "close" =>
                 c \in peerClosed /\ \A j \in DOMAIN r : j > i => r[j].task # "data"
        /\ b \in Tasks
    BY <1>1, TaskLeaves, OneConnection
  <1>4. b.lo \in 1 .. StreamLength /\ b.hi \in 1 .. StreamLength /\ b.lo \in Nat /\ b.hi \in Nat
    BY <1>3, TaskFields, RelayAuthAutoAssumption
  <1>5. all \in Seq(1 .. StreamLength) /\ Len(all) \in Nat
    <2>1. Tokens(b.lo, b.hi) \in Seq(1 .. StreamLength)
      BY <1>4, ChunkTyped
    <2>2. buffer[c] \in Seq(1 .. StreamLength)
      BY OneConnection
    <2>. DEFINE s == Tokens(b.lo, b.hi)
    <2>. HIDE DEF s
    <2>3. buffer[c] \o s \in Seq(1 .. StreamLength) /\ Len(buffer[c] \o s) \in Nat
      BY <2>1, <2>2, ConcatProperties, LenProperties DEF s
    <2>. QED  BY <2>3 DEF s
  <1>6. \/ /\ unexpected \/ tooMuch
           /\ FailAuth(c, m) /\ buffer' = buffer
        \/ /\ ~(unexpected \/ tooMuch)
           /\ buffer' = [buffer EXCEPT ![c] = rest]
           /\ holder' = [holder EXCEPT ![c] = IF lineEnds THEN "verifying" ELSE "none"]
           /\ completer' = completer /\ written' = written
    BY DEF RunData, Hold
  <1>. HIDE DEF all, rest, q, r, b
  <1>7. /\ m \in Modes \cup {"detecting"} /\ (m = "escr" <=> mode[c] = "escr")
        /\ m = "detecting" => unexpected
        /\ mode[c] # "detecting" => m = mode[c]
        /\ mode'[c] = m
    BY <1>1, <1>2 DEF VerifierTypeOK, Modes
  <1>8. /\ mode' \in [Connections -> Modes \cup {"detecting"}]
        /\ timer' \subseteq {d \in Connections : mode'[d] = "detecting"}
        /\ timer' \subseteq started'
        /\ \A d \in Connections \ {c} : mode'[d] = mode[d]
    BY <1>1, <1>2, <1>7 DEF VerifierTypeOK, VerifierInv
  <1>. HIDE DEF m
  <1>9. NotStarted(c)'
    BY <1>1, <1>3 DEF NotStarted
  <1>10. CloseIsLast(c)'
    BY <1>1, <1>3 DEF CloseIsLast, r
  <1>11. CASE (unexpected \/ tooMuch) /\ FailAuth(c, m) /\ buffer' = buffer
    <2>1. /\ completer' \in [Connections -> {"open", "accepted", "refused"}]
          /\ holder' \in [Connections -> {"none", "challenging", "verifying", "accepting", "refusing"}]
          /\ written' \in [Connections -> Seq({"challenge", "ok", "failed"})]
          /\ \A d \in Connections \ {c} : /\ completer'[d] = completer[d] /\ holder'[d] = holder[d]
                                         /\ written'[d] = written[d]
      BY <1>1, <1>3, <1>7, <1>11, FailAuthIs
    <2>2. \/ /\ completer[c] # "open" /\ completer'[c] = completer[c]
             /\ holder'[c] = "none" /\ written'[c] = written[c]
          \/ /\ completer[c] = "open" /\ completer'[c] = "open" /\ m = "escr"
             /\ holder'[c] = "refusing" /\ written'[c] = <<"challenge", "failed">>
          \/ /\ completer[c] = "open" /\ completer'[c] = "refused" /\ m # "escr"
             /\ holder'[c] = "none" /\ written'[c] = written[c]
      BY <1>1, <1>3, <1>7, <1>11, FailAuthIs
    <2>3. VerifierTypeOK'
      BY <1>1, <1>2, <1>3, <1>8, <1>11, <2>1 DEF VerifierTypeOK
    <2>4. ASSUME NEW d \in Connections \ {c} PROVE Untouched(d)
      BY <1>1, <1>3, <1>8, <1>11, <2>1 DEF Untouched
    <2>5. Spoken(c)' /\ Written(c)'
      BY <1>1, <1>3, <1>7, <2>2, Lines, OneConnection DEF Spoken, Written
    <2>6. Phase(c)' /\ Judged(c)'
      <3>1. CASE ~peer[c].valid
        BY <1>1, <2>2, <3>1, OneConnection DEF Phase, Judged
      <3>2. CASE peer[c].valid /\ Reading(c)
        <4>1. /\ b.lo = Len(buffer[c]) + 1 /\ Len(buffer[c]) < b.hi /\ b.hi <= sent[c]
              /\ QueueIs(r, b.hi, sent[c])
          BY <1>3, <3>2, ChunkLeaves, OneConnection DEF Reading, b, q
        <4>2. all = Tokens(1, b.hi) /\ Len(all) = b.hi
          <5>1. buffer[c] = Tokens(1, Len(buffer[c])) /\ Len(buffer[c]) \in Nat
            BY <3>2, OneConnection DEF Reading
          <5>2. Len(buffer[c]) <= b.hi
            BY <1>4, <4>1, <5>1
          <5>3. /\ Tokens(1, Len(buffer[c])) \o Tokens(Len(buffer[c]) + 1, b.hi) = Tokens(1, b.hi)
                /\ Len(Tokens(1, b.hi)) = b.hi
            BY <1>4, <5>1, <5>2, LineGrows
          <5>4. all = Tokens(1, Len(buffer[c])) \o Tokens(Len(buffer[c]) + 1, b.hi)
            BY <4>1, <5>1 DEF all
          <5>. QED  BY <5>3, <5>4
        <4>3. tooMuch
          BY <1>11, <3>2, OneConnection
        <4>4. b.hi \in LineLength .. sent[c] /\ sent[c] > MaxBuffer
          BY <1>4, <4>1, <4>2, <4>3, OneConnection, RelayAuthAutoAssumption
        <4>5. Over(c)'
          BY <1>1, <2>2, <4>1, <4>4 DEF Over, r
        <4>. QED  BY <1>1, <2>2, <3>2, <4>4, <4>5, OneConnection DEF Phase, Judged
      <3>3. CASE peer[c].valid /\ Over(c)
        <4>1. PICK n \in LineLength .. sent[c] : QueueIs(q, n, sent[c])
          BY <3>3 DEF Over, q
        <4>2. n \in Nat /\ sent[c] \in Nat
          BY OneConnection, RelayAuthAutoAssumption
        <4>3. n < b.hi /\ b.hi <= sent[c] /\ QueueIs(r, b.hi, sent[c])
          BY <1>3, <4>1, <4>2, ChunkLeaves DEF b
        <4>4. b.hi \in LineLength .. sent[c]
          BY <1>4, <4>2, <4>3, RelayAuthAutoAssumption
        <4>5. completer[c] # "open"
          BY <1>3, <3>3 DEF Over
        <4>6. Over(c)'
          BY <1>1, <2>2, <4>3, <4>4, <4>5 DEF Over, r
        <4>7. Judged(c)'
          BY <1>1, <1>7, <2>2, <4>5, OneConnection DEF Judged
        <4>. QED  BY <1>1, <3>3, <4>6, <4>7 DEF Phase
      <3>. QED  BY <1>1, <1>3, <3>1, <3>2, <3>3, OneConnection
                   DEF Phase, BeingVerified, Relaying
    <2>. QED  BY <1>1, <1>8, <1>9, <1>10, <2>3, <2>4, <2>5, <2>6, OneTouched
                 DEF VerifierInv, Connection
  <1>12. CASE /\ ~(unexpected \/ tooMuch)
              /\ buffer' = [buffer EXCEPT ![c] = rest]
              /\ holder' = [holder EXCEPT ![c] = IF lineEnds THEN "verifying" ELSE "none"]
              /\ completer' = completer /\ written' = written
    <2>1. rest \in Seq(1 .. StreamLength)
      <3>1. CASE lineEnds
        <4>1. idx \in DOMAIN all
          <5>. DEFINE s == Tokens(b.lo, b.hi)  k == LineLength - b.lo + 1
          <5>1. /\ s \in Seq(1 .. StreamLength) /\ Len(s) = b.hi - b.lo + 1
                /\ k \in 1 .. b.hi - b.lo + 1 /\ s[k] = LineLength
            <6>1. b.lo \in Nat \ {0} /\ b.hi \in Nat /\ b.lo <= b.hi + 1 /\ k \in 1 .. b.hi - b.lo + 1
              BY <1>4, <3>1, RelayAuthAutoAssumption
            <6>2. s \in Seq(1 .. StreamLength)
              BY <1>4, ChunkTyped
            <6>3. Len(s) = b.hi - b.lo + 1 /\ s[k] = b.lo + k - 1
              BY <6>1, TokensAre
            <6>4. b.lo + k - 1 = LineLength
              BY <1>4, RelayAuthAutoAssumption
            <6>. QED  BY <6>1, <6>2, <6>3, <6>4
          <5>. HIDE DEF s, k
          <5>2. /\ Len(buffer[c] \o s) = Len(buffer[c]) + Len(s)
                /\ \A i \in 1 .. Len(buffer[c]) + Len(s) :
                      (buffer[c] \o s)[i] = IF i <= Len(buffer[c]) THEN buffer[c][i]
                                            ELSE s[i - Len(buffer[c])]
            <6>1. buffer[c] \in Seq(1 .. StreamLength)
              BY OneConnection
            <6>. QED  BY <5>1, <6>1, ConcatProperties
          <5>3. /\ Len(buffer[c]) \in Nat /\ Len(buffer[c]) + k \in 1 .. Len(buffer[c]) + Len(s)
                /\ ~(Len(buffer[c]) + k <= Len(buffer[c])) /\ (Len(buffer[c]) + k) - Len(buffer[c]) = k
            <6>1. Len(buffer[c]) \in Nat
              BY OneConnection
            <6>. QED  BY <1>4, <5>1, <6>1
          <5>4. (buffer[c] \o s)[Len(buffer[c]) + k] = LineLength
            BY <5>1, <5>2, <5>3
          <5>5. all = buffer[c] \o s
            BY DEF all, s
          <5>6. DOMAIN all = 1 .. Len(buffer[c]) + Len(s)
            BY <1>5, <5>2, <5>5, LenProperties
          <5>7. \E i \in DOMAIN all : all[i] = LineLength
            BY <5>3, <5>4, <5>5, <5>6
          <5>. QED  BY <5>7
        <4>. HIDE DEF idx
        <4>2. idx + 1 \in 1 .. Len(all) + 1
          BY <1>5, <4>1, LenProperties
        <4>3. \A i \in 1 .. Len(all) : all[i] \in 1 .. StreamLength
          BY <1>5, ElementOfSeq
        <4>4. SubSeq(all, idx + 1, Len(all)) \in Seq(1 .. StreamLength)
          <5>1. idx + 1 \in Int /\ Len(all) \in Int
            BY <1>5, <4>2
          <5>2. \A i \in idx + 1 .. Len(all) : all[i] \in 1 .. StreamLength
            BY <1>5, <4>2, <4>3
          <5>. QED  BY <5>1, <5>2, SubSeqProperties
        <4>. QED  BY <3>1, <4>4 DEF rest
      <3>2. CASE ~lineEnds
        BY <1>5, <3>2 DEF rest
      <3>. QED  BY <3>1, <3>2
    <2>2. buffer' \in [Connections -> Seq(1 .. StreamLength)] /\ buffer'[c] = rest
      BY <1>2, <1>12, <2>1 DEF VerifierTypeOK
    <2>3. /\ holder' \in [Connections -> {"none", "challenging", "verifying", "accepting", "refusing"}]
          /\ holder'[c] = IF lineEnds THEN "verifying" ELSE "none"
      BY <1>2, <1>12 DEF VerifierTypeOK
    <2>4. VerifierTypeOK'
      BY <1>1, <1>2, <1>3, <1>8, <1>12, <2>2, <2>3 DEF VerifierTypeOK
    <2>5. ASSUME NEW d \in Connections \ {c} PROVE Untouched(d)
      BY <1>1, <1>2, <1>3, <1>8, <1>12 DEF Untouched, VerifierTypeOK
    <2>6. Spoken(c)' /\ Written(c)' /\ Judged(c)'
      BY <1>1, <1>3, <1>7, <1>12, <2>3, OneConnection DEF Spoken, Written, Judged
    <2>7. Phase(c)'
      <3>1. CASE ~peer[c].valid
        BY <1>1, <2>3, <3>1, OneConnection DEF Phase
      <3>2. CASE peer[c].valid /\ Reading(c)
        <4>1. /\ b.lo = Len(buffer[c]) + 1 /\ Len(buffer[c]) < b.hi /\ b.hi <= sent[c]
              /\ QueueIs(r, b.hi, sent[c])
          BY <1>3, <3>2, ChunkLeaves, OneConnection DEF Reading, b, q
        <4>2. all = Tokens(1, b.hi) /\ Len(all) = b.hi
          <5>1. buffer[c] = Tokens(1, Len(buffer[c])) /\ Len(buffer[c]) \in Nat
            BY <3>2, OneConnection DEF Reading
          <5>2. Len(buffer[c]) <= b.hi
            BY <1>4, <4>1, <5>1
          <5>3. /\ Tokens(1, Len(buffer[c])) \o Tokens(Len(buffer[c]) + 1, b.hi) = Tokens(1, b.hi)
                /\ Len(Tokens(1, b.hi)) = b.hi
            BY <1>4, <5>1, <5>2, LineGrows
          <5>4. all = Tokens(1, Len(buffer[c])) \o Tokens(Len(buffer[c]) + 1, b.hi)
            BY <4>1, <5>1 DEF all
          <5>. QED  BY <5>3, <5>4
        <4>3. CASE lineEnds
          <5>1. LineLength \in 1 .. b.hi
            BY <1>4, <4>3, RelayAuthAutoAssumption
          <5>2. idx = LineLength /\ SubSeq(all, LineLength + 1, Len(all)) = Tokens(LineLength + 1, b.hi)
            <6>. DEFINE h == b.hi
            <6>1. h \in Nat /\ LineLength \in 1 .. h /\ all = Tokens(1, h)
              BY <1>4, <4>2, <5>1
            <6>. HIDE DEF h
            <6>2. /\ DOMAIN all = 1 .. h /\ \A k \in 1 .. h : all[k] = k
                  /\ SubSeq(all, LineLength + 1, h) = Tokens(LineLength + 1, h)
              BY <6>1, TokensCut
            <6>3. idx \in DOMAIN all /\ all[idx] = LineLength
              <7>1. \E i \in DOMAIN all : all[i] = LineLength
                BY <6>1, <6>2
              <7>. QED  BY <7>1
            <6>. HIDE DEF idx
            <6>4. idx = LineLength
              BY <6>2, <6>3
            <6>. QED  BY <4>2, <6>2, <6>4 DEF h
          <5>3. rest = Tokens(LineLength + 1, b.hi)
            BY <4>3, <5>2 DEF rest
          <5>4. LineLength + Len(rest) = b.hi
            <6>1. LineLength + 1 \in Nat \ {0} /\ LineLength + 1 <= b.hi + 1
              BY <1>4, <5>1, RelayAuthAutoAssumption
            <6>2. Len(rest) = b.hi - (LineLength + 1) + 1
              BY <1>4, <5>3, <6>1, TokensAre
            <6>. QED  BY <1>4, <6>2, RelayAuthAutoAssumption
          <5>5. BeingVerified(c)'
            BY <1>1, <1>3, <1>12, <2>2, <2>3, <3>2, <4>1, <4>3, <5>3, <5>4
               DEF BeingVerified, Reading, r
          <5>. QED  BY <1>1, <3>2, <5>5 DEF Phase
        <4>4. CASE ~lineEnds
          <5>1. b.hi < LineLength
            BY <1>4, <3>2, <4>1, <4>4, OneConnection, RelayAuthAutoAssumption DEF Reading
          <5>2. rest = all
            BY <4>4 DEF rest
          <5>3. Reading(c)'
            BY <1>1, <1>12, <2>2, <2>3, <3>2, <4>1, <4>2, <4>4, <5>1, <5>2 DEF Reading, r
          <5>. QED  BY <1>1, <3>2, <5>3 DEF Phase
        <4>. QED  BY <4>3, <4>4
      <3>3. CASE peer[c].valid /\ Over(c)
        <4>1. PICK n \in LineLength .. sent[c] : QueueIs(q, n, sent[c])
          BY <3>3 DEF Over, q
        <4>2. n \in Nat /\ sent[c] \in Nat
          BY OneConnection, RelayAuthAutoAssumption
        <4>3. b.lo = n + 1 /\ n < b.hi /\ b.hi <= sent[c] /\ QueueIs(r, b.hi, sent[c])
          BY <1>3, <4>1, <4>2, ChunkLeaves DEF b
        <4>4. b.hi \in LineLength .. sent[c] /\ ~lineEnds
          BY <1>4, <4>2, <4>3, RelayAuthAutoAssumption
        <4>5. completer[c] # "open"
          BY <1>3, <3>3 DEF Over
        <4>6. Over(c)'
          BY <1>1, <1>12, <2>3, <4>3, <4>4, <4>5 DEF Over, r
        <4>. QED  BY <1>1, <3>3, <4>6 DEF Phase
      <3>. QED  BY <1>1, <1>3, <3>1, <3>2, <3>3, OneConnection
                   DEF Phase, BeingVerified, Relaying
    <2>. QED  BY <1>1, <1>8, <1>9, <1>10, <2>4, <2>5, <2>6, <2>7, OneTouched
                 DEF VerifierInv, Connection
  <1>. QED  BY <1>6, <1>11, <1>12

\* handleLegacyLine or handleEscrLine throws: an ESCR peer has been challenged,
\* so what a good line fails in is being a legacy one, or a lookup.
LEMMA VerifyThrowsKeeps ==
    ASSUME VerifierInv, NEW c \in Connections, VerifyThrows(c)
    PROVE  VerifierInv'
  <1>1. /\ holder[c] = "verifying" /\ FailAuth(c, mode[c])
        /\ lookupFailed' = IF Verifies(c) THEN lookupFailed \cup {c} ELSE lookupFailed
        /\ peer' = peer /\ started' = started /\ sent' = sent /\ waiting' = waiting /\ mode' = mode
        /\ buffer' = buffer /\ authenticated' = authenticated /\ out' = out /\ closed' = closed
        /\ gone' = gone /\ timer' = timer /\ peerClosed' = peerClosed
        /\ knownMode' = knownMode /\ hints' = hints /\ latest' = latest
    BY DEF VerifyThrows, side, peers, stream
  <1>2. c \in started /\ mode[c] # "detecting"
    BY <1>1, OneConnection DEF NotStarted, Spoken
  <1>3. peer[c].valid => BeingVerified(c)
    BY <1>1, OneConnection DEF Phase, Reading, Relaying, Over
  <1>4. c \notin authenticated /\ c \notin closed
    <2>1. c \notin closed
      BY <1>1, OneConnection DEF CloseIsLast
    <2>2. c \notin authenticated
      BY <1>3, OneConnection DEF Judged, Verifies, BeingVerified
    <2>. QED  BY <2>1, <2>2
  <1>5. /\ completer' \in [Connections -> {"open", "accepted", "refused"}]
        /\ holder' \in [Connections -> {"none", "challenging", "verifying", "accepting", "refusing"}]
        /\ written' \in [Connections -> Seq({"challenge", "ok", "failed"})]
        /\ \A d \in Connections \ {c} : /\ completer'[d] = completer[d] /\ holder'[d] = holder[d]
                                       /\ written'[d] = written[d]
    BY <1>1, <1>4, FailAuthIs
  <1>6. \/ /\ completer[c] # "open" /\ completer'[c] = completer[c]
           /\ holder'[c] = "none" /\ written'[c] = written[c]
        \/ /\ completer[c] = "open" /\ completer'[c] = "open" /\ mode[c] = "escr"
           /\ holder'[c] = "refusing" /\ written'[c] = <<"challenge", "failed">>
        \/ /\ completer[c] = "open" /\ completer'[c] = "refused" /\ mode[c] # "escr"
           /\ holder'[c] = "none" /\ written'[c] = written[c]
    BY <1>1, <1>4, FailAuthIs
  <1>7. VerifierTypeOK'
    BY <1>1, <1>5 DEF VerifierInv, VerifierTypeOK
  <1>8. ASSUME NEW d \in Connections \ {c} PROVE Untouched(d)
    BY <1>1, <1>5 DEF Untouched
  <1>9. peer[c].valid /\ c \notin lookupFailed' => peer[c].kind = "legacy" /\ mode[c] = "escr"
    <2>. SUFFICES ASSUME peer[c].valid, c \notin lookupFailed'
                  PROVE  peer[c].kind = "legacy" /\ mode[c] = "escr"
      OBVIOUS
    <2>1. sent[c] > 0
      BY <1>3, OneConnection, RelayAuthAutoAssumption DEF BeingVerified, QueueIs
    <2>2. peer[c].kind \in {"legacy", "escr"} /\ peer[c].kind # mode[c]
      BY <1>1, <1>2, OneConnection DEF Spoken, Verifies
    <2>3. peer[c].kind # "escr"
      BY <2>1, <2>2, OneConnection DEF Spoken, Written
    <2>. QED  BY <1>2, <2>2, <2>3, OneConnection
  <1>10. NotStarted(c)' /\ CloseIsLast(c)' /\ Spoken(c)'
    <2>1. NotStarted(c)'
      BY <1>1, <1>2 DEF NotStarted
    <2>2. CloseIsLast(c)'
      BY <1>1, <1>4, OneConnection DEF CloseIsLast
    <2>3. written[c] # <<>> => written'[c] # <<>>
      BY <1>6, Lines
    <2>4. holder'[c] # "verifying"
      BY <1>6
    <2>. QED  BY <1>1, <2>1, <2>2, <2>3, <2>4, OneConnection DEF Spoken
  <1>11. Written(c)'
    BY <1>1, <1>6, Lines, OneConnection DEF Written
  <1>12. Judged(c)'
    BY <1>1, <1>4, <1>6, <1>9, OneConnection DEF Judged
  <1>13. Phase(c)'
    <2>1. CASE ~peer[c].valid
      BY <1>1, <1>4, <1>6, <2>1 DEF Phase
    <2>2. CASE peer[c].valid
      <3>1. /\ LineLength + Len(buffer[c]) \in LineLength .. sent[c]
            /\ QueueIs(waiting[c], LineLength + Len(buffer[c]), sent[c])
        BY <1>3, <2>2, OneConnection, RelayAuthAutoAssumption DEF BeingVerified, QueueIs
      <3>2. Over(c)'
        BY <1>1, <1>4, <1>6, <3>1 DEF Over
      <3>. QED  BY <1>1, <2>2, <3>2 DEF Phase
    <2>. QED  BY <2>1, <2>2
  <1>. QED  BY <1>1, <1>7, <1>8, <1>10, <1>11, <1>12, <1>13, OneTouched
               DEF VerifierInv, Connection

\* What came behind the line is the first that is handed on.
LEMMA CompleteSuccessKeeps ==
    ASSUME VerifierInv, NEW c \in Connections, Verifies(c), holder[c] \in {"verifying", "accepting"},
           CompleteSuccess(c), Hold(c, "none"),
           UNCHANGED <<hints, latest, peers, waiting, mode, timer, closed, written, failures>>
    PROVE  VerifierInv'
  <1>1. /\ holder' = [holder EXCEPT ![c] = "none"] /\ authenticated' = authenticated \cup {c}
        /\ knownMode' = (IF knownMode = "none" THEN mode[c] ELSE knownMode)
        /\ completer' = [completer EXCEPT ![c] = IF @ = "open" THEN "accepted" ELSE @]
        /\ IF c \notin closed THEN HandOn(c, buffer[c]) ELSE UNCHANGED out
        /\ buffer' = [buffer EXCEPT ![c] = <<>>]
        /\ peer' = peer /\ started' = started /\ sent' = sent /\ waiting' = waiting /\ mode' = mode
        /\ closed' = closed /\ written' = written
        /\ gone' = gone /\ timer' = timer /\ peerClosed' = peerClosed
        /\ lookupFailed' = lookupFailed
        /\ hints' = hints /\ latest' = latest
    BY DEF CompleteSuccess, Hold, peers, failures
  <1>2. VerifierTypeOK
    BY DEF VerifierInv
  <1>3. peer[c].valid /\ mode[c] \in Modes
    BY OneConnection DEF Verifies, Modes
  <1>4. BeingVerified(c) /\ c \notin closed /\ c \in started
    <2>1. BeingVerified(c)
      BY <1>3, OneConnection DEF Phase, Reading, Relaying, Over
    <2>. QED  BY <2>1, OneConnection DEF BeingVerified, NotStarted
  <1>5. out[c] = <<>>
    BY <1>4, OneConnection DEF BeingVerified, Judged
  <1>6. out' = [out EXCEPT ![c] = @ \o buffer[c]]
    BY <1>1, <1>4 DEF HandOn
  <1>7. <<>> \o buffer[c] = buffer[c]
    BY OneConnection, ConcatEmptySeq
  <1>8. out'[c] = buffer[c]
    BY <1>2, <1>5, <1>6, <1>7 DEF VerifierTypeOK
  <1>9. VerifierTypeOK'
    <2>1. out' \in [Connections -> Seq(1 .. StreamLength)]
      BY <1>2, <1>5, <1>6, <1>7 DEF VerifierTypeOK
    <2>2. buffer' \in [Connections -> Seq(1 .. StreamLength)]
      BY <1>1, <1>2 DEF VerifierTypeOK
    <2>3. /\ holder' \in [Connections -> {"none", "challenging", "verifying", "accepting", "refusing"}]
          /\ completer' \in [Connections -> {"open", "accepted", "refused"}]
      BY <1>1, <1>2 DEF VerifierTypeOK
    <2>4. knownMode' \in Modes \cup {"none"} /\ authenticated' \subseteq Connections
      BY <1>1, <1>2, <1>3 DEF VerifierTypeOK
    <2>5. /\ hints' \in 0 .. MaxHints /\ latest' \in Connections \cup {NoConnection}
          /\ peer' \in [Connections -> Peers] /\ started' \subseteq Connections
          /\ sent' \in [Connections -> 0 .. StreamLength] /\ peerClosed' \subseteq Connections
          /\ waiting' \in [Connections -> Seq(Tasks)]
          /\ mode' \in [Connections -> Modes \cup {"detecting"}]
          /\ timer' \subseteq {d \in Connections : mode'[d] = "detecting"}
          /\ closed' \subseteq Connections
          /\ gone' \subseteq Connections /\ lookupFailed' \subseteq Connections
          /\ written' \in [Connections -> Seq({"challenge", "ok", "failed"})]
      BY <1>1, <1>2 DEF VerifierTypeOK
    <2>. QED  BY <2>1, <2>2, <2>3, <2>4, <2>5 DEF VerifierTypeOK
  <1>10. /\ holder'[c] = "none" /\ c \in authenticated'
         /\ completer'[c] = (IF completer[c] = "open" THEN "accepted" ELSE completer[c])
    BY <1>1, <1>2 DEF VerifierTypeOK
  <1>11. NotStarted(c)' /\ CloseIsLast(c)' /\ Spoken(c)'
    BY <1>1, <1>4, <1>10, OneConnection DEF NotStarted, CloseIsLast, Spoken
  <1>12. Written(c)'
    BY <1>1, <1>10, OneConnection DEF Written
  <1>13. Judged(c)'
    BY <1>1, <1>10, OneConnection DEF Judged, Verifies
  <1>14. Phase(c)'
    BY <1>1, <1>3, <1>4, <1>8, <1>10 DEF Phase, BeingVerified, Relaying
  <1>15. ASSUME NEW d \in Connections \ {c} PROVE Untouched(d)
    BY <1>1, <1>2, <1>6 DEF Untouched, VerifierTypeOK
  <1>. QED  BY <1>1, <1>9, <1>11, <1>12, <1>13, <1>14, <1>15, OneTouched
               DEF VerifierInv, Connection

\* A verified challenge is answered with an ok, flushed with the mutex held.
LEMMA EscrVerifiedKeeps ==
    ASSUME VerifierInv, NEW c \in Connections, EscrVerified(c)
    PROVE  VerifierInv'
  <1>1. /\ holder[c] = "verifying" /\ Verifies(c) /\ mode[c] = "escr"
        /\ holder' = [holder EXCEPT ![c] = "accepting"]
        /\ written' = [written EXCEPT ![c] = Append(@, "ok")]
        /\ peer' = peer /\ started' = started /\ sent' = sent /\ waiting' = waiting /\ mode' = mode
        /\ buffer' = buffer /\ authenticated' = authenticated /\ out' = out /\ closed' = closed
        /\ gone' = gone /\ timer' = timer /\ peerClosed' = peerClosed /\ completer' = completer
        /\ lookupFailed' = lookupFailed
        /\ knownMode' = knownMode /\ hints' = hints /\ latest' = latest
    BY DEF EscrVerified, Write, Hold, side, peers, stream, failures
  <1>2. VerifierTypeOK
    BY DEF VerifierInv
  <1>3. peer[c].valid /\ BeingVerified(c)
    BY <1>1, OneConnection DEF Verifies, Phase, Reading, Relaying, Over
  <1>4. c \in started /\ c \notin closed /\ written[c] = <<"challenge">>
    BY <1>1, <1>3, OneConnection DEF BeingVerified, NotStarted, Written
  <1>5. written'[c] = <<"challenge", "ok">> /\ holder'[c] = "accepting"
    <2>1. DOMAIN written = Connections /\ DOMAIN holder = Connections
      BY <1>2 DEF VerifierTypeOK
    <2>. QED  BY <1>1, <1>4, <2>1, Lines
  <1>6. VerifierTypeOK'
    <2>1. holder' \in [Connections -> {"none", "challenging", "verifying", "accepting", "refusing"}]
      BY <1>1, <1>2 DEF VerifierTypeOK
    <2>2. Append(written[c], "ok") \in Seq({"challenge", "ok", "failed"})
      BY <1>2 DEF VerifierTypeOK
    <2>3. written' \in [Connections -> Seq({"challenge", "ok", "failed"})]
      BY <1>1, <1>2, <2>2 DEF VerifierTypeOK
    <2>. QED  BY <1>1, <1>2, <2>1, <2>3 DEF VerifierTypeOK
  <1>7. NotStarted(c)' /\ CloseIsLast(c)' /\ Spoken(c)'
    BY <1>1, <1>4, <1>5, Lines, OneConnection DEF NotStarted, CloseIsLast, Spoken
  <1>8. Written(c)'
    BY <1>1, <1>5, Lines DEF Written
  <1>9. Judged(c)'
    BY <1>1, <1>3, <1>5, OneConnection DEF BeingVerified, Judged, Verifies
  <1>10. Phase(c)'
    BY <1>1, <1>3, <1>5 DEF Phase, BeingVerified
  <1>11. ASSUME NEW d \in Connections \ {c} PROVE Untouched(d)
    BY <1>1, <1>2 DEF Untouched, VerifierTypeOK
  <1>. QED  BY <1>1, <1>6, <1>7, <1>8, <1>9, <1>10, <1>11, OneTouched
               DEF VerifierInv, Connection

\* A flush of the challenge or of the refusal returns, or one throws.
LEMMA FlushKeeps ==
    ASSUME VerifierInv, NEW c \in Connections,
           ChallengeFlushed(c) \/ Refused(c) \/ FlushThrows(c)
    PROVE  VerifierInv'
  <1>1. /\ holder' = [holder EXCEPT ![c] = "none"]
        /\ peer' = peer /\ started' = started /\ sent' = sent /\ waiting' = waiting /\ mode' = mode
        /\ buffer' = buffer /\ authenticated' = authenticated /\ out' = out /\ closed' = closed
        /\ timer' = timer /\ peerClosed' = peerClosed /\ written' = written
        /\ knownMode' = knownMode /\ hints' = hints /\ latest' = latest
        /\ lookupFailed' = lookupFailed
    BY DEF ChallengeFlushed, Refused, FlushThrows, Hold, side, peers, stream, failures
  <1>2. VerifierTypeOK
    BY DEF VerifierInv
  <1>3. \/ holder[c] = "challenging" /\ completer' = completer /\ gone' = gone
        \/ /\ holder[c] = "refusing" /\ gone' = gone
           /\ completer' = [completer EXCEPT ![c] = "refused"]
        \/ /\ holder[c] \in {"challenging", "accepting"} /\ gone' = gone \cup {c}
           /\ completer' = [completer EXCEPT ![c] = "refused"]
    BY DEF ChallengeFlushed, Refused, FlushThrows, failures
  <1>4. holder'[c] = "none" /\ c \in started
    BY <1>1, <1>2, <1>3, OneConnection DEF VerifierTypeOK, NotStarted
  <1>5. \/ holder[c] = "challenging" /\ completer'[c] = completer[c] /\ (c \in gone' <=> c \in gone)
        \/ holder[c] = "refusing" /\ completer'[c] = "refused" /\ (c \in gone' <=> c \in gone)
        \/ /\ holder[c] \in {"challenging", "accepting"} /\ completer'[c] = "refused" /\ c \in gone'
    BY <1>2, <1>3 DEF VerifierTypeOK
  <1>6. VerifierTypeOK'
    <2>1. /\ holder' \in [Connections -> {"none", "challenging", "verifying", "accepting", "refusing"}]
          /\ completer' \in [Connections -> {"open", "accepted", "refused"}]
          /\ gone' \subseteq Connections
      BY <1>1, <1>2, <1>3 DEF VerifierTypeOK
    <2>. QED  BY <1>1, <1>2, <2>1 DEF VerifierTypeOK
  <1>7. NotStarted(c)' /\ CloseIsLast(c)' /\ Spoken(c)'
    BY <1>1, <1>4, OneConnection DEF NotStarted, CloseIsLast, Spoken
  <1>8. Written(c)'
    BY <1>1, <1>5, OneConnection DEF Written
  <1>9. Judged(c)'
    BY <1>1, <1>4, <1>5, OneConnection DEF Judged, Verifies
  <1>10. Phase(c)'
    <2>1. CASE ~peer[c].valid
      BY <1>1, <1>4, <2>1, OneConnection DEF Phase
    <2>2. CASE peer[c].valid /\ Reading(c)
      BY <1>1, <1>4, <2>2 DEF Phase, Reading
    <2>3. CASE peer[c].valid /\ BeingVerified(c)
      <3>1. completer'[c] = "refused"
        BY <1>5, <2>3 DEF BeingVerified
      <3>2. /\ LineLength + Len(buffer[c]) \in LineLength .. sent[c]
            /\ QueueIs(waiting[c], LineLength + Len(buffer[c]), sent[c])
        BY <2>3, OneConnection, RelayAuthAutoAssumption DEF BeingVerified, QueueIs
      <3>3. Over(c)'
        BY <1>1, <1>4, <2>3, <3>1, <3>2 DEF Over, BeingVerified
      <3>. QED  BY <1>1, <2>3, <3>3 DEF Phase
    <2>4. CASE peer[c].valid /\ Relaying(c)
      BY <1>1, <1>4, <2>4 DEF Phase, Relaying
    <2>5. CASE peer[c].valid /\ Over(c)
      <3>1. completer'[c] # "open"
        BY <1>5, <2>5 DEF Over
      <3>. QED  BY <1>1, <1>4, <2>5, <3>1 DEF Phase, Over
    <2>. QED  BY <2>1, <2>2, <2>3, <2>4, <2>5, OneConnection DEF Phase
  <1>11. ASSUME NEW d \in Connections \ {c} PROVE Untouched(d)
    BY <1>1, <1>2, <1>3 DEF Untouched, VerifierTypeOK
  <1>. QED  BY <1>1, <1>6, <1>7, <1>8, <1>9, <1>10, <1>11, OneTouched
               DEF VerifierInv, Connection

-----------------------------------------------------------------------------
(* The theorems about the verifier *)

\* It holds when the relay starts.
LEMMA VerifierInitially == VerifierInit => VerifierInv
  <1>. SUFFICES ASSUME VerifierInit PROVE VerifierInv
    OBVIOUS
  <1>1. peer \in [Connections -> Peers] /\ \A c \in Connections : peer[c].kind = "junk" => ~peer[c].valid
    BY RelayAuthAutoAssumption DEF VerifierInit
  <1>2. VerifierTypeOK
    BY <1>1, RelayAuthAutoAssumption DEF VerifierInit, VerifierTypeOK, Modes
  <1>3. ASSUME NEW c \in Connections PROVE Connection(c)
    <2>1. /\ c \notin started /\ mode[c] = "detecting" /\ holder[c] = "none" /\ sent[c] = 0
          /\ waiting[c] = <<>> /\ c \notin authenticated /\ c \notin closed /\ written[c] = <<>>
          /\ buffer[c] = <<>> /\ out[c] = <<>> /\ completer[c] = "open"
      BY DEF VerifierInit
    <2>2. NotStarted(c) /\ Spoken(c) /\ CloseIsLast(c)
      BY <2>1 DEF NotStarted, Spoken, CloseIsLast
    <2>3. Written(c) /\ Judged(c)
      BY <2>1, Lines DEF Written, Judged
    <2>4. Phase(c)
      <3>1. Len(<<>>) = 0 /\ <<>> = Tokens(1, 0)
        BY NoTokens
      <3>2. QueueIs(<<>>, 0, 0)
        BY DEF QueueIs
      <3>3. Reading(c)
        BY <2>1, <3>1, <3>2, RelayAuthAutoAssumption DEF Reading
      <3>. QED  BY <2>1, <3>3 DEF Phase
    <2>. QED  BY <2>2, <2>3, <2>4 DEF Connection
  <1>. QED  BY <1>1, <1>2, <1>3 DEF VerifierInv, VerifierInit

\* Every step keeps it.
LEMMA VerifierSteps == VerifierInv /\ [VerifierNext]_verifierVars => VerifierInv'
  <1>. SUFFICES ASSUME VerifierInv, [VerifierNext]_verifierVars PROVE VerifierInv'
    OBVIOUS
  <1>1. ASSUME NEW c \in Connections, Verifier(c) PROVE VerifierInv'
    <2>1. CASE RunResolve(c)
      BY <2>1, RunResolveKeeps
    <2>2. CASE RunDataAuthenticated(c)
      BY <2>2, RunDataAuthenticatedKeeps
    <2>3. CASE RunData(c)
      BY <2>3, RunDataKeeps
    <2>4. CASE RunClose(c)
      BY <2>4, RunCloseKeeps
    <2>5. CASE VerifyThrows(c)
      BY <2>5, VerifyThrowsKeeps
    <2>6. CASE LegacyVerified(c)
      BY <2>6, CompleteSuccessKeeps DEF LegacyVerified
    <2>7. CASE EscrVerified(c)
      BY <2>7, EscrVerifiedKeeps
    <2>8. CASE OkFlushed(c)
      <3>1. Verifies(c)
        BY <2>8, OneConnection DEF OkFlushed, Judged
      <3>. QED  BY <2>8, <3>1, CompleteSuccessKeeps DEF OkFlushed
    <2>9. CASE ChallengeFlushed(c) \/ Refused(c) \/ FlushThrows(c)
      BY <2>9, FlushKeeps
    <2>. QED  BY <1>1, <2>1, <2>2, <2>3, <2>4, <2>5, <2>6, <2>7, <2>8, <2>9 DEF Verifier
  <1>2. CASE VerifierNext
    BY <1>1, <1>2, ConnectKeeps, DataKeeps, PeerClosesKeeps, TimerFiresKeeps, SetKnownModeKeeps
    DEF VerifierNext
  <1>3. CASE UNCHANGED verifierVars
    <2>1. /\ peer' = peer /\ started' = started /\ sent' = sent /\ waiting' = waiting /\ mode' = mode
          /\ buffer' = buffer /\ authenticated' = authenticated /\ out' = out /\ closed' = closed
          /\ timer' = timer /\ peerClosed' = peerClosed /\ written' = written /\ holder' = holder
          /\ completer' = completer /\ gone' = gone /\ lookupFailed' = lookupFailed
          /\ knownMode' = knownMode /\ hints' = hints /\ latest' = latest
      BY <1>3 DEF verifierVars, side, peers, lock, stream, failures
    <2>2. VerifierTypeOK'
      BY <2>1 DEF VerifierInv, VerifierTypeOK
    <2>3. ASSUME NEW d \in Connections PROVE Connection(d)'
      <3>1. Untouched(d)
        BY <2>1 DEF Untouched
      <3>. QED  BY <3>1, UntouchedStays DEF VerifierInv
    <2>. QED  BY <2>1, <2>2, <2>3 DEF VerifierInv
  <1>. QED  BY <1>2, <1>3

\* The invariant of the verifier, for every number of connections and length of
\* line, stream and buffer.
THEOREM VerifierInvariant == VerifierSpec => []VerifierInv
  BY VerifierInitially, VerifierSteps, PTL DEF VerifierSpec

\* What the invariant says of the stream that is handed on.
LEMMA StreamFollows == VerifierInv => StreamIsIntact /\ NothingIsCutOff
  <1>. SUFFICES ASSUME VerifierInv PROVE StreamIsIntact /\ NothingIsCutOff
    OBVIOUS
  <1>1. ASSUME NEW c \in Connections, c \notin authenticated
        PROVE  out[c] = Tokens(LineLength + 1, LineLength + Len(out[c]))
    <2>1. out[c] = <<>> /\ Len(out[c]) = 0
      BY <1>1, OneConnection DEF Judged
    <2>2. LineLength + 1 \in Nat \ {0} /\ (LineLength + 1) - 1 = LineLength + 0
      BY RelayAuthAutoAssumption
    <2>3. Tokens(LineLength + 1, LineLength + 0) = <<>>
      BY <2>2, NoTokens
    <2>. QED  BY <2>1, <2>3
  <1>2. ASSUME NEW c \in Connections, c \in authenticated PROVE Relaying(c)
    BY <1>2, OneConnection DEF Judged, Verifies, Phase, Reading, BeingVerified, Over
  <1>3. ASSUME NEW c \in Connections, c \in closed, c \in authenticated
        PROVE  Len(out[c]) = sent[c] - LineLength
    <2>1. QueueIs(waiting[c], LineLength + Len(out[c]), sent[c])
      BY <1>2, <1>3 DEF Relaying
    <2>2. \A i \in DOMAIN waiting[c] : waiting[c][i].task # "data"
      BY <1>3, OneConnection DEF CloseIsLast
    <2>3. /\ LineLength + Len(out[c]) \in Nat /\ sent[c] \in Nat /\ LineLength \in Nat
          /\ Len(out[c]) \in Nat
      BY OneConnection, RelayAuthAutoAssumption
    <2>4. LineLength + Len(out[c]) = sent[c]
      BY <2>1, <2>2, <2>3, NoChunkWaits
    <2>. QED  BY <2>3, <2>4
  <1>4. closed \subseteq Connections
    BY DEF VerifierInv, VerifierTypeOK
  <1>5. StreamIsIntact
    BY <1>1, <1>2 DEF StreamIsIntact, Relaying
  <1>6. NothingIsCutOff
    BY <1>3, <1>4 DEF NothingIsCutOff
  <1>. QED  BY <1>5, <1>6

\* However a peer's bytes are cut into chunks, and whichever of them arrive
\* while its line is being verified, the relay hands on what came behind the
\* line: in order, nothing lost, nothing doubled, nothing of the line.
THEOREM StreamStaysIntact == VerifierSpec => []StreamIsIntact
  BY VerifierInvariant, StreamFollows, PTL

\* The stream of an authenticated peer is closed only behind its last byte.
THEOREM NothingGetsCutOff == VerifierSpec => []NothingIsCutOff
  BY VerifierInvariant, StreamFollows, PTL

\* What the invariant says of peers that are believed or refused.
LEMMA VerdictFollows == VerifierInv => OnlyVerifiedIsHandedOn /\ GoodPeerIsAccepted /\ WritesInTurn
  <1>. SUFFICES ASSUME VerifierInv
                PROVE  OnlyVerifiedIsHandedOn /\ GoodPeerIsAccepted /\ WritesInTurn
    OBVIOUS
  <1>1. OnlyVerifiedIsHandedOn
    BY OneConnection DEF OnlyVerifiedIsHandedOn, Judged
  <1>2. GoodPeerIsAccepted
    BY OneConnection DEF GoodPeerIsAccepted, Judged
  <1>3. WritesInTurn
    BY OneConnection, Lines DEF WritesInTurn, Written
  <1>. QED  BY <1>1, <1>2, <1>3

\* Nothing of a peer reaches the other side, and none is accepted, unless its
\* line verified in the mode the connection was found to be in.
THEOREM OnlyVerifiedPeersAreRelayed == VerifierSpec => []OnlyVerifiedIsHandedOn
  BY VerifierInvariant, VerdictFollows, PTL

\* A peer that would verify is refused for four reasons only: it was taken for
\* ESCR, sent more than maxAuthBufferLength, could not be written to, or had a
\* key that could not be looked up.
THEOREM GoodPeersAreAccepted == VerifierSpec => []GoodPeerIsAccepted
  BY VerifierInvariant, VerdictFollows, PTL

\* A legacy peer is written nothing; another gets one challenge, one answer.
THEOREM WritesStayInTurn == VerifierSpec => []WritesInTurn
  BY VerifierInvariant, VerdictFollows, PTL
=============================================================================
