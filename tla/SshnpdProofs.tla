---------------------------- MODULE SshnpdProofs ----------------------------
(***************************************************************************)
(* Proofs about the sshnpd daemon in Dart, one part after the other:       *)
(*  - AuthCheck, for any sets of clients, managers and callers, any number *)
(*    of checks and any timeouts with AuthTimeout < CacheTtl;              *)
(*  - ClientSessions, for any number of instances, requests, session ids   *)
(*    and keys, and any way requests share ids and keys;                   *)
(*  - AuthorizedKeys, for any number of sessions and public keys.          *)
(***************************************************************************)
EXTENDS AuthCheck, ClientSessions, AuthorizedKeys, SequenceTheorems,
        FiniteSetTheorems, TLAPS

-----------------------------------------------------------------------------
(* AuthCheck: the inductive invariant *)

\* Request ids are handed out once.
Fresh ==
    \A r \in ReqIds : r >= nextReq =>
        /\ age[r] = 0
        /\ completer[r] = "pending"
        /\ r \notin completerMap \cup requests \cup granted

\* The checks that can be found are the cached ones, each cached for the
\* client it is about.
CacheSound ==
    /\ \A c \in Clients : authCheckCache[c] # NoReq =>
          authCheckCache[c] \in completerMap /\ clientOf[authCheckCache[c]] = c
    /\ \A r \in completerMap :
          clientOf[r] \in Subjects /\ authCheckCache[clientOf[r]] = r

\* A caller that awaits sendRequest is exactly as old as its check; a call
\* whose caller gave up may be older than its check was ever kept.
SendingSound ==
    \A k \in Callers : callerPc[k] = "waiting" /\ call[k] = "sending" =>
        req[k] \in completerMap /\ age[req[k]] = waited[k]

\* A caller's check is about its own client.
CallerSound ==
    \A k \in Callers :
        callerPc[k] = "waiting" \/ (callerPc[k] = "permit" /\ ~IsManager(k)) =>
            req[k] \in ReqIds /\ req[k] < nextReq /\ clientOf[req[k]] = from[k]

\* Every permit on its way, or kept in a completer, was granted.
GrantSound ==
    /\ \A r \in ReqIds :
          response[r] = "permit" \/ completer[r] = "permit" => r \in granted
    /\ \A k \in Callers : callerPc[k] = "permit" /\ ~IsManager(k) => req[k] \in granted

\* A grant that can still be used is no older than the check it belongs to.
GrantAge ==
    \A r \in granted : r \in completerMap =>
        policy[clientOf[r]] \/ revokedFor[clientOf[r]] <= age[r]

\* The time since a client was last asked about.
SentSound ==
    \A c \in Clients :
        IF authCheckCache[c] = NoReq THEN sinceSent[c] >= CacheTtl
                                     ELSE sinceSent[c] = age[authCheckCache[c]]

AuthIInv ==
    /\ AuthTypeOK
    /\ Fresh
    /\ CacheSound
    /\ SendingSound
    /\ CallerSound
    /\ GrantSound
    /\ GrantAge
    /\ SentSound

\* A manager is approved at once: only its caller's callerPc changes.
LEMMA AuthCheckManagerKeeps ==
    ASSUME AuthIInv, NEW k \in Callers, AuthCheckManager(k)
    PROVE  AuthIInv'
  BY AuthCheckAssumption DEF AuthIInv, AuthTypeOK, Fresh, CacheSound, SendingSound,
        CallerSound, GrantSound, GrantAge, SentSound,
        AuthCheckManager, IsManager, checks, service, clocks, Verdicts

\* Without a policy manager everyone else is denied at once.
LEMMA AuthCheckNotManagerKeeps ==
    ASSUME AuthIInv, NEW k \in Callers, AuthCheckNotManager(k)
    PROVE  AuthIInv'
  BY AuthCheckAssumption DEF AuthIInv, AuthTypeOK, Fresh, CacheSound, SendingSound,
        CallerSound, GrantSound, GrantAge, SentSound,
        AuthCheckNotManager, IsManager, checks, service, clocks, Verdicts

\* Joining a cached check: the caller takes over a check about its own client.
LEMMA MayConnectCachedKeeps ==
    ASSUME AuthIInv, NEW k \in Callers, MayConnectCached(k)
    PROVE  AuthIInv'
<1>1. Await(authCheckCache[from[k]]) \in Verdicts \cup {"waiting", "dropped"}
  BY DEF AuthIInv, AuthTypeOK, Await, Verdicts
<1>2. AuthTypeOK'
  BY <1>1, AuthCheckAssumption DEF AuthIInv, AuthTypeOK, MayConnectCached, CallAwaits, checks,
     service, clocks
<1>3. Fresh'
  BY DEF AuthIInv, AuthTypeOK, Fresh, MayConnectCached, Await, CallAwaits, checks,
        service, ReqIds, NoReq
<1>4. CacheSound'
  BY DEF AuthIInv, AuthTypeOK, Fresh, CacheSound, MayConnectCached, checks, ReqIds,
        NoReq
<1>5. SendingSound'
  BY <1>1 DEF AuthIInv, AuthTypeOK, SendingSound, MayConnectCached, CallAwaits, checks
<1>6. CallerSound'
  BY DEF AuthIInv, AuthTypeOK, Fresh, CacheSound, CallerSound, MayConnectCached,
        AsksPolicy, IsManager, Await, CallAwaits, checks, ReqIds, NoReq, Verdicts
<1>7. GrantSound'
  BY DEF AuthIInv, AuthTypeOK, CallerSound, GrantSound, MayConnectCached, AsksPolicy,
        IsManager, Await, CallAwaits, checks, service, Verdicts
<1>9. GrantAge'
  BY DEF AuthIInv, AuthTypeOK, Fresh, CacheSound, GrantAge, MayConnectCached, checks,
        service, clocks, ReqIds, NoReq
<1>10. SentSound'
  BY DEF AuthIInv, AuthTypeOK, Fresh, CacheSound, SentSound, MayConnectCached, checks,
        clocks, ReqIds, NoReq
<1>. QED  BY <1>1, <1>2, <1>3, <1>4, <1>5, <1>6, <1>7, <1>9, <1>10 DEF
            AuthIInv

\* Making a check: a fresh request id, cached for the caller's client.
LEMMA MayConnectNewKeeps ==
    ASSUME AuthIInv, NEW k \in Callers, MayConnectNew(k)
    PROVE  AuthIInv'
<1>1. AuthTypeOK'
  <2>1. nextReq \in ReqIds /\ from[k] \in Clients
    BY DEF AuthIInv, AuthTypeOK, MayConnectNew
  <2>2. /\ authCheckCache' \in [Clients -> ReqIds \cup {NoReq}]
        /\ completerMap' \in SUBSET ReqIds
        /\ clientOf' \in [ReqIds -> Clients \cup {NoClient}]
        /\ requests' \in SUBSET ReqIds
    BY <2>1 DEF AuthIInv, AuthTypeOK, MayConnectNew
  <2>3. nextReq' \in 1..(MaxReq + 1)
    BY <2>1, AuthCheckAssumption DEF AuthIInv, AuthTypeOK, MayConnectNew, ReqIds
  <2>4. /\ callerPc' \in [Callers -> Verdicts \cup {"idle", "waiting", "dropped"}]
        /\ call' \in [Callers -> {"none", "sending", "awaiting", "done"}]
        /\ req' \in [Callers -> ReqIds \cup {NoReq}]
        /\ waited' \in [Callers -> 0..AuthTimeout]
        /\ sinceSent' \in [Clients -> 0..DocumentedTtl]
    BY <2>1, AuthCheckAssumption DEF AuthIInv, AuthTypeOK, MayConnectNew
  <2>. QED  BY <2>2, <2>3, <2>4 DEF AuthIInv, AuthTypeOK, MayConnectNew
<1>2. Fresh'
  BY DEF AuthIInv, AuthTypeOK, Fresh, MayConnectNew, ReqIds, NoReq
<1>3. CacheSound'
  <2>1. from[k] \in Subjects
    BY DEF AuthIInv, AuthTypeOK, MayConnectNew, AsksPolicy, IsManager, Subjects
  <2>. QED  BY <2>1 DEF AuthIInv, AuthTypeOK, Fresh, CacheSound, MayConnectNew, ReqIds, NoReq,
               Subjects
<1>4. SendingSound'
  BY DEF AuthIInv, AuthTypeOK, Fresh, CacheSound, SendingSound, MayConnectNew, ReqIds,
        NoReq
<1>5. CallerSound'
  BY DEF AuthIInv, AuthTypeOK, Fresh, CacheSound, CallerSound, MayConnectNew,
        AsksPolicy, IsManager, ReqIds, NoReq
<1>6. GrantSound'
  BY DEF AuthIInv, AuthTypeOK, CallerSound, GrantSound, MayConnectNew, AsksPolicy,
        IsManager
<1>8. GrantAge'
  BY DEF AuthIInv, AuthTypeOK, Fresh, CacheSound, GrantAge, MayConnectNew, ReqIds,
        NoReq
<1>9. SentSound'
  BY DEF AuthIInv, AuthTypeOK, Fresh, CacheSound, SentSound, MayConnectNew, ReqIds,
        NoReq
<1>. QED  BY <1>1, <1>2, <1>3, <1>4, <1>5, <1>6, <1>8, <1>9 DEF AuthIInv

\* After the await of sendRequest the completer is still there if the caller
\* still waits; if not, what is found or not found changes the call only.
LEMMA SendRequestReturnsKeeps ==
    ASSUME AuthIInv, NEW k \in Callers, SendRequestReturns(k)
    PROVE  AuthIInv'
<1>1. Await(req[k]) \in Verdicts \cup {"waiting", "dropped"}
  BY DEF AuthIInv, AuthTypeOK, Await, Verdicts
<1>2. AuthTypeOK'
  BY <1>1, AuthCheckAssumption DEF AuthIInv, AuthTypeOK, SendRequestReturns, CallAwaits, checks,
     service, clocks
<1>3. Fresh'
  BY DEF AuthIInv, AuthTypeOK, Fresh, SendRequestReturns, Await, CallAwaits, checks,
        service, ReqIds, NoReq
<1>4. CacheSound'
  BY DEF AuthIInv, AuthTypeOK, Fresh, CacheSound, SendRequestReturns, checks, ReqIds,
        NoReq
<1>5. SendingSound'
  BY DEF AuthIInv, AuthTypeOK, Fresh, CacheSound, SendingSound, SendRequestReturns,
        Await, CallAwaits, checks, ReqIds, NoReq, Verdicts
<1>6. CallerSound'
  BY DEF AuthIInv, AuthTypeOK, Fresh, CacheSound, CallerSound, SendRequestReturns,
        Await, CallAwaits, IsManager, checks, ReqIds, NoReq, Verdicts
<1>7. GrantSound'
  BY DEF AuthIInv, AuthTypeOK, CallerSound, GrantSound, SendRequestReturns,
        Await, CallAwaits, IsManager, checks, service, Verdicts
<1>9. GrantAge'
  BY DEF AuthIInv, AuthTypeOK, Fresh, CacheSound, GrantAge, SendRequestReturns,
        checks, service, clocks, ReqIds, NoReq
<1>10. SentSound'
  BY DEF AuthIInv, AuthTypeOK, Fresh, CacheSound, SentSound, SendRequestReturns,
        checks, clocks, ReqIds, NoReq
<1>. QED  BY <1>1, <1>2, <1>3, <1>4, <1>5, <1>6, <1>7, <1>9, <1>10 DEF
            AuthIInv

\* A failed send leaves the check behind and drops the caller if it waits.
LEMMA SendRequestThrowsKeeps ==
    ASSUME AuthIInv, NEW k \in Callers, SendRequestThrows(k)
    PROVE  AuthIInv'
  BY AuthCheckAssumption DEF AuthIInv, AuthTypeOK, Fresh, CacheSound, SendingSound,
        CallerSound, GrantSound, GrantAge, SentSound,
        SendRequestThrows, IsManager, checks, service, clocks, Verdicts

\* A caller that has waited AuthTimeout is denied; its call goes on.
LEMMA AuthCheckTimesOutKeeps ==
    ASSUME AuthIInv, NEW k \in Callers, AuthCheckTimesOut(k)
    PROVE  AuthIInv'
  BY AuthCheckAssumption DEF AuthIInv, AuthTypeOK, Fresh, CacheSound, SendingSound,
        CallerSound, GrantSound, GrantAge, SentSound,
        AuthCheckTimesOut, IsManager, checks, service, clocks, Verdicts

\* The timer forgets a check and its cache entry together; a caller that still
\* awaits sendRequest is younger than AuthTimeout < CacheTtl, so it is not affected.
LEMMA ForgetCheckKeeps ==
    ASSUME AuthIInv, NEW r \in ReqIds, ForgetCheck(r)
    PROVE  AuthIInv'
<1>1. AuthTypeOK'
  BY AuthCheckAssumption DEF AuthIInv, AuthTypeOK, ForgetCheck, callers, service,
        clocks, ReqIds, NoReq
<1>2. Fresh'
  BY AuthCheckAssumption DEF AuthIInv, AuthTypeOK, Fresh, ForgetCheck, service,
        ReqIds, NoReq
<1>3. CacheSound'
  BY AuthCheckAssumption DEF AuthIInv, AuthTypeOK, Fresh, CacheSound, ForgetCheck,
        ReqIds, NoReq
<1>4. SendingSound'
  BY AuthCheckAssumption DEF AuthIInv, AuthTypeOK, Fresh, CacheSound, SendingSound,
        ForgetCheck, callers, ReqIds, NoReq
<1>5. CallerSound'
  BY AuthCheckAssumption DEF AuthIInv, AuthTypeOK, Fresh, CacheSound, CallerSound,
        ForgetCheck, IsManager, callers, ReqIds, NoReq
<1>6. GrantSound'
  BY AuthCheckAssumption DEF AuthIInv, AuthTypeOK, CallerSound, GrantSound,
        ForgetCheck, IsManager, callers, service
<1>8. GrantAge'
  BY AuthCheckAssumption DEF AuthIInv, AuthTypeOK, Fresh, CacheSound, GrantAge,
        ForgetCheck, service, clocks, ReqIds, NoReq
<1>9. SentSound'
  BY AuthCheckAssumption DEF AuthIInv, AuthTypeOK, Fresh, CacheSound, SentSound,
        ForgetCheck, clocks, ReqIds, NoReq
<1>. QED  BY <1>1, <1>2, <1>3, <1>4, <1>5, <1>6, <1>8, <1>9 DEF AuthIInv

\* The policy service answers from its policy at that moment.
LEMMA PolicyAnswersKeeps ==
    ASSUME AuthIInv, NEW r \in ReqIds, PolicyAnswers(r)
    PROVE  AuthIInv'
<1>1. AuthTypeOK'
  <2>1. PICK type \in {"ack", "error", "permit", "deny"} :
             /\ response' = [response EXCEPT ![r] = type]
             /\ granted' = IF type = "permit" THEN granted \cup {r} ELSE granted
    BY DEF PolicyAnswers
  <2>2. response' \in [ReqIds -> ResponseTypes \cup {"none"}] /\ granted' \in SUBSET ReqIds
    BY <2>1 DEF AuthIInv, AuthTypeOK, ResponseTypes
  <2>. QED  BY <2>2 DEF AuthIInv, AuthTypeOK, PolicyAnswers, checks, callers, clocks
<1>2. Fresh'
  BY DEF AuthIInv, AuthTypeOK, Fresh, PolicyAnswers, checks, ReqIds, NoReq
<1>3. CacheSound'
  BY DEF AuthIInv, AuthTypeOK, Fresh, CacheSound, PolicyAnswers, checks, ReqIds, NoReq
<1>4. SendingSound'
  BY DEF AuthIInv, AuthTypeOK, Fresh, CacheSound, SendingSound, PolicyAnswers, checks,
        callers, ReqIds, NoReq
<1>5. CallerSound'
  BY DEF AuthIInv, AuthTypeOK, Fresh, CacheSound, CallerSound, PolicyAnswers,
        IsManager, checks, callers, ReqIds, NoReq
<1>6. GrantSound'
  BY DEF AuthIInv, AuthTypeOK, CallerSound, GrantSound, PolicyAnswers, IsManager,
        checks, callers
<1>8. GrantAge'
  BY DEF AuthIInv, AuthTypeOK, Fresh, CacheSound, GrantAge, PolicyAnswers, checks,
        clocks, ReqIds, NoReq
<1>9. SentSound'
  BY DEF AuthIInv, AuthTypeOK, Fresh, CacheSound, SentSound, PolicyAnswers, checks,
        clocks, ReqIds, NoReq
<1>. QED  BY <1>1, <1>2, <1>3, <1>4, <1>5, <1>6, <1>8, <1>9 DEF AuthIInv

\* A response completes a pending completer and decides its waiters.
LEMMA HandleResponseKeeps ==
    ASSUME AuthIInv, NEW r \in ReqIds, HandleResponse(r)
    PROVE  AuthIInv'
<1>1. AuthTypeOK'
  BY AuthCheckAssumption
     DEF AuthIInv, AuthTypeOK, HandleResponse, Completable, CompleteWith, Awaits,
         ResponseTypes, service, clocks, ReqIds, NoReq, Verdicts
<1>2. Fresh'
  BY DEF AuthIInv, AuthTypeOK, Fresh, HandleResponse, Completable, CompleteWith, Awaits,
         service, ReqIds, NoReq
<1>3. CacheSound'
  BY DEF AuthIInv, AuthTypeOK, Fresh, CacheSound, HandleResponse, CompleteWith, Awaits,
         ReqIds, NoReq
<1>4. SendingSound'
  BY DEF AuthIInv, AuthTypeOK, Fresh, CacheSound, SendingSound, HandleResponse,
         CompleteWith, Awaits, Completable, ReqIds, NoReq, Verdicts
<1>5. CallerSound'
  BY DEF AuthIInv, AuthTypeOK, Fresh, CacheSound, CallerSound, HandleResponse,
         CompleteWith, Awaits, Completable, IsManager, ReqIds, NoReq, Verdicts
<1>6. GrantSound'
  BY DEF AuthIInv, AuthTypeOK, CallerSound, GrantSound, HandleResponse, Completable,
         CompleteWith, Awaits, IsManager, service, Verdicts
<1>8. GrantAge'
  BY DEF AuthIInv, AuthTypeOK, Fresh, CacheSound, GrantAge, HandleResponse, CompleteWith,
         Awaits, service, clocks, ReqIds, NoReq
<1>9. SentSound'
  BY DEF AuthIInv, AuthTypeOK, Fresh, CacheSound, SentSound, HandleResponse, CompleteWith,
         Awaits, clocks, ReqIds, NoReq
<1>. QED  BY <1>1, <1>2, <1>3, <1>4, <1>5, <1>6, <1>8, <1>9 DEF AuthIInv

\* The policy service's data change.
LEMMA PolicyChangesKeeps ==
    ASSUME AuthIInv, NEW c \in Subjects, PolicyChanges(c)
    PROVE  AuthIInv'
<1>1. AuthTypeOK'
  <2>1. policy' \in [Subjects -> BOOLEAN]
    BY DEF AuthIInv, AuthTypeOK, PolicyChanges
  <2>2. revokedFor' \in [Subjects -> 0..(CacheTtl + 1)]
    BY AuthCheckAssumption DEF AuthIInv, AuthTypeOK, PolicyChanges
  <2>. QED  BY <2>1, <2>2 DEF AuthIInv, AuthTypeOK, PolicyChanges, checks, callers
<1>2. Fresh'
  BY DEF AuthIInv, AuthTypeOK, Fresh, PolicyChanges, checks, ReqIds, NoReq
<1>3. CacheSound'
  BY DEF AuthIInv, AuthTypeOK, Fresh, CacheSound, PolicyChanges, checks, ReqIds, NoReq
<1>4. SendingSound'
  BY DEF AuthIInv, AuthTypeOK, Fresh, CacheSound, SendingSound, PolicyChanges, checks,
        callers, ReqIds, NoReq
<1>5. CallerSound'
  BY DEF AuthIInv, AuthTypeOK, Fresh, CacheSound, CallerSound, PolicyChanges,
        IsManager, checks, callers, ReqIds, NoReq
<1>6. GrantSound'
  BY DEF AuthIInv, AuthTypeOK, CallerSound, GrantSound, PolicyChanges, IsManager,
        checks, callers
<1>8. GrantAge'
  BY DEF AuthIInv, AuthTypeOK, Fresh, CacheSound, GrantAge, PolicyChanges, checks,
        ReqIds, NoReq
<1>9. SentSound'
  BY DEF AuthIInv, AuthTypeOK, Fresh, CacheSound, SentSound, PolicyChanges, checks,
        ReqIds, NoReq
<1>. QED  BY <1>1, <1>2, <1>3, <1>4, <1>5, <1>6, <1>8, <1>9 DEF AuthIInv

\* Time passes while no timer is due.
LEMMA TickKeeps ==
    ASSUME AuthIInv, Tick
    PROVE  AuthIInv'
<1>1. AuthTypeOK'
  <2>1. age' \in [ReqIds -> 0..CacheTtl]
    BY AuthCheckAssumption DEF AuthIInv, AuthTypeOK, Tick, TimerDue
  <2>2. waited' \in [Callers -> 0..AuthTimeout]
    BY AuthCheckAssumption DEF AuthIInv, AuthTypeOK, Tick, TimerDue
  <2>3. revokedFor' \in [Subjects -> 0..(CacheTtl + 1)]
    BY AuthCheckAssumption DEF AuthIInv, AuthTypeOK, Tick, UpTo
  <2>4. sinceSent' \in [Clients -> 0..DocumentedTtl]
    BY AuthCheckAssumption DEF AuthIInv, AuthTypeOK, Tick, UpTo
  <2>. QED  BY <2>1, <2>2, <2>3, <2>4 DEF AuthIInv, AuthTypeOK, Tick, service
<1>2. Fresh'
  BY AuthCheckAssumption DEF AuthIInv, AuthTypeOK, Fresh, Tick, TimerDue, service,
        ReqIds, NoReq
<1>3. CacheSound'
  BY AuthCheckAssumption DEF AuthIInv, AuthTypeOK, Fresh, CacheSound, Tick, TimerDue,
        ReqIds, NoReq
<1>4. SendingSound'
  BY AuthCheckAssumption DEF AuthIInv, AuthTypeOK, Fresh, CacheSound, SendingSound,
        Tick, TimerDue, ReqIds, NoReq
<1>5. CallerSound'
  BY AuthCheckAssumption DEF AuthIInv, AuthTypeOK, Fresh, CacheSound, CallerSound,
        Tick, TimerDue, IsManager, ReqIds, NoReq
<1>6. GrantSound'
  BY AuthCheckAssumption DEF AuthIInv, AuthTypeOK, CallerSound, GrantSound, Tick,
        TimerDue, IsManager, service
<1>8. GrantAge'
  BY AuthCheckAssumption DEF AuthIInv, AuthTypeOK, Fresh, CacheSound, GrantAge, Tick,
        TimerDue, UpTo, service, ReqIds, NoReq
<1>9. SentSound'
  BY AuthCheckAssumption DEF AuthIInv, AuthTypeOK, Fresh, CacheSound, SentSound, Tick,
        TimerDue, UpTo, ReqIds, NoReq
<1>. QED  BY <1>1, <1>2, <1>3, <1>4, <1>5, <1>6, <1>8, <1>9 DEF AuthIInv

-----------------------------------------------------------------------------
(* The theorems *)

\* The invariant holds initially.
LEMMA InitInvariant == AuthInit => AuthIInv
<1>. SUFFICES ASSUME AuthInit PROVE AuthIInv
  OBVIOUS
<1>1. AuthTypeOK
  <2>1. ReqIds \subseteq Nat /\ nextReq \in 1..(MaxReq + 1)
    BY AuthCheckAssumption DEF AuthInit, ReqIds
  <2>. QED  BY <2>1, AuthCheckAssumption DEF AuthInit, AuthTypeOK, Verdicts
<1>2. Fresh /\ CacheSound /\ SendingSound /\ CallerSound
  BY DEF AuthInit, Fresh, CacheSound, SendingSound, CallerSound
<1>3. GrantSound /\ GrantAge
  BY DEF AuthInit, GrantSound, GrantAge
<1>4. SentSound
  BY AuthCheckAssumption DEF AuthInit, SentSound
<1>. QED  BY <1>1, <1>2, <1>3, <1>4 DEF AuthIInv

\* Every step keeps it.
LEMMA NextKeepsInvariant == AuthIInv /\ [AuthNext]_authVars => AuthIInv'
<1>. SUFFICES ASSUME AuthIInv, [AuthNext]_authVars PROVE AuthIInv'
  OBVIOUS
<1>1. ASSUME NEW k \in Callers,
             \/ AuthCheckManager(k)   \/ AuthCheckNotManager(k)
             \/ MayConnectCached(k)   \/ MayConnectNew(k)
             \/ SendRequestReturns(k) \/ SendRequestThrows(k)
             \/ AuthCheckTimesOut(k)
      PROVE  AuthIInv'
  BY <1>1, AuthCheckManagerKeeps, AuthCheckNotManagerKeeps, MayConnectCachedKeeps,
     MayConnectNewKeeps, SendRequestReturnsKeeps, SendRequestThrowsKeeps,
     AuthCheckTimesOutKeeps
<1>2. ASSUME NEW r \in ReqIds, ForgetCheck(r) \/ PolicyAnswers(r) PROVE AuthIInv'
  BY <1>2, ForgetCheckKeeps, PolicyAnswersKeeps
<1>3. ASSUME NEW r \in ReqIds, HandleResponse(r) PROVE AuthIInv'
  BY <1>3, HandleResponseKeeps
<1>4. ASSUME NEW c \in Subjects, PolicyChanges(c) PROVE AuthIInv'
  BY <1>4, PolicyChangesKeeps
<1>5. CASE Tick
  BY <1>5, TickKeeps
<1>6. CASE UNCHANGED authVars
  BY <1>6
     DEF AuthIInv, AuthTypeOK, Fresh, CacheSound, SendingSound, CallerSound, GrantSound,
         GrantAge, SentSound, IsManager, authVars, checks, callers, service, clocks
<1>. QED  BY <1>1, <1>2, <1>3, <1>4, <1>5, <1>6 DEF AuthNext

\* The strengthened invariant of authCheck and _NPAAuthChecker.
THEOREM AuthCheckInvariant == AuthSpec => []AuthIInv
<1>. QED  BY InitInvariant, NextKeepsInvariant, PTL DEF AuthSpec

\* The state of the daemon keeps its types.
THEOREM AuthCheckTypeOK == AuthSpec => []AuthTypeOK
<1>1. AuthIInv => AuthTypeOK
  BY DEF AuthIInv
<1>. QED  BY <1>1, AuthCheckInvariant, PTL

\* What mayConnect dereferences for a caller that still waits is there.
THEOREM CompleterIsThereWhileAwaited == AuthSpec => []CompleterIsThere
<1>1. AuthIInv => CompleterIsThere
  BY DEF AuthIInv, CacheSound, SendingSound, CompleterIsThere
<1>. QED  BY <1>1, AuthCheckInvariant, PTL

\* authCheck approves a client that is no manager only on a grant for it.
THEOREM PermitsAreGranted == AuthSpec => []PermitOnlyIfGranted
<1>1. AuthIInv => PermitOnlyIfGranted
  BY DEF AuthIInv, CallerSound, GrantSound, PermitOnlyIfGranted
<1>. QED  BY <1>1, AuthCheckInvariant, PTL

\* A caller that is approved uses a check that is still in completerMap, and
\* so a grant no older than CacheTtl.
LEMMA PermitUsesAFreshGrant ==
    ASSUME AuthIInv, [AuthNext]_authVars, NEW k \in Callers,
           callerPc[k] # "permit", callerPc'[k] = "permit", ~IsManager(k)
    PROVE  policy[from[k]] \/ revokedFor[from[k]] <= CacheTtl
<1>1. ASSUME NEW r \in ReqIds, r \in granted, r \in completerMap, clientOf[r] = from[k]
      PROVE  policy[from[k]] \/ revokedFor[from[k]] <= CacheTtl
  <2>1. policy[from[k]] \/ revokedFor[from[k]] <= age[r]
    BY <1>1 DEF AuthIInv, GrantAge
  <2>2. age[r] \in 0..CacheTtl /\ revokedFor[from[k]] \in 0..(CacheTtl + 1)
    BY <1>1 DEF AuthIInv, AuthTypeOK, Subjects, IsManager
  <2>. QED  BY <2>1, <2>2, AuthCheckAssumption
<1>2. CASE MayConnectCached(k)
  <2>. DEFINE r == authCheckCache[from[k]]
  <2>1. r # NoReq /\ r \in ReqIds /\ r \in completerMap /\ clientOf[r] = from[k]
    BY <1>2 DEF AuthIInv, AuthTypeOK, CacheSound, MayConnectCached
  <2>2. completer[r] = "permit"
    BY <1>2, <2>1 DEF AuthIInv, AuthTypeOK, MayConnectCached, Await, CallAwaits
  <2>3. r \in granted
    BY <2>1, <2>2 DEF AuthIInv, GrantSound
  <2>. QED  BY <1>1, <2>1, <2>3
<1>3. CASE SendRequestReturns(k)
  <2>1. callerPc[k] = "waiting" /\ Await(req[k]) = "permit"
    BY <1>3 DEF AuthIInv, AuthTypeOK, SendRequestReturns
  <2>2. /\ req[k] \in ReqIds
        /\ req[k] \in completerMap
        /\ clientOf[req[k]] = from[k]
    BY <1>3, <2>1 DEF AuthIInv, SendingSound, CallerSound, SendRequestReturns
  <2>3. completer[req[k]] = "permit"
    BY <2>1, <2>2 DEF Await
  <2>4. req[k] \in granted
    BY <2>2, <2>3 DEF AuthIInv, GrantSound
  <2>. QED  BY <1>1, <2>2, <2>4
<1>4. ASSUME NEW r \in ReqIds, HandleResponse(r)
      PROVE  policy[from[k]] \/ revokedFor[from[k]] <= CacheTtl
  <2>1. response[r] = "permit" /\ callerPc[k] = "waiting" /\ req[k] = r
    BY <1>4 DEF HandleResponse, CompleteWith, Awaits
  <2>2. r \in granted /\ r \in completerMap
    BY <1>4, <2>1 DEF AuthIInv, GrantSound, HandleResponse, Completable
  <2>3. clientOf[r] = from[k]
    BY <2>1 DEF AuthIInv, CallerSound
  <2>. QED  BY <1>1, <2>2, <2>3
<1>5. ASSUME NEW j \in Callers, j # k, MayConnectCached(j) \/ SendRequestReturns(j)
      PROVE  FALSE
  BY <1>5 DEF AuthIInv, AuthTypeOK, MayConnectCached, SendRequestReturns
<1>6. ASSUME NEW j \in Callers,
             \/ AuthCheckManager(j)  \/ AuthCheckNotManager(j) \/ MayConnectNew(j)
             \/ SendRequestThrows(j) \/ AuthCheckTimesOut(j)
      PROVE  FALSE
  BY <1>6 DEF AuthIInv, AuthTypeOK, AuthCheckManager, AuthCheckNotManager, MayConnectNew,
     SendRequestThrows, AuthCheckTimesOut, IsManager
<1>7. ASSUME \/ \E r \in ReqIds : ForgetCheck(r) \/ PolicyAnswers(r)
             \/ \E c \in Subjects : PolicyChanges(c)
             \/ Tick
             \/ UNCHANGED authVars
      PROVE  FALSE
  BY <1>7 DEF ForgetCheck, PolicyAnswers, PolicyChanges, Tick, authVars, callers
<1>. QED  BY <1>2, <1>3, <1>4, <1>5, <1>6, <1>7 DEF AuthNext

\* After a withdrawal, checks made before let a client in for at most CacheTtl.
THEOREM StaleGrantsAreBounded == AuthSpec => StaleGrantIsBounded
<1>. DEFINE A == \A k \in Callers :
                     callerPc[k] # "permit" /\ callerPc'[k] = "permit" /\ ~IsManager(k) =>
                         policy[from[k]] \/ revokedFor[from[k]] <= CacheTtl
<1>1. AuthIInv /\ [AuthNext]_authVars => [A]_authVars
  BY PermitUsesAFreshGrant
<1>. QED  BY <1>1, AuthCheckInvariant, PTL DEF AuthSpec, StaleGrantIsBounded

\* A client's next check is sent only after the last one was forgotten.
LEMMA NewCheckComesLater ==
    ASSUME AuthIInv, [AuthNext]_authVars
    PROVE  ChecksAtLeastApart(CacheTtl)
<1>. SUFFICES ASSUME NEW c \in Clients, authCheckCache'[c] \notin {NoReq, authCheckCache[c]}
              PROVE  sinceSent[c] >= CacheTtl
  BY DEF ChecksAtLeastApart
<1>1. PICK k \in Callers : MayConnectNew(k)
  BY DEF AuthIInv, AuthTypeOK, AuthNext, AuthCheckManager, AuthCheckNotManager,
         MayConnectCached, SendRequestReturns, SendRequestThrows, AuthCheckTimesOut,
         ForgetCheck, PolicyAnswers, HandleResponse, CompleteWith, Awaits, PolicyChanges, Tick,
         authVars, checks
<1>2. authCheckCache[c] = NoReq
  BY <1>1 DEF AuthIInv, AuthTypeOK, MayConnectNew
<1>. QED  BY <1>2 DEF AuthIInv, SentSound

\* The policy service is asked about a client at most once in CacheTtl.
THEOREM ChecksAreApart == AuthSpec => OneCheckPerTtl
<1>1. AuthIInv /\ [AuthNext]_authVars => [ChecksAtLeastApart(CacheTtl)]_authVars
  BY NewCheckComesLater
<1>. QED  BY <1>1, AuthCheckInvariant, PTL DEF AuthSpec, OneCheckPerTtl

-----------------------------------------------------------------------------
(* ClientSessions: the inductive invariant *)

\* A handler that has not started its tunnel yet has none, and nobody has
\* told it to end; only a handler past the verification has a key.
Unstarted ==
    \A i \in Instances, r \in Requests :
        pc[i][r] \in {"idle", "locking", "handling", "verifying", "starting"} =>
            /\ tunnel[i][r] = "none" /\ ~told[i][r]
            /\ pc[i][r] # "starting" => signingKey[i][r] = NoKey

\* A daemon that requires signatures starts nothing without a verified key.
Required ==
    requireEnrollmentSignature =>
        \A i \in Instances, r \in Requests :
            pc[i][r] = "starting" \/ Running(i, r) => signingKey[i][r] # NoKey

\* A session that is marked as ending was told to end.
EndingIsTold ==
    \A i \in Instances, r \in Requests :
        clientSessions[i][SessionOf[r]] = r =>
            (told[i][r] <=> SessionOf[r] \in ending[i])

KeyedInv ==
    /\ TypeOK
    /\ Unstarted
    /\ Required
    /\ EndingIsTold
    /\ SignedTunnelIsWatched
    /\ WatchedTunnelRuns
    /\ EndedOnlyIfWithdrawn

-----------------------------------------------------------------------------
(* Every action keeps it *)

\* A request arrives at an instance.
LEMMA ReceiveKeeps ==
    ASSUME KeyedInv, NEW i \in Instances, NEW r \in Requests, Receive(i, r)
    PROVE  KeyedInv'
  BY ClientSessionsAssumption
     DEF KeyedInv, TypeOK, Unstarted, Required, EndingIsTold, SignedTunnelIsWatched,
         WatchedTunnelRuns, EndedOnlyIfWithdrawn, Running, Receive, GoTo, settings,
         handlers, watch

\* The mutex is granted.
LEMMA AcquireMutexKeeps ==
    ASSUME KeyedInv, NEW i \in Instances, NEW r \in Requests, AcquireMutex(i, r)
    PROVE  KeyedInv'
  BY ClientSessionsAssumption
     DEF KeyedInv, TypeOK, Unstarted, Required, EndingIsTold, SignedTunnelIsWatched,
         WatchedTunnelRuns, EndedOnlyIfWithdrawn, Running, AcquireMutex, GoTo, settings,
         handlers, watch

\* Another instance has the mutex.
LEMMA MutexTakenKeeps ==
    ASSUME KeyedInv, NEW i \in Instances, NEW r \in Requests, MutexTaken(i, r)
    PROVE  KeyedInv'
  BY ClientSessionsAssumption
     DEF KeyedInv, TypeOK, Unstarted, Required, EndingIsTold, SignedTunnelIsWatched,
         WatchedTunnelRuns, EndedOnlyIfWithdrawn, Running, MutexTaken, GoTo, settings,
         handlers, watch

\* Asking for the mutex throws.
LEMMA MutexThrowsKeeps ==
    ASSUME KeyedInv, NEW i \in Instances, NEW r \in Requests, MutexThrows(i, r)
    PROVE  KeyedInv'
<1>1. TypeOK'
  <2>1. lease' \in [SessionIds -> Instances \cup {NoInstance}]
    BY ClientSessionsAssumption DEF KeyedInv, TypeOK, MutexThrows
  <2>. QED  BY <2>1 DEF KeyedInv, TypeOK, MutexThrows, GoTo, settings, watch
<1>2. Unstarted'
  BY ClientSessionsAssumption
     DEF KeyedInv, TypeOK, Unstarted, Running, MutexThrows, GoTo, settings, watch
<1>3. Required'
  BY ClientSessionsAssumption
     DEF KeyedInv, TypeOK, Required, Running, MutexThrows, GoTo, settings, watch
<1>4. EndingIsTold'
  BY ClientSessionsAssumption
     DEF KeyedInv, TypeOK, EndingIsTold, Running, MutexThrows, GoTo, settings, watch
<1>5. SignedTunnelIsWatched'
  BY ClientSessionsAssumption
     DEF KeyedInv, TypeOK, SignedTunnelIsWatched, Running, MutexThrows, GoTo, settings,
         watch
<1>6. WatchedTunnelRuns'
  BY ClientSessionsAssumption
     DEF KeyedInv, TypeOK, WatchedTunnelRuns, Running, MutexThrows, GoTo, settings, watch
<1>7. EndedOnlyIfWithdrawn'
  BY ClientSessionsAssumption
     DEF KeyedInv, TypeOK, EndedOnlyIfWithdrawn, Running, MutexThrows, GoTo, settings,
         watch
<1>. QED  BY <1>1, <1>2, <1>3, <1>4, <1>5, <1>6, <1>7 DEF KeyedInv

\* The session id is, or is not, watched already.
LEMMA CheckNotLiveKeeps ==
    ASSUME KeyedInv, NEW i \in Instances, NEW r \in Requests, CheckNotLive(i, r)
    PROVE  KeyedInv'
  BY ClientSessionsAssumption
     DEF KeyedInv, TypeOK, Unstarted, Required, EndingIsTold, SignedTunnelIsWatched,
         WatchedTunnelRuns, EndedOnlyIfWithdrawn, Running, CheckNotLive, GoTo, settings,
         handlers, watch

\* The signature verifies against a published key.
LEMMA SignatureVerifiedKeeps ==
    ASSUME KeyedInv, NEW i \in Instances, NEW r \in Requests, SignatureVerified(i, r)
    PROVE  KeyedInv'
  BY ClientSessionsAssumption
     DEF KeyedInv, TypeOK, Unstarted, Required, EndingIsTold, SignedTunnelIsWatched,
         WatchedTunnelRuns, EndedOnlyIfWithdrawn, Running, SignatureVerified, GoTo,
         settings, handlers, watch

\* There is no signature, or no key to check it with.
LEMMA SignatureNotCheckedKeeps ==
    ASSUME KeyedInv, NEW i \in Instances, NEW r \in Requests, SignatureNotChecked(i, r)
    PROVE  KeyedInv'
  BY ClientSessionsAssumption
     DEF KeyedInv, TypeOK, Unstarted, Required, EndingIsTold, SignedTunnelIsWatched,
         WatchedTunnelRuns, EndedOnlyIfWithdrawn, Running, SignatureNotChecked, GoTo,
         settings, handlers, watch

\* The request is refused.
LEMMA RefuseKeeps ==
    ASSUME KeyedInv, NEW i \in Instances, NEW r \in Requests, Refuse(i, r)
    PROVE  KeyedInv'
  BY ClientSessionsAssumption
     DEF KeyedInv, TypeOK, Unstarted, Required, EndingIsTold, SignedTunnelIsWatched,
         WatchedTunnelRuns, EndedOnlyIfWithdrawn, Running, Refuse, GoTo, settings,
         handlers, watch

\* The tunnel starts: it is watched, or told to end if its id is taken.
LEMMA StartTunnelKeeps ==
    ASSUME KeyedInv, NEW i \in Instances, NEW r \in Requests, StartTunnel(i, r)
    PROVE  KeyedInv'
<1>1. TypeOK'
  BY ClientSessionsAssumption
     DEF KeyedInv, TypeOK, Unstarted, WatchedTunnelRuns, Running, StartTunnel, GoTo,
         settings
<1>2. Unstarted'
  BY ClientSessionsAssumption
     DEF KeyedInv, TypeOK, Unstarted, WatchedTunnelRuns, Running, StartTunnel, GoTo,
         settings
<1>3. Required'
  BY ClientSessionsAssumption
     DEF KeyedInv, TypeOK, Required, Unstarted, WatchedTunnelRuns, Running, StartTunnel,
         GoTo, settings
<1>4. EndingIsTold'
  BY ClientSessionsAssumption
     DEF KeyedInv, TypeOK, EndingIsTold, Unstarted, WatchedTunnelRuns, Running,
         StartTunnel, GoTo, settings
<1>5. SignedTunnelIsWatched'
  <2>. SUFFICES ASSUME NEW j \in Instances, NEW q \in Requests,
                       tunnel'[j][q] = "running", signingKey'[j][q] # NoKey
                PROVE  told'[j][q] \/ clientSessions'[j][SessionOf[q]] = q
    BY DEF SignedTunnelIsWatched, Running
  <2>1. CASE j = i /\ q = r
    BY <2>1, ClientSessionsAssumption DEF KeyedInv, TypeOK, StartTunnel
  <2>2. CASE ~(j = i /\ q = r)
    <3>1. told[j][q] \/ clientSessions[j][SessionOf[q]] = q
      BY <2>2 DEF KeyedInv, TypeOK, SignedTunnelIsWatched, Running, StartTunnel
    <3>2. told'[j][q] = told[j][q]
      BY <2>2 DEF KeyedInv, TypeOK, StartTunnel
    <3>3. clientSessions[j][SessionOf[q]] = q => clientSessions'[j][SessionOf[q]] = q
      BY ClientSessionsAssumption DEF KeyedInv, TypeOK, StartTunnel
    <3>. QED  BY <3>1, <3>2, <3>3
  <2>. QED  BY <2>1, <2>2
<1>6. WatchedTunnelRuns'
  BY ClientSessionsAssumption
     DEF KeyedInv, TypeOK, WatchedTunnelRuns, Unstarted, Running, StartTunnel, GoTo,
         settings
<1>7. EndedOnlyIfWithdrawn'
  BY ClientSessionsAssumption
     DEF KeyedInv, TypeOK, EndedOnlyIfWithdrawn, Unstarted, WatchedTunnelRuns, Running,
         StartTunnel, GoTo, settings
<1>. QED  BY <1>1, <1>2, <1>3, <1>4, <1>5, <1>6, <1>7 DEF KeyedInv

\* The tunnel does not start.
LEMMA StartFailsKeeps ==
    ASSUME KeyedInv, NEW i \in Instances, NEW r \in Requests, StartFails(i, r)
    PROVE  KeyedInv'
  BY ClientSessionsAssumption
     DEF KeyedInv, TypeOK, Unstarted, Required, EndingIsTold, SignedTunnelIsWatched,
         WatchedTunnelRuns, EndedOnlyIfWithdrawn, Running, StartFails, GoTo, settings,
         handlers, watch

\* The client is told.
LEMMA NotifyKeeps ==
    ASSUME KeyedInv, NEW i \in Instances, NEW r \in Requests, Notify(i, r)
    PROVE  KeyedInv'
  BY ClientSessionsAssumption
     DEF KeyedInv, TypeOK, Unstarted, Required, EndingIsTold, SignedTunnelIsWatched,
         WatchedTunnelRuns, EndedOnlyIfWithdrawn, Running, Notify, GoTo, settings,
         handlers, watch

\* The tunnel ends and is forgotten.
LEMMA TunnelEndsKeeps ==
    ASSUME KeyedInv, NEW i \in Instances, NEW r \in Requests, TunnelEnds(i, r)
    PROVE  KeyedInv'
<1>0. \/ /\ clientSessions[i][SessionOf[r]] = r
         /\ clientSessions' = [clientSessions EXCEPT ![i][SessionOf[r]] = NoRequest]
         /\ ending' = [ending EXCEPT ![i] = @ \ {SessionOf[r]}]
      \/ /\ clientSessions[i][SessionOf[r]] # r
         /\ UNCHANGED <<clientSessions, ending>>
  BY DEF TunnelEnds, watch
<1>a. /\ SessionOf[r] \in SessionIds
      /\ clientSessions \in [Instances -> [SessionIds -> Requests \cup {NoRequest}]]
      /\ ending \in [Instances -> SUBSET SessionIds]
  BY ClientSessionsAssumption DEF KeyedInv, TypeOK
<1>b. \A j \in Instances, x \in SessionIds :
         \/ clientSessions'[j][x] = clientSessions[j][x]
         \/ j = i /\ x = SessionOf[r] /\ clientSessions'[j][x] = NoRequest
  BY <1>0, <1>a
<1>c. \A j \in Instances :
         ending'[j] = IF j = i /\ clientSessions[i][SessionOf[r]] = r
                      THEN ending[j] \ {SessionOf[r]} ELSE ending[j]
  BY <1>0, <1>a DEF TunnelEnds, watch
<1>1. TypeOK'
  <2>1. clientSessions' \in [Instances -> [SessionIds -> Requests \cup {NoRequest}]]
    BY <1>0, <1>a
  <2>2. \A j \in Instances :
            ending'[j] \subseteq {x \in SessionIds : clientSessions'[j][x] # NoRequest}
    BY <1>b, <1>c, <1>0, <1>a DEF KeyedInv, TypeOK
  <2>3. ending' \in [Instances -> SUBSET SessionIds]
    BY <1>0, <1>a
  <2>. QED  BY <2>1, <2>2, <2>3 DEF KeyedInv, TypeOK, TunnelEnds, settings, handlers, watch
<1>2. Unstarted'
  BY ClientSessionsAssumption
     DEF KeyedInv, TypeOK, Unstarted, WatchedTunnelRuns, Running, TunnelEnds, settings,
         handlers, watch
<1>3. Required'
  BY ClientSessionsAssumption
     DEF KeyedInv, TypeOK, Required, WatchedTunnelRuns, Running, TunnelEnds, settings,
         handlers, watch
<1>4. EndingIsTold'
  <2>. SUFFICES ASSUME NEW j \in Instances, NEW q \in Requests,
                       clientSessions'[j][SessionOf[q]] = q
                PROVE  told'[j][q] <=> SessionOf[q] \in ending'[j]
    BY DEF EndingIsTold
  <2>1. SessionOf[q] \in SessionIds /\ q # NoRequest
    BY ClientSessionsAssumption
  <2>2. clientSessions[j][SessionOf[q]] = q /\ ~(j = i /\ SessionOf[q] = SessionOf[r]
                                               /\ clientSessions[i][SessionOf[r]] = r)
    BY <1>b, <1>0, <1>a, <2>1
  <2>3. told[j][q] <=> SessionOf[q] \in ending[j]
    BY <2>2 DEF KeyedInv, EndingIsTold
  <2>. QED  BY <1>c, <2>2, <2>3 DEF TunnelEnds
<1>5. SignedTunnelIsWatched'
  BY ClientSessionsAssumption
     DEF KeyedInv, TypeOK, SignedTunnelIsWatched, WatchedTunnelRuns, Running, TunnelEnds,
         settings, handlers, watch
<1>6. WatchedTunnelRuns'
  BY ClientSessionsAssumption
     DEF KeyedInv, TypeOK, WatchedTunnelRuns, Running, TunnelEnds, settings, handlers,
         watch
<1>7. EndedOnlyIfWithdrawn'
  <2>. SUFFICES ASSUME NEW j \in Instances, NEW x \in SessionIds,
                       clientSessions'[j][x] # NoRequest
                PROVE  told'[j][clientSessions'[j][x]] =>
                         keyStatus'[signingKey'[j][clientSessions'[j][x]]] = "withdrawn"
    BY DEF EndedOnlyIfWithdrawn
  <2>1. clientSessions'[j][x] = clientSessions[j][x]
    BY <1>b
  <2>. QED  BY <2>1 DEF KeyedInv, EndedOnlyIfWithdrawn, TunnelEnds, handlers
<1>. QED  BY <1>1, <1>2, <1>3, <1>4, <1>5, <1>6, <1>7 DEF KeyedInv

\* A round of re-checks begins.
LEMMA CheckClientKeysKeeps ==
    ASSUME KeyedInv, NEW i \in Instances, CheckClientKeys(i)
    PROVE  KeyedInv'
  BY ClientSessionsAssumption
     DEF KeyedInv, TypeOK, Unstarted, Required, EndingIsTold, SignedTunnelIsWatched,
         WatchedTunnelRuns, EndedOnlyIfWithdrawn, Running, CheckClientKeys, settings,
         handlers, watch

\* The record itself is looked up.
LEMMA LookupDirectKeeps ==
    ASSUME KeyedInv, NEW i \in Instances, NEW k \in Keys, LookupDirect(i, k)
    PROVE  KeyedInv'
  BY ClientSessionsAssumption
     DEF KeyedInv, TypeOK, Unstarted, Required, EndingIsTold, SignedTunnelIsWatched,
         WatchedTunnelRuns, EndedOnlyIfWithdrawn, Running, LookupDirect, CheckGoesTo,
         LiveUnder, settings, handlers, watch

\* The record has not been moved.
LEMMA NotWithdrawnKeeps ==
    ASSUME KeyedInv, NEW i \in Instances, NEW k \in Keys, NotWithdrawn(i, k)
    PROVE  KeyedInv'
  BY ClientSessionsAssumption
     DEF KeyedInv, TypeOK, Unstarted, Required, EndingIsTold, SignedTunnelIsWatched,
         WatchedTunnelRuns, EndedOnlyIfWithdrawn, Running, NotWithdrawn, CheckGoesTo,
         LiveUnder, settings, handlers, watch

\* The record was withdrawn: its sessions are told to end.
LEMMA WithdrawnKeeps ==
    ASSUME KeyedInv, NEW i \in Instances, NEW k \in Keys, Withdrawn(i, k)
    PROVE  KeyedInv'
<1>1. TypeOK'
  BY ClientSessionsAssumption
     DEF KeyedInv, TypeOK, WatchedTunnelRuns, Running, Withdrawn, LiveUnder, CheckGoesTo,
         settings, handlers
<1>2. Unstarted'
  BY ClientSessionsAssumption
     DEF KeyedInv, TypeOK, Unstarted, WatchedTunnelRuns, Running, Withdrawn, LiveUnder,
         CheckGoesTo, settings, handlers
<1>3. Required'
  BY ClientSessionsAssumption
     DEF KeyedInv, TypeOK, Required, WatchedTunnelRuns, Running, Withdrawn, LiveUnder,
         CheckGoesTo, settings, handlers
<1>4. EndingIsTold'
  <2>. SUFFICES ASSUME NEW j \in Instances, NEW r \in Requests,
                       clientSessions[j][SessionOf[r]] = r
                PROVE  told'[j][r] <=> SessionOf[r] \in ending'[j]
    BY DEF EndingIsTold, Withdrawn
  <2>1. told[j][r] <=> SessionOf[r] \in ending[j]
    BY DEF KeyedInv, EndingIsTold
  <2>2. CASE j # i
    BY <2>1, <2>2 DEF KeyedInv, TypeOK, Withdrawn
  <2>3. CASE j = i
    <3>1. (\E x \in LiveUnder(i, k) : clientSessions[i][x] = r)
             <=> SessionOf[r] \in LiveUnder(i, k)
      BY <2>3, ClientSessionsAssumption DEF KeyedInv, WatchedTunnelRuns, LiveUnder
    <3>2. told'[i][r] <=> told[i][r] \/ \E x \in LiveUnder(i, k) : clientSessions[i][x] = r
      BY DEF KeyedInv, TypeOK, Withdrawn
    <3>3. ending'[i] = ending[i] \cup LiveUnder(i, k)
      BY DEF KeyedInv, TypeOK, Withdrawn
    <3>. QED  BY <2>1, <2>3, <3>1, <3>2, <3>3
  <2>. QED  BY <2>2, <2>3
<1>5. SignedTunnelIsWatched'
  BY ClientSessionsAssumption
     DEF KeyedInv, TypeOK, SignedTunnelIsWatched, WatchedTunnelRuns, Running, Withdrawn,
         LiveUnder, CheckGoesTo, settings, handlers
<1>6. WatchedTunnelRuns'
  BY ClientSessionsAssumption
     DEF KeyedInv, TypeOK, WatchedTunnelRuns, Running, Withdrawn, LiveUnder, CheckGoesTo,
         settings, handlers
<1>7. EndedOnlyIfWithdrawn'
  BY ClientSessionsAssumption
     DEF KeyedInv, TypeOK, EndedOnlyIfWithdrawn, WatchedTunnelRuns, Running, Withdrawn,
         LiveUnder, CheckGoesTo, settings, handlers
<1>. QED  BY <1>1, <1>2, <1>3, <1>4, <1>5, <1>6, <1>7 DEF KeyedInv

\* A lookup fails.
LEMMA LookupFailsKeeps ==
    ASSUME KeyedInv, NEW i \in Instances, NEW k \in Keys, LookupFails(i, k)
    PROVE  KeyedInv'
  BY ClientSessionsAssumption
     DEF KeyedInv, TypeOK, Unstarted, Required, EndingIsTold, SignedTunnelIsWatched,
         WatchedTunnelRuns, EndedOnlyIfWithdrawn, Running, LookupFails, CheckGoesTo,
         LiveUnder, settings, handlers, watch

\* A lease runs out.
LEMMA LeaseExpiresKeeps ==
    ASSUME KeyedInv, NEW x \in SessionIds, LeaseExpires(x)
    PROVE  KeyedInv'
  BY ClientSessionsAssumption
     DEF KeyedInv, TypeOK, Unstarted, Required, EndingIsTold, SignedTunnelIsWatched,
         WatchedTunnelRuns, EndedOnlyIfWithdrawn, Running, LeaseExpires, settings,
         handlers, watch

\* A record changes; a withdrawn one stays withdrawn.
LEMMA KeyChangesKeeps ==
    ASSUME KeyedInv, NEW k \in Keys, KeyChanges(k)
    PROVE  KeyedInv'
  BY ClientSessionsAssumption
     DEF KeyedInv, TypeOK, Unstarted, Required, EndingIsTold, SignedTunnelIsWatched,
         WatchedTunnelRuns, EndedOnlyIfWithdrawn, Running, KeyChanges, settings, handlers,
         watch

-----------------------------------------------------------------------------
\* The initial states satisfy the invariant.
LEMMA InitIInv == Init => KeyedInv
  BY ClientSessionsAssumption
     DEF Init, KeyedInv, TypeOK, Unstarted, Required, EndingIsTold, SignedTunnelIsWatched,
         WatchedTunnelRuns, EndedOnlyIfWithdrawn, Running

\* Every step, and every stuttering step, keeps it.
LEMMA NextIInv == KeyedInv /\ [Next]_vars => KeyedInv'
<1>. SUFFICES ASSUME KeyedInv, [Next]_vars  PROVE KeyedInv'
  OBVIOUS
<1>1. ASSUME NEW i \in Instances, NEW r \in Requests, Handle(i, r)  PROVE KeyedInv'
  BY <1>1, ReceiveKeeps, AcquireMutexKeeps, MutexTakenKeeps, MutexThrowsKeeps,
     CheckNotLiveKeeps, SignatureVerifiedKeeps, SignatureNotCheckedKeeps, RefuseKeeps,
     StartTunnelKeeps, StartFailsKeeps, NotifyKeeps DEF Handle
<1>2. ASSUME NEW i \in Instances, NEW k \in Keys, Recheck(i, k)  PROVE KeyedInv'
  BY <1>2, LookupDirectKeeps, NotWithdrawnKeeps, WithdrawnKeeps, LookupFailsKeeps
     DEF Recheck
<1>3. CASE UNCHANGED vars
  BY <1>3 DEF KeyedInv, TypeOK, Unstarted, Required, EndingIsTold, SignedTunnelIsWatched,
         WatchedTunnelRuns, EndedOnlyIfWithdrawn, Running, vars, settings, handlers, watch
<1>. QED  BY <1>1, <1>2, <1>3, TunnelEndsKeeps, CheckClientKeysKeeps, LeaseExpiresKeeps,
             KeyChangesKeeps DEF Next

\* The invariant holds in every reachable state.
LEMMA Invariance == Spec => []KeyedInv
  BY InitIInv, NextIInv, PTL DEF Spec

\* No tunnel of a client that signed its request escapes the watch of
\* trackClientSession: it is watched under its session id or was told to end,
\* however requests that share an id interleave.
THEOREM SignedTunnelsAreWatched == Spec => []SignedTunnelIsWatched
  BY Invariance, PTL DEF KeyedInv

\* A daemon that requires enrollment signatures runs no tunnel unwatched.
THEOREM RequiredMeansWatchedAlways == Spec => []RequiredMeansWatched
<1>1. KeyedInv => RequiredMeansWatched
  BY DEF KeyedInv, Required, SignedTunnelIsWatched, RequiredMeansWatched
<1>. QED  BY <1>1, Invariance, PTL

\* No entry of _clientSessions outlives its tunnel, so no session id stays
\* refused for ever.
THEOREM WatchedTunnelsRun == Spec => []WatchedTunnelRuns
  BY Invariance, PTL DEF KeyedInv

\* A re-check ends a watched session only when its key has been withdrawn.
THEOREM EndedOnlyWhenWithdrawn == Spec => []EndedOnlyIfWithdrawn
  BY Invariance, PTL DEF KeyedInv

-----------------------------------------------------------------------------
(* AuthorizedKeys: the inductive invariant *)

\* An edit is queued for the lock from its first step to its last, and past
\* its first file operation it is the holder.
LockSound ==
    /\ \A i \in 1..Len(lock) :
          /\ lock[i].op = "authorize" =>
                startPc[lock[i].who] \in {"locking", "read", "appending"}
          /\ lock[i].op = "deauthorize" =>
                edit[lock[i].who] \in {"locking", "read", "written"}
    /\ \A s \in Sessions :
          /\ startPc[s] \in {"read", "appending"} => Holds(s, "authorize")
          /\ edit[s] \in {"read", "written"} => Holds(s, "deauthorize")

\* A key awaits its removal once, and only after the client was told of it.
RemovalSound ==
    /\ IsFiniteSet(pending)
    /\ \A s \in Sessions :
          /\ edit[s] # "none" \/ s \in pending => startPc[s] = "started"
          /\ s \in pending => edit[s] = "none"

\* Every entry has a line of its own; what an edit has read is still what the
\* file holds, and a key that was removed is gone.
FileSound ==
    /\ \A i \in 1..Len(lines) : lines[i] = <<>> \/ \E e \in Entries : lines[i] = <<e>>
    /\ \A s \in Sessions :
          /\ startPc[s] = "appending" => newline
          /\ edit[s] = "read" => read[s] = lines
          /\ edit[s] \in {"written", "done"} => <<s>> \notin ToSet(lines)

\* stop() waits for deauthorizations that have begun, and returns when all of
\* them are over.
StopSound ==
    /\ \A s \in stopWaitsFor : edit[s] # "none"
    /\ stopPc \in {"running", "cancelling"} => stopWaitsFor = {}
    /\ stopPc = "stopped" => stopWaitsFor \cap Deauthorizing = {}

KeysIInv ==
    /\ KeysTypeOK
    /\ LockSound
    /\ RemovalSound
    /\ AllLocked => FileSound
    /\ LockedEditsKeepOthers
    /\ StopSound

-----------------------------------------------------------------------------
(* The lock's queue *)

Edits == [who : Sessions, op : {"authorize", "deauthorize"}]

\* The first of a queue without duplicates leaves it for good.
LEMMA TailQueue ==
    ASSUME NEW S, NEW q \in Seq(S), IsInjective(q), q # <<>>
    PROVE  /\ Tail(q) \in Seq(S)
           /\ Len(Tail(q)) = Len(q) - 1
           /\ \A i \in 1..Len(Tail(q)) : Tail(q)[i] = q[i + 1] /\ Tail(q)[i] # Head(q)
           /\ IsInjective(Tail(q))
<1>1. /\ Tail(q) \in Seq(S)
      /\ Len(Tail(q)) = Len(q) - 1
      /\ Len(q) \in Nat \ {0}
      /\ \A i \in 1..Len(Tail(q)) : Tail(q)[i] = q[i + 1]
      /\ DOMAIN q = 1..Len(q) /\ DOMAIN Tail(q) = 1..Len(Tail(q))
      /\ Head(q) = q[1]
  BY HeadTailProperties
<1>. QED  BY <1>1, SMT DEF IsInjective

\* An edit that is not queued yet may queue up.
LEMMA AppendQueue ==
    ASSUME NEW S, NEW q \in Seq(S), IsInjective(q), NEW e \in S,
           \A i \in 1..Len(q) : q[i] # e
    PROVE  /\ Append(q, e) \in Seq(S)
           /\ Len(Append(q, e)) = Len(q) + 1
           /\ \A i \in 1..Len(q) : Append(q, e)[i] = q[i]
           /\ Append(q, e)[Len(q) + 1] = e
           /\ Append(q, e) # <<>>
           /\ q # <<>> => Head(Append(q, e)) = Head(q)
           /\ IsInjective(Append(q, e))
<1>1. /\ Append(q, e) \in Seq(S)
      /\ Append(q, e) # <<>>
      /\ Len(Append(q, e)) = Len(q) + 1
      /\ \A i \in 1..Len(q) : Append(q, e)[i] = q[i]
      /\ Append(q, e)[Len(q) + 1] = e
  BY AppendProperties
<1>2. Len(q) \in Nat /\ DOMAIN Append(q, e) = 1..(Len(q) + 1)
  BY <1>1, LenProperties
<1>3. q # <<>> => Head(Append(q, e)) = Head(q)
  <2>. SUFFICES ASSUME q # <<>> PROVE Head(Append(q, e)) = Head(q)
    OBVIOUS
  <2>1. 1 \in 1..Len(q) /\ Head(q) = q[1] /\ Head(Append(q, e)) = Append(q, e)[1]
    BY <1>1, <1>2, EmptySeq, HeadTailProperties
  <2>. QED  BY <2>1, <1>1
<1>. QED  BY <1>1, <1>2, <1>3, SMT DEF IsInjective

\* So may several, one behind the other.
LEMMA ConcatQueue ==
    ASSUME NEW S, NEW q \in Seq(S), NEW r \in Seq(S), IsInjective(q), IsInjective(r),
           \A i \in 1..Len(q), j \in 1..Len(r) : q[i] # r[j]
    PROVE  /\ q \o r \in Seq(S)
           /\ Len(q \o r) = Len(q) + Len(r)
           /\ \A i \in 1..Len(q) : (q \o r)[i] = q[i]
           /\ \A i \in 1..(Len(q) + Len(r)) :
                 (\E j \in 1..Len(q) : (q \o r)[i] = q[j])
                   \/ (\E j \in 1..Len(r) : (q \o r)[i] = r[j])
           /\ q # <<>> => q \o r # <<>> /\ Head(q \o r) = Head(q)
           /\ IsInjective(q \o r)
<1>1. /\ q \o r \in Seq(S)
      /\ Len(q \o r) = Len(q) + Len(r)
      /\ \A i \in 1..(Len(q) + Len(r)) :
            (q \o r)[i] = IF i <= Len(q) THEN q[i] ELSE r[i - Len(q)]
  BY ConcatProperties
<1>2. /\ Len(q) \in Nat /\ Len(r) \in Nat /\ DOMAIN (q \o r) = 1..(Len(q) + Len(r))
      /\ DOMAIN q = 1..Len(q) /\ DOMAIN r = 1..Len(r)
  BY <1>1, LenProperties
<1>3. q # <<>> => q \o r # <<>> /\ Head(q \o r) = Head(q)
  <2>. SUFFICES ASSUME q # <<>> PROVE q \o r # <<>> /\ Head(q \o r) = Head(q)
    OBVIOUS
  <2>1. Len(q) > 0
    BY <1>2, EmptySeq
  <2>2. q \o r # <<>>
    BY <2>1, <1>1, <1>2, EmptySeq
  <2>3. Head(q) = q[1] /\ Head(q \o r) = (q \o r)[1]
    BY <2>2, <1>1, HeadTailProperties
  <2>. QED  BY <2>1, <2>2, <2>3, <1>1, <1>2
<1>4. \A i \in 1..Len(q) : (q \o r)[i] = q[i]
  BY <1>1, <1>2
<1>5. \A i \in 1..(Len(q) + Len(r)) :
         (\E j \in 1..Len(q) : (q \o r)[i] = q[j])
           \/ (\E j \in 1..Len(r) : (q \o r)[i] = r[j])
  <2>. SUFFICES ASSUME NEW i \in 1..(Len(q) + Len(r)), i > Len(q)
                PROVE  i - Len(q) \in 1..Len(r)
    BY <1>1, <1>2
  <2>. QED  BY <1>2
<1>6. IsInjective(q \o r)
  <2>. SUFFICES ASSUME NEW a \in 1..(Len(q) + Len(r)), NEW b \in 1..(Len(q) + Len(r)),
                       (q \o r)[a] = (q \o r)[b]
                PROVE  a = b
    BY <1>2 DEF IsInjective
  <2>1. CASE a <= Len(q) /\ b <= Len(q)
    BY <2>1, <1>1, <1>2 DEF IsInjective
  <2>2. CASE a > Len(q) /\ b > Len(q)
    <3>1. a - Len(q) \in DOMAIN r /\ b - Len(q) \in DOMAIN r
      BY <2>2, <1>2
    <3>2. r[a - Len(q)] = r[b - Len(q)]
      BY <2>2, <1>1, <1>2
    <3>. QED  BY <3>1, <3>2, <1>2 DEF IsInjective
  <2>3. CASE a <= Len(q) /\ b > Len(q)
    BY <2>3, <1>1, <1>2
  <2>4. CASE a > Len(q) /\ b <= Len(q)
    BY <2>4, <1>1, <1>2
  <2>. QED  BY <2>1, <2>2, <2>3, <2>4, <1>2
<1>. QED  BY <1>1, <1>3, <1>4, <1>5, <1>6

-----------------------------------------------------------------------------
(* The file's lines *)

\* Appending a line adds just that line.
LEMMA AppendLine ==
    ASSUME NEW S, NEW q \in Seq(S), NEW e \in S
    PROVE  Append(q, e) \in Seq(S) /\ ToSet(Append(q, e)) = ToSet(q) \cup {e}
<1>1. /\ Append(q, e) \in Seq(S)
      /\ Len(Append(q, e)) = Len(q) + 1
      /\ \A i \in 1..Len(q) : Append(q, e)[i] = q[i]
      /\ Append(q, e)[Len(q) + 1] = e
  BY AppendProperties
<1>2. Len(q) \in Nat /\ DOMAIN q = 1..Len(q) /\ DOMAIN Append(q, e) = 1..(Len(q) + 1)
  BY <1>1, LenProperties
<1>3. 1..(Len(q) + 1) = 1..Len(q) \cup {Len(q) + 1}
  BY <1>2
<1>. QED  BY <1>1, <1>2, <1>3 DEF ToSet

\* The lines at a set of places, listed in order, are the lines at those
\* places.
LEMMA LinesInOrder ==
    ASSUME NEW S, NEW q \in Seq(S), NEW kept \in SUBSET (1..Len(q)),
           NEW at \in InOrder(kept)
    PROVE  /\ [i \in DOMAIN at |-> q[at[i]]] \in Seq(S)
           /\ ToSet([i \in DOMAIN at |-> q[at[i]]]) = {q[i] : i \in kept}
<1>. DEFINE n == Cardinality(kept)
            w == [i \in DOMAIN at |-> q[at[i]]]
<1>1. n \in Nat
  <2>1. IsFiniteSet(1..Len(q))
    BY LenProperties, FS_Interval
  <2>2. IsFiniteSet(kept)
    BY <2>1, FS_Subset
  <2>. QED  BY <2>2, FS_CardinalityType
<1>2. at \in [1..n -> kept] /\ \A k \in kept : \E i \in 1..n : at[i] = k
  BY DEF InOrder, Bijection, Injection, Surjection
<1>3. \A i \in 1..Len(q) : q[i] \in S
  BY ElementOfSeq
<1>4. w \in [1..n -> S]
  BY <1>2, <1>3
<1>5. w \in Seq(S)
  BY <1>1, <1>4, SeqDef
<1>6. ToSet(w) = {q[i] : i \in kept}
  BY <1>2 DEF ToSet
<1>. QED  BY <1>5, <1>6

\* A line with one entry says what the entry is.
LEMMA OneEntry ==
    ASSUME NEW S, NEW e \in S, NEW f \in S
    PROVE  /\ <<e>> \in Seq(S) /\ <<e>> # <<>> /\ Last(<<e>>) = e
           /\ <<e>> = <<f>> => e = f
           /\ ToSet(<<e>>) = {e}
BY DEF Last, ToSet

-----------------------------------------------------------------------------
(* The invariant's steps *)

\* The file with the user's line, and nothing under way.
LEMMA KeysInitInvariant == KeysInit => KeysIInv
<1>. SUFFICES ASSUME KeysInit PROVE KeysIInv
  OBVIOUS
<1>1. UserKey \in Entries /\ <<UserKey>> \in Seq(Entries)
  BY DEF Entries
<1>2. /\ lines \in Seq(Seq(Entries)) /\ Len(lines) = 1 /\ lines[1] = <<UserKey>>
      /\ DOMAIN lines = {1}
  BY <1>1 DEF KeysInit
<1>3. lock \in Seq(Edits) /\ Len(lock) = 0 /\ IsInjective(lock)
  BY DEF KeysInit, IsInjective
<1>4. KeysTypeOK
  BY <1>2, <1>3 DEF KeysInit, KeysTypeOK, Edits
<1>. QED
  BY <1>1, <1>2, <1>3, <1>4, FS_EmptySet
     DEF KeysInit, KeysIInv, LockSound, RemovalSound, FileSound, LockedEditsKeepOthers,
         NothingTorn, StopSound, ToSet, Deauthorizing

\* An edit that has begun to change the file is the lock's holder, so it is
\* the only one; nothing that is not queued can be.
LEMMA OneHolder ==
    ASSUME KeysIInv, NEW s \in Sessions, NEW t \in Sessions
    PROVE  /\ startPc[s] \in {"read", "appending"} =>
                 /\ lock # <<>> /\ Head(lock) = [who |-> s, op |-> "authorize"]
                 /\ edit[t] \notin {"read", "written"}
                 /\ startPc[t] \in {"read", "appending"} => t = s
           /\ edit[s] \in {"read", "written"} =>
                 /\ lock # <<>> /\ Head(lock) = [who |-> s, op |-> "deauthorize"]
                 /\ startPc[t] \notin {"read", "appending"}
                 /\ edit[t] \in {"read", "written"} => t = s
           /\ Holds(s, "authorize") =>
                 /\ edit[t] \notin {"read", "written"}
                 /\ startPc[t] \in {"read", "appending"} => t = s
           /\ Holds(s, "deauthorize") =>
                 /\ startPc[t] \notin {"read", "appending"}
                 /\ edit[t] \in {"read", "written"} => t = s
BY SMT DEF KeysIInv, LockSound, Holds

\* The queue holds edits, each at most once.
LEMMA LockType ==
    ASSUME KeysIInv
    PROVE  /\ lock \in Seq(Edits) /\ IsInjective(lock)
           /\ Len(lock) \in Nat
           /\ \A i \in 1..Len(lock) : lock[i] \in Edits
           /\ lock # <<>> => 1 \in 1..Len(lock) /\ Head(lock) = lock[1]
<1>1. lock \in Seq(Edits) /\ IsInjective(lock)
  BY DEF KeysIInv, KeysTypeOK, Edits
<1>2. Len(lock) \in Nat /\ \A i \in 1..Len(lock) : lock[i] \in Edits
  BY <1>1, LenProperties, ElementOfSeq
<1>3. lock # <<>> => 1 \in 1..Len(lock) /\ Head(lock) = lock[1]
  BY <1>1, <1>2, EmptySeq, HeadTailProperties
<1>. QED  BY <1>1, <1>2, <1>3

\* startDirectSsh queues for the lock.
LEMMA StartDirectSshKeeps ==
    ASSUME KeysIInv, NEW s \in Sessions, StartDirectSsh(s)
    PROVE  KeysIInv'
<1>. DEFINE e == [who |-> s, op |-> "authorize"]
<1>1. e \in Edits /\ \A i \in 1..Len(lock) : lock[i] # e
  BY SMT DEF KeysIInv, LockSound, StartDirectSsh, Edits
<1>2. /\ lock' \in Seq(Edits) /\ lock' # <<>> /\ IsInjective(lock')
      /\ Len(lock') = Len(lock) + 1
      /\ \A i \in 1..Len(lock) : lock'[i] = lock[i]
      /\ lock'[Len(lock) + 1] = e
      /\ lock # <<>> => Head(lock') = Head(lock)
  BY <1>1, LockType, AppendQueue DEF StartDirectSsh, Enqueue
<1>3. startPc' = [startPc EXCEPT ![s] = "locking"] /\ startPc[s] = "idle"
  BY DEF StartDirectSsh
<1>4. UNCHANGED <<lines, newline, edit, read, pending, keyPc, stopPc, stopWaitsFor>>
  BY DEF StartDirectSsh, file
<1>5. KeysTypeOK'
  BY <1>2, <1>3, <1>4 DEF KeysIInv, KeysTypeOK, Edits
<1>6. LockSound'
  <2>1. \A i \in 1..Len(lock') : i \in 1..Len(lock) \/ i = Len(lock) + 1
    BY <1>2, LockType
  <2>2. ASSUME NEW i \in 1..Len(lock')
        PROVE  /\ lock'[i].op = "authorize" =>
                     startPc'[lock'[i].who] \in {"locking", "read", "appending"}
               /\ lock'[i].op = "deauthorize" =>
                     edit'[lock'[i].who] \in {"locking", "read", "written"}
    <3>1. CASE i = Len(lock) + 1
      BY <3>1, <1>2, <1>3 DEF KeysIInv, KeysTypeOK
    <3>2. CASE i \in 1..Len(lock)
      <4>1. lock'[i] = lock[i] /\ lock[i] \in Edits
        BY <3>2, <1>2, LockType
      <4>. QED
        BY <4>1, <3>2, <1>3, <1>4 DEF KeysIInv, KeysTypeOK, LockSound, Edits
    <3>. QED  BY <2>1, <3>1, <3>2
  <2>3. \A t \in Sessions :
           /\ startPc'[t] \in {"read", "appending"} => Holds(t, "authorize")'
           /\ edit'[t] \in {"read", "written"} => Holds(t, "deauthorize")'
    BY <1>2, <1>3, <1>4 DEF KeysIInv, KeysTypeOK, LockSound, Holds
  <2>. QED  BY <2>2, <2>3 DEF LockSound
<1>7. RemovalSound' /\ StopSound'
  BY <1>3, <1>4 DEF KeysIInv, KeysTypeOK, RemovalSound, StopSound, Deauthorizing
<1>8. (AllLocked => FileSound)' /\ LockedEditsKeepOthers'
  BY <1>3, <1>4
     DEF KeysIInv, KeysTypeOK, AllLocked, FileSound, LockedEditsKeepOthers, NothingTorn
<1>. QED  BY <1>5, <1>6, <1>7, <1>8 DEF KeysIInv

\* authorizePublicKey reads the file as the holder.
LEMMA AuthorizeReadKeeps ==
    ASSUME KeysIInv, NEW s \in Sessions, AuthorizeRead(s)
    PROVE  KeysIInv'
<1>1. /\ startPc' = [startPc EXCEPT ![s] = IF newline THEN "appending" ELSE "read"]
      /\ startPc[s] = "locking" /\ Holds(s, "authorize")
  BY DEF AuthorizeRead
<1>2. UNCHANGED <<lines, newline, lock, edit, read, pending, keyPc, stopPc, stopWaitsFor>>
  BY DEF AuthorizeRead, file
<1>3. startPc' \in [Sessions -> {"idle", "locking", "read", "appending", "notifying",
                                 "started", "failed"}]
  BY <1>1 DEF KeysIInv, KeysTypeOK
<1>4. KeysTypeOK'
  BY <1>2, <1>3 DEF KeysIInv, KeysTypeOK
<1>5. LockSound'
  BY <1>1, <1>2, LockType DEF KeysIInv, KeysTypeOK, LockSound, Holds, Edits
<1>6. RemovalSound' /\ StopSound'
  BY <1>1, <1>2 DEF KeysIInv, KeysTypeOK, RemovalSound, StopSound, Deauthorizing
<1>7. (AllLocked => FileSound)' /\ LockedEditsKeepOthers'
  BY <1>1, <1>2
     DEF KeysIInv, KeysTypeOK, AllLocked, FileSound, LockedEditsKeepOthers, NothingTorn
<1>. QED  BY <1>4, <1>5, <1>6, <1>7 DEF KeysIInv

\* A newline after the last line leaves every line as it is.
LEMMA NewlineKeepsLines ==
    ASSUME KeysIInv, AppendNewline
    PROVE  /\ lines' \in Seq(Seq(Entries))
           /\ newline' = TRUE
           /\ ToSet(lines') \in {ToSet(lines), ToSet(lines) \cup {<<>>}}
<1>1. lines \in Seq(Seq(Entries)) /\ <<>> \in Seq(Entries)
  BY DEF KeysIInv, KeysTypeOK
<1>2. /\ Append(lines, <<>>) \in Seq(Seq(Entries))
      /\ ToSet(Append(lines, <<>>)) = ToSet(lines) \cup {<<>>}
  <2>1. \A line \in Seq(Entries) :
           /\ Append(lines, line) \in Seq(Seq(Entries))
           /\ ToSet(Append(lines, line)) = ToSet(lines) \cup {line}
    BY <1>1, AppendLine
  <2>. QED  BY <1>1, <2>1, Zenon
<1>3. lines' \in {lines, Append(lines, <<>>)} /\ newline' = TRUE
  BY Zenon DEF AppendNewline
<1>. QED  BY <1>1, <1>2, <1>3

\* FileSound in terms of the set of lines.
LEMMA OwnLines ==
    ASSUME NEW q \in Seq(Seq(Entries))
    PROVE  (\A i \in 1..Len(q) : q[i] = <<>> \/ \E e \in Entries : q[i] = <<e>>)
             <=> ToSet(q) \subseteq {<<>>} \cup {<<e>> : e \in Entries}
BY LenProperties DEF ToSet

\* authorizePublicKey ends the last line first.
LEMMA AuthorizeNewlineKeeps ==
    ASSUME KeysIInv, NEW s \in Sessions, AuthorizeNewline(s)
    PROVE  KeysIInv'
<1>1. /\ startPc' = [startPc EXCEPT ![s] = "appending"]
      /\ startPc[s] = "read" /\ Holds(s, "authorize")
  BY DEF AuthorizeNewline, KeysIInv, LockSound
<1>2. UNCHANGED <<lock, edit, read, pending, keyPc, stopPc, stopWaitsFor>>
  BY DEF AuthorizeNewline
<1>3. /\ lines' \in Seq(Seq(Entries))
      /\ newline' = TRUE
      /\ ToSet(lines') \in {ToSet(lines), ToSet(lines) \cup {<<>>}}
  BY NewlineKeepsLines DEF AuthorizeNewline
<1>4. KeysTypeOK'
  BY <1>1, <1>2, <1>3 DEF KeysIInv, KeysTypeOK
<1>5. LockSound'
  BY <1>1, <1>2, LockType DEF KeysIInv, KeysTypeOK, LockSound, Holds, Edits
<1>6. RemovalSound' /\ StopSound'
  BY <1>1, <1>2 DEF KeysIInv, KeysTypeOK, RemovalSound, StopSound, Deauthorizing
<1>7. \A t \in Sessions : edit[t] \notin {"read", "written"}
  BY <1>1, OneHolder
<1>8. ASSUME AllLocked' PROVE FileSound'
  <2>1. FileSound
    BY <1>2, <1>8 DEF KeysIInv, AllLocked
  <2>2. ToSet(lines') \subseteq {<<>>} \cup {<<e>> : e \in Entries}
    BY <1>3, <2>1, OwnLines DEF KeysIInv, KeysTypeOK, FileSound
  <2>3. \A i \in 1..Len(lines') : lines'[i] = <<>> \/ \E e \in Entries : lines'[i] = <<e>>
    BY <2>2, <1>3, OwnLines
  <2>4. \A t \in Sessions : <<t>> \notin ToSet(lines) => <<t>> \notin ToSet(lines')
    <3>1. \A t \in Sessions : <<t>> # <<>>
      BY OneEntry DEF Entries
    <3>. QED  BY <3>1, <1>3
  <2>. QED  BY <1>1, <1>2, <1>3, <1>7, <2>1, <2>3, <2>4 DEF FileSound
<1>9. LockedEditsKeepOthers'
  BY <1>1, <1>2, <1>3 DEF KeysIInv, KeysTypeOK, AllLocked, LockedEditsKeepOthers, NothingTorn
<1>. QED  BY <1>4, <1>5, <1>6, <1>8, <1>9 DEF KeysIInv

\* The holder leaves the queue; those behind it stay.
LEMMA ReleaseLeaves ==
    ASSUME KeysIInv, NEW s \in Sessions, NEW op \in {"authorize", "deauthorize"},
           Holds(s, op), Release
    PROVE  /\ lock' \in Seq(Edits) /\ IsInjective(lock')
           /\ \A i \in 1..Len(lock') :
                 /\ lock'[i] \in Edits /\ lock'[i] # [who |-> s, op |-> op]
                 /\ \E j \in 1..Len(lock) : lock'[i] = lock[j]
<1>1. lock # <<>> /\ Head(lock) = [who |-> s, op |-> op]
  BY DEF Holds
<1>2. /\ lock' \in Seq(Edits)
      /\ Len(lock') = Len(lock) - 1
      /\ \A i \in 1..Len(lock') : lock'[i] = lock[i + 1] /\ lock'[i] # Head(lock)
      /\ IsInjective(lock')
  BY <1>1, LockType, TailQueue DEF Release
<1>. QED
  <2>. SUFFICES ASSUME NEW i \in 1..Len(lock')
                PROVE  i + 1 \in 1..Len(lock) /\ lock[i + 1] \in Edits
    BY <1>1, <1>2
  <2>. QED  BY <1>2, LockType

\* An authorization that is over has left the lock to the others.
LEMMA AuthorizeReleases ==
    ASSUME KeysIInv, NEW s \in Sessions, Holds(s, "authorize"), Release,
           NEW v \in {"notifying", "failed"},
           startPc' = [startPc EXCEPT ![s] = v], edit' = edit
    PROVE  LockSound'
<1>1. \A i \in 1..Len(lock') :
         /\ lock'[i] \in Edits /\ lock'[i] # [who |-> s, op |-> "authorize"]
         /\ \E j \in 1..Len(lock) : lock'[i] = lock[j]
  BY ReleaseLeaves
<1>2. ASSUME NEW i \in 1..Len(lock')
      PROVE  /\ lock'[i].op = "authorize" =>
                   startPc'[lock'[i].who] \in {"locking", "read", "appending"}
             /\ lock'[i].op = "deauthorize" =>
                   edit'[lock'[i].who] \in {"locking", "read", "written"}
  <2>1. PICK j \in 1..Len(lock) : lock'[i] = lock[j]
    BY <1>1
  <2>2. /\ lock[j] \in Edits /\ lock[j] # [who |-> s, op |-> "authorize"]
        /\ lock[j].op = "authorize" => lock[j].who # s
    BY <1>1, <2>1 DEF Edits
  <2>. QED  BY <2>1, <2>2 DEF KeysIInv, KeysTypeOK, LockSound, Edits
<1>3. \A t \in Sessions : /\ edit[t] \notin {"read", "written"}
                          /\ startPc[t] \in {"read", "appending"} => t = s
  BY OneHolder
<1>4. \A t \in Sessions : /\ edit'[t] \notin {"read", "written"}
                          /\ startPc'[t] \notin {"read", "appending"}
  BY <1>3 DEF KeysIInv, KeysTypeOK
<1>. QED  BY <1>2, <1>4 DEF LockSound

\* So has a deauthorization.
LEMMA DeauthorizeReleases ==
    ASSUME KeysIInv, NEW s \in Sessions, Holds(s, "deauthorize"), Release,
           NEW v \in {"done", "failed", "torn"},
           edit' = [edit EXCEPT ![s] = v], startPc' = startPc
    PROVE  LockSound'
<1>1. \A i \in 1..Len(lock') :
         /\ lock'[i] \in Edits /\ lock'[i] # [who |-> s, op |-> "deauthorize"]
         /\ \E j \in 1..Len(lock) : lock'[i] = lock[j]
  BY ReleaseLeaves
<1>2. ASSUME NEW i \in 1..Len(lock')
      PROVE  /\ lock'[i].op = "authorize" =>
                   startPc'[lock'[i].who] \in {"locking", "read", "appending"}
             /\ lock'[i].op = "deauthorize" =>
                   edit'[lock'[i].who] \in {"locking", "read", "written"}
  <2>1. PICK j \in 1..Len(lock) : lock'[i] = lock[j]
    BY <1>1
  <2>2. /\ lock[j] \in Edits /\ lock[j] # [who |-> s, op |-> "deauthorize"]
        /\ lock[j].op = "deauthorize" => lock[j].who # s
    BY <1>1, <2>1 DEF Edits
  <2>. QED  BY <2>1, <2>2 DEF KeysIInv, KeysTypeOK, LockSound, Edits
<1>3. \A t \in Sessions : /\ startPc[t] \notin {"read", "appending"}
                          /\ edit[t] \in {"read", "written"} => t = s
  BY OneHolder
<1>4. \A t \in Sessions : /\ edit'[t] \notin {"read", "written"}
                          /\ startPc'[t] \notin {"read", "appending"}
  BY <1>3 DEF KeysIInv, KeysTypeOK
<1>. QED  BY <1>2, <1>4 DEF LockSound

\* An entry is appended to the file as a line of its own or to the last line.
LEMMA EntryAppends ==
    ASSUME KeysIInv, NEW e \in Entries
    PROVE  /\ AppendEntry(e) \in Seq(Seq(Entries))
           /\ newline => ToSet(AppendEntry(e)) = ToSet(lines) \cup {<<e>>}
<1>1. lines \in Seq(Seq(Entries)) /\ <<e>> \in Seq(Entries)
  BY DEF KeysIInv, KeysTypeOK
<1>2. /\ Append(lines, <<e>>) \in Seq(Seq(Entries))
      /\ ToSet(Append(lines, <<e>>)) = ToSet(lines) \cup {<<e>>}
  <2>1. \A line \in Seq(Entries) :
           /\ Append(lines, line) \in Seq(Seq(Entries))
           /\ ToSet(Append(lines, line)) = ToSet(lines) \cup {line}
    BY <1>1, AppendLine
  <2>. QED  BY <1>1, <2>1, Zenon
<1>3. CASE newline \/ lines = <<>>
  BY <1>2, <1>3 DEF AppendEntry
<1>4. CASE ~(newline \/ lines = <<>>)
  <2>1. Len(lines) \in 1..Len(lines)
    BY <1>4, <1>1, EmptySeq, LenProperties
  <2>2. lines[Len(lines)] \in Seq(Entries)
    BY <2>1, <1>1, ElementOfSeq
  <2>3. Append(lines[Len(lines)], e) \in Seq(Entries)
    BY <2>2, AppendProperties
  <2>4. AppendEntry(e) = [lines EXCEPT ![Len(lines)] = Append(lines[Len(lines)], e)]
    BY <1>4 DEF AppendEntry
  <2>. QED  BY <2>1, <2>3, <2>4, <1>1, <1>4, ExceptSeq
<1>. QED  BY <1>3, <1>4

\* The key gets a line of its own, and the lock is free.
LEMMA AuthorizeAppendKeeps ==
    ASSUME KeysIInv, NEW s \in Sessions, AuthorizeAppend(s)
    PROVE  KeysIInv'
<1>1. /\ startPc' = [startPc EXCEPT ![s] = "notifying"]
      /\ startPc[s] = "appending" /\ Holds(s, "authorize") /\ Release
      /\ newline' = TRUE /\ lines' = AppendEntry(s)
  BY DEF AuthorizeAppend, KeysIInv, LockSound
<1>2. UNCHANGED <<edit, read, pending, keyPc, stopPc, stopWaitsFor>>
  BY DEF AuthorizeAppend
<1>3. lock' \in Seq(Edits) /\ IsInjective(lock')
  BY <1>1, ReleaseLeaves
<1>4. lines \in Seq(Seq(Entries)) /\ s \in Entries /\ <<s>> \in Seq(Entries)
  BY DEF KeysIInv, KeysTypeOK, Entries
<1>5. newline => ToSet(lines') = ToSet(lines) \cup {<<s>>}
  BY <1>1, <1>4, EntryAppends
<1>6. lines' \in Seq(Seq(Entries))
  BY <1>1, <1>4, EntryAppends
<1>7. KeysTypeOK'
  BY <1>1, <1>2, <1>3, <1>6 DEF KeysIInv, KeysTypeOK, Edits
<1>8. LockSound'
  BY <1>1, <1>2, AuthorizeReleases
<1>9. RemovalSound' /\ StopSound'
  BY <1>1, <1>2 DEF KeysIInv, KeysTypeOK, RemovalSound, StopSound, Deauthorizing
<1>10. \A t \in Sessions : /\ edit[t] \notin {"read", "written"}
                           /\ startPc[t] = "appending" => t = s
  BY <1>1, OneHolder
<1>11. ASSUME AllLocked'
       PROVE  ToSet(lines') = ToSet(lines) \cup {<<s>>} /\ FileSound
  <2>1. FileSound
    BY <1>2, <1>11 DEF KeysIInv, AllLocked
  <2>2. newline
    BY <2>1, <1>1 DEF FileSound
  <2>. QED  BY <2>1, <2>2, <1>5
<1>12. ASSUME AllLocked' PROVE FileSound'
  <2>1. ToSet(lines') \subseteq {<<>>} \cup {<<e>> : e \in Entries}
    BY <1>4, <1>11, <1>12, OwnLines DEF FileSound
  <2>2. \A i \in 1..Len(lines') : lines'[i] = <<>> \/ \E e \in Entries : lines'[i] = <<e>>
    BY <2>1, <1>6, OwnLines
  <2>3. \A t \in Sessions : edit[t] \in {"written", "done"} => t # s
    BY <1>1 DEF KeysIInv, RemovalSound
  <2>4. \A t \in Sessions : t # s => <<t>> # <<s>>
    BY OneEntry DEF Entries
  <2>. QED
    BY <1>1, <1>2, <1>10, <1>11, <1>12, <2>2, <2>3, <2>4 DEF FileSound, KeysIInv, KeysTypeOK
<1>13. ASSUME AllLocked', NothingTorn'
       PROVE  /\ <<UserKey>> \in ToSet(lines')
              /\ \A t \in Sessions :
                    startPc'[t] = "notifying" \/ t \in pending' => <<t>> \in ToSet(lines')
  BY <1>1, <1>2, <1>11, <1>13
     DEF KeysIInv, KeysTypeOK, AllLocked, LockedEditsKeepOthers, NothingTorn
<1>14. LockedEditsKeepOthers'
  BY <1>13 DEF LockedEditsKeepOthers, NothingTorn
<1>. QED  BY <1>7, <1>8, <1>9, <1>12, <1>14 DEF KeysIInv

\* A read or an append that throws frees the lock and leaves the lines that
\* were there.
LEMMA AuthorizeThrowsKeeps ==
    ASSUME KeysIInv, NEW s \in Sessions, AuthorizeThrows(s)
    PROVE  KeysIInv'
<1>1. /\ startPc' = [startPc EXCEPT ![s] = "failed"]
      /\ startPc[s] \in {"locking", "read", "appending"}
      /\ Holds(s, "authorize") /\ Release
  BY DEF AuthorizeThrows
<1>2. UNCHANGED <<edit, read, pending, keyPc, stopPc, stopWaitsFor>>
  BY DEF AuthorizeThrows
<1>3. lock' \in Seq(Edits) /\ IsInjective(lock')
  BY <1>1, ReleaseLeaves
<1>4. /\ lines' \in Seq(Seq(Entries)) /\ newline' \in BOOLEAN
      /\ AllLocked => /\ ToSet(lines) \subseteq ToSet(lines')
                      /\ ToSet(lines') \subseteq ToSet(lines) \cup {<<>>, <<s>>, <<Fragment>>}
  <2>1. CASE UNCHANGED file
    BY <2>1 DEF file, KeysIInv, KeysTypeOK
  <2>2. CASE AppendNewline
    BY <2>2, NewlineKeepsLines
  <2>3. CASE /\ startPc[s] = "appending"
             /\ \E e \in {s, Fragment} : lines' = AppendEntry(e) /\ newline' \in {FALSE, e = s}
    <3>1. PICK e \in {s, Fragment} : lines' = AppendEntry(e) /\ newline' \in {FALSE, e = s}
      BY <2>3
    <3>2. e \in Entries
      BY DEF Entries
    <3>3. AllLocked => newline
      BY <2>3 DEF KeysIInv, FileSound
    <3>4. newline' \in BOOLEAN
      BY <3>1, Zenon
    <3>5. /\ lines' \in Seq(Seq(Entries))
          /\ newline => ToSet(lines') = ToSet(lines) \cup {<<e>>}
      BY <3>1, <3>2, EntryAppends
    <3>. QED  BY <3>3, <3>4, <3>5
  <2>. QED  BY <2>1, <2>2, <2>3 DEF AuthorizeThrows
<1>5. KeysTypeOK'
  BY <1>1, <1>2, <1>3, <1>4 DEF KeysIInv, KeysTypeOK, Edits
<1>6. LockSound'
  BY <1>1, <1>2, AuthorizeReleases
<1>7. RemovalSound' /\ StopSound'
  BY <1>1, <1>2 DEF KeysIInv, KeysTypeOK, RemovalSound, StopSound, Deauthorizing
<1>8. /\ s \notin pending /\ edit[s] = "none"
      /\ \A t \in Sessions : /\ edit[t] \notin {"read", "written"}
                             /\ startPc[t] = "appending" => t = s
  BY <1>1, OneHolder DEF KeysIInv, KeysTypeOK, RemovalSound
<1>9. ASSUME AllLocked' PROVE FileSound'
  <2>1. AllLocked /\ FileSound
    BY <1>2, <1>9 DEF KeysIInv, AllLocked
  <2>2. s \in Entries /\ Fragment \in Entries
    BY DEF Entries
  <2>3. ToSet(lines') \subseteq {<<>>} \cup {<<e>> : e \in Entries}
    BY <1>4, <2>1, <2>2, OwnLines DEF KeysIInv, KeysTypeOK, FileSound
  <2>4. \A i \in 1..Len(lines') : lines'[i] = <<>> \/ \E e \in Entries : lines'[i] = <<e>>
    BY <2>3, <1>4, OwnLines
  <2>5. \A t \in Sessions :
           t # s => <<t>> # <<>> /\ <<t>> # <<s>> /\ <<t>> # <<Fragment>>
    BY OneEntry, AuthorizedKeysAssumption DEF Entries
  <2>6. \A t \in Sessions : edit'[t] \in {"written", "done"} => <<t>> \notin ToSet(lines')
    BY <1>2, <1>4, <1>8, <2>1, <2>5 DEF FileSound
  <2>7. \A t \in Sessions : startPc'[t] # "appending" /\ edit'[t] # "read"
    <3>1. \A t \in Sessions : edit'[t] # "read"
      BY <1>2, <1>8
    <3>2. \A t \in Sessions : t # s => startPc'[t] # "appending"
      BY <1>1, <1>8 DEF KeysIInv, KeysTypeOK
    <3>3. startPc'[s] = "failed"
      BY <1>1 DEF KeysIInv, KeysTypeOK
    <3>. QED  BY <3>1, <3>2, <3>3
  <2>. QED  BY <2>4, <2>6, <2>7 DEF FileSound
<1>10. LockedEditsKeepOthers'
  BY <1>1, <1>2, <1>4, <1>8
     DEF KeysIInv, KeysTypeOK, AllLocked, LockedEditsKeepOthers, NothingTorn
<1>. QED  BY <1>5, <1>6, <1>7, <1>9, <1>10 DEF KeysIInv

\* The client is told, or could not be.
LEMMA NotifyingKeeps ==
    ASSUME KeysIInv, NEW s \in Sessions, Notified(s) \/ NotifyThrows(s)
    PROVE  KeysIInv'
<1>1. /\ startPc[s] = "notifying"
      /\ \/ startPc' = [startPc EXCEPT ![s] = "started"] /\ pending' = pending \cup {s}
         \/ startPc' = [startPc EXCEPT ![s] = "failed"] /\ pending' = pending
  BY DEF Notified, NotifyThrows
<1>2. UNCHANGED <<lines, newline, lock, edit, read, keyPc, stopPc, stopWaitsFor>>
  BY DEF Notified, NotifyThrows, file
<1>3. KeysTypeOK'
  BY <1>1, <1>2 DEF KeysIInv, KeysTypeOK
<1>4. LockSound'
  BY <1>1, <1>2, LockType DEF KeysIInv, KeysTypeOK, LockSound, Holds, Edits
<1>5. edit[s] = "none" /\ s \notin pending
  BY <1>1 DEF KeysIInv, KeysTypeOK, RemovalSound
<1>6. RemovalSound' /\ StopSound'
  <2>1. IsFiniteSet(pending')
    BY <1>1, FS_AddElement DEF KeysIInv, RemovalSound
  <2>. QED
    BY <2>1, <1>1, <1>2, <1>5 DEF KeysIInv, KeysTypeOK, RemovalSound, StopSound, Deauthorizing
<1>7. (AllLocked => FileSound)' /\ LockedEditsKeepOthers'
  BY <1>1, <1>2
     DEF KeysIInv, KeysTypeOK, AllLocked, FileSound, LockedEditsKeepOthers, NothingTorn
<1>. QED  BY <1>3, <1>4, <1>6, <1>7 DEF KeysIInv

\* The timer hands the key over to deauthorizePublicKey.
LEMMA TimerFiresKeeps ==
    ASSUME KeysIInv, NEW s \in Sessions, TimerFires(s)
    PROVE  KeysIInv'
<1>. DEFINE e == [who |-> s, op |-> "deauthorize"]
<1>1. /\ edit' = [edit EXCEPT ![s] = "locking"] /\ pending' = pending \ {s}
      /\ s \in pending /\ edit[s] = "none" /\ startPc[s] = "started"
  BY DEF TimerFires, KeysIInv, RemovalSound
<1>2. e \in Edits /\ \A i \in 1..Len(lock) : lock[i] # e
  BY <1>1, SMT DEF KeysIInv, LockSound, Edits
<1>3. /\ lock' \in Seq(Edits) /\ lock' # <<>> /\ IsInjective(lock')
      /\ Len(lock') = Len(lock) + 1
      /\ \A i \in 1..Len(lock) : lock'[i] = lock[i]
      /\ lock'[Len(lock) + 1] = e
      /\ lock # <<>> => Head(lock') = Head(lock)
  BY <1>2, LockType, AppendQueue DEF TimerFires, Enqueue
<1>4. UNCHANGED <<lines, newline, startPc, read, keyPc, stopPc, stopWaitsFor>>
  BY DEF TimerFires, file
<1>5. KeysTypeOK'
  BY <1>1, <1>3, <1>4 DEF KeysIInv, KeysTypeOK, Edits
<1>6. LockSound'
  <2>1. \A i \in 1..Len(lock') : i \in 1..Len(lock) \/ i = Len(lock) + 1
    BY <1>3, LockType
  <2>2. ASSUME NEW i \in 1..Len(lock')
        PROVE  /\ lock'[i].op = "authorize" =>
                     startPc'[lock'[i].who] \in {"locking", "read", "appending"}
               /\ lock'[i].op = "deauthorize" =>
                     edit'[lock'[i].who] \in {"locking", "read", "written"}
    <3>1. CASE i = Len(lock) + 1
      BY <3>1, <1>1, <1>3 DEF KeysIInv, KeysTypeOK
    <3>2. CASE i \in 1..Len(lock)
      <4>1. lock'[i] = lock[i] /\ lock[i] \in Edits
        BY <3>2, <1>3, LockType
      <4>. QED
        BY <4>1, <3>2, <1>1, <1>4 DEF KeysIInv, KeysTypeOK, LockSound, Edits
    <3>. QED  BY <2>1, <3>1, <3>2
  <2>3. \A t \in Sessions :
           /\ startPc'[t] \in {"read", "appending"} => Holds(t, "authorize")'
           /\ edit'[t] \in {"read", "written"} => Holds(t, "deauthorize")'
    BY <1>1, <1>3, <1>4 DEF KeysIInv, KeysTypeOK, LockSound, Holds
  <2>. QED  BY <2>2, <2>3 DEF LockSound
<1>7. RemovalSound'
  <2>1. IsFiniteSet(pending')
    BY <1>1, FS_Subset DEF KeysIInv, RemovalSound
  <2>. QED  BY <2>1, <1>1, <1>4 DEF KeysIInv, KeysTypeOK, RemovalSound
<1>8. StopSound'
  BY <1>1, <1>4 DEF KeysIInv, KeysTypeOK, StopSound, Deauthorizing
<1>9. (AllLocked => FileSound)' /\ LockedEditsKeepOthers'
  BY <1>1, <1>4
     DEF KeysIInv, KeysTypeOK, AllLocked, FileSound, LockedEditsKeepOthers, NothingTorn
<1>. QED  BY <1>5, <1>6, <1>7, <1>8, <1>9 DEF KeysIInv

\* deauthorizePublicKey reads the file as the holder.
LEMMA DeauthorizeReadKeeps ==
    ASSUME KeysIInv, NEW s \in Sessions, DeauthorizeRead(s)
    PROVE  KeysIInv'
<1>1. /\ edit' = [edit EXCEPT ![s] = "read"] /\ read' = [read EXCEPT ![s] = lines]
      /\ edit[s] = "locking" /\ Holds(s, "deauthorize")
  BY DEF DeauthorizeRead
<1>2. UNCHANGED <<lines, newline, lock, startPc, pending, keyPc, stopPc, stopWaitsFor>>
  BY DEF DeauthorizeRead, file
<1>3. KeysTypeOK'
  BY <1>1, <1>2 DEF KeysIInv, KeysTypeOK
<1>4. LockSound'
  BY <1>1, <1>2, LockType DEF KeysIInv, KeysTypeOK, LockSound, Holds, Edits
<1>5. RemovalSound' /\ StopSound'
  BY <1>1, <1>2 DEF KeysIInv, KeysTypeOK, RemovalSound, StopSound, Deauthorizing
<1>6. (AllLocked => FileSound)' /\ LockedEditsKeepOthers'
  BY <1>1, <1>2
     DEF KeysIInv, KeysTypeOK, AllLocked, FileSound, LockedEditsKeepOthers, NothingTorn
<1>. QED  BY <1>3, <1>4, <1>5, <1>6 DEF KeysIInv

\* What is written back is what was read but the lines of the session.
LEMMA WriteDropsOwn ==
    ASSUME KeysIInv, NEW s \in Sessions, NEW w \in WrittenBack(s)
    PROVE  /\ w \in Seq(Seq(Entries))
           /\ ToSet(w) = {line \in ToSet(read[s]) : ~IsEphemeralOf(line, s)}
<1>. DEFINE kept == {i \in DOMAIN read[s] : ~IsEphemeralOf(read[s][i], s)}
<1>1. read[s] \in Seq(Seq(Entries))
  BY DEF KeysIInv, KeysTypeOK
<1>2. PICK at \in InOrder(kept) : w = [i \in DOMAIN at |-> read[s][at[i]]]
  BY Zenon DEF WrittenBack
<1>3. kept \in SUBSET (1..Len(read[s]))
  BY <1>1, LenProperties
<1>4. /\ w \in Seq(Seq(Entries))
      /\ ToSet(w) = {read[s][i] : i \in kept}
  BY <1>1, <1>2, <1>3, LinesInOrder
<1>. QED  BY <1>4, Zenon DEF ToSet

\* The beginning of a text has no line that the text has not.
LEMMA LinesBefore ==
    ASSUME NEW S, NEW q \in Seq(S), NEW n \in 0..Len(q)
    PROVE  SubSeq(q, 1, n) \in Seq(S) /\ ToSet(SubSeq(q, 1, n)) \subseteq ToSet(q)
<1>1. Len(q) \in Nat /\ \A i \in 1..Len(q) : q[i] \in S
  BY LenProperties, ElementOfSeq
<1>2. /\ SubSeq(q, 1, n) \in Seq(S)
      /\ Len(SubSeq(q, 1, n)) = n
      /\ \A i \in 1..n : SubSeq(q, 1, n)[i] = q[i]
  BY <1>1, SMT
<1>3. DOMAIN SubSeq(q, 1, n) = 1..n /\ DOMAIN q = 1..Len(q)
  BY <1>2, LenProperties
<1>. QED  BY <1>1, <1>2, <1>3 DEF ToSet

\* A write-back that throws leaves lines of what was read, and perhaps a
\* fragment of one.
LEMMA TornKeepsLines ==
    ASSUME KeysIInv, NEW s \in Sessions, Torn(s)
    PROVE  /\ lines' \in Seq(Seq(Entries))
           /\ newline' \in BOOLEAN
           /\ ToSet(lines') \subseteq ToSet(read[s]) \cup {<<Fragment>>}
<1>1. PICK w \in WrittenBack(s) : \E n \in 0..Len(w) :
         \/ lines' = SubSeq(w, 1, n) /\ newline' \in {FALSE, 0 < n /\ n < Len(w)}
         \/ n < Len(w) /\ lines' = Append(SubSeq(w, 1, n), <<Fragment>>) /\ newline' = FALSE
  BY Zenon DEF Torn
<1>2. w \in Seq(Seq(Entries)) /\ ToSet(w) \subseteq ToSet(read[s])
  BY WriteDropsOwn
<1>3. PICK n \in 0..Len(w) :
         \/ lines' = SubSeq(w, 1, n) /\ newline' \in {FALSE, 0 < n /\ n < Len(w)}
         \/ lines' = Append(SubSeq(w, 1, n), <<Fragment>>) /\ newline' = FALSE
  BY <1>1
<1>. DEFINE b == SubSeq(w, 1, n)
<1>4. b \in Seq(Seq(Entries)) /\ ToSet(b) \subseteq ToSet(w)
  BY <1>2, LinesBefore
<1>5. Fragment \in Entries /\ <<Fragment>> \in Seq(Entries)
  BY DEF Entries
<1>. HIDE DEF b
<1>6. /\ Append(b, <<Fragment>>) \in Seq(Seq(Entries))
      /\ ToSet(Append(b, <<Fragment>>)) = ToSet(b) \cup {<<Fragment>>}
  <2>1. \A line \in Seq(Entries) :
           /\ Append(b, line) \in Seq(Seq(Entries))
           /\ ToSet(Append(b, line)) = ToSet(b) \cup {line}
    BY <1>4, AppendLine
  <2>. QED  BY <1>5, <2>1, Zenon
<1>7. lines' \in {b, Append(b, <<Fragment>>)} /\ newline' \in BOOLEAN
  BY <1>3 DEF b
<1>. QED  BY <1>2, <1>4, <1>6, <1>7

\* The write-back drops the session's own line and no other.
LEMMA DeauthorizeWriteKeeps ==
    ASSUME KeysIInv, NEW s \in Sessions, DeauthorizeWrite(s)
    PROVE  KeysIInv'
<1>1. /\ edit' = [edit EXCEPT ![s] = "written"] /\ newline' = FALSE
      /\ edit[s] = "read" /\ Holds(s, "deauthorize")
  BY DEF DeauthorizeWrite, KeysIInv, LockSound
<1>2. UNCHANGED <<lock, startPc, read, pending, keyPc, stopPc, stopWaitsFor>>
  BY DEF DeauthorizeWrite
<1>3. /\ lines' \in Seq(Seq(Entries))
      /\ ToSet(lines') = {line \in ToSet(read[s]) : ~IsEphemeralOf(line, s)}
  BY WriteDropsOwn DEF DeauthorizeWrite
<1>4. KeysTypeOK'
  BY <1>1, <1>2, <1>3 DEF KeysIInv, KeysTypeOK
<1>5. LockSound'
  BY <1>1, <1>2, LockType DEF KeysIInv, KeysTypeOK, LockSound, Holds, Edits
<1>6. RemovalSound' /\ StopSound'
  BY <1>1, <1>2 DEF KeysIInv, KeysTypeOK, RemovalSound, StopSound, Deauthorizing
<1>7. \A t \in Sessions : /\ startPc[t] \notin {"read", "appending"}
                          /\ edit[t] = "read" => t = s
  BY <1>1, OneHolder
<1>8. \A e \in Entries : IsEphemeralOf(<<e>>, s) <=> e = s
  BY OneEntry DEF IsEphemeralOf, Entries
<1>9. ASSUME AllLocked'
      PROVE  /\ FileSound
             /\ ToSet(lines') \subseteq ToSet(lines)
             /\ \A e \in Entries : <<e>> \in ToSet(lines') <=> <<e>> \in ToSet(lines) /\ e # s
  <2>1. FileSound
    BY <1>2, <1>9 DEF KeysIInv, AllLocked
  <2>2. read[s] = lines
    BY <2>1, <1>1 DEF FileSound
  <2>. QED  BY <2>1, <2>2, <1>3, <1>8
<1>10. ASSUME AllLocked' PROVE FileSound'
  <2>1. lines \in Seq(Seq(Entries))
    BY DEF KeysIInv, KeysTypeOK
  <2>2. ToSet(lines') \subseteq {<<>>} \cup {<<e>> : e \in Entries}
    BY <2>1, <1>9, <1>10, OwnLines DEF FileSound
  <2>3. \A i \in 1..Len(lines') : lines'[i] = <<>> \/ \E e \in Entries : lines'[i] = <<e>>
    BY <2>2, <1>3, OwnLines
  <2>4. s \in Entries /\ <<s>> \notin ToSet(lines')
    BY <1>9, <1>10 DEF Entries
  <2>5. \A t \in Sessions : edit'[t] \in {"written", "done"} => <<t>> \notin ToSet(lines')
    BY <2>4, <1>1, <1>9, <1>10 DEF FileSound, KeysIInv, KeysTypeOK
  <2>6. \A t \in Sessions : startPc'[t] # "appending" /\ edit'[t] # "read"
    BY <1>1, <1>2, <1>7 DEF KeysIInv, KeysTypeOK
  <2>. QED  BY <2>3, <2>5, <2>6 DEF FileSound
<1>11. UserKey \in Entries /\ UserKey # s
  BY AuthorizedKeysAssumption DEF Entries
<1>12. startPc[s] # "notifying" /\ s \notin pending
  BY <1>1 DEF KeysIInv, RemovalSound
<1>13. ASSUME AllLocked', NothingTorn'
       PROVE  /\ <<UserKey>> \in ToSet(lines')
              /\ \A t \in Sessions :
                    startPc'[t] = "notifying" \/ t \in pending' => <<t>> \in ToSet(lines')
  <2>1. LockedEditsKeepOthers /\ AllLocked /\ NothingTorn
    BY <1>1, <1>2, <1>13 DEF KeysIInv, KeysTypeOK, AllLocked, NothingTorn
  <2>. QED
    BY <2>1, <1>2, <1>9, <1>11, <1>12, <1>13 DEF LockedEditsKeepOthers, NothingTorn, Entries
<1>14. LockedEditsKeepOthers'
  BY <1>13 DEF LockedEditsKeepOthers, NothingTorn
<1>. QED  BY <1>4, <1>5, <1>6, <1>10, <1>14 DEF KeysIInv

\* The last newline is written and the lock is free.
LEMMA DeauthorizeNewlineKeeps ==
    ASSUME KeysIInv, NEW s \in Sessions, DeauthorizeNewline(s)
    PROVE  KeysIInv'
<1>1. /\ edit' = [edit EXCEPT ![s] = "done"] /\ read' = [read EXCEPT ![s] = <<>>]
      /\ edit[s] = "written" /\ Holds(s, "deauthorize") /\ Release
  BY DEF DeauthorizeNewline, KeysIInv, LockSound
<1>2. UNCHANGED <<startPc, pending, keyPc, stopPc, stopWaitsFor>>
  BY DEF DeauthorizeNewline
<1>3. /\ lines' \in Seq(Seq(Entries))
      /\ newline' = TRUE
      /\ ToSet(lines') \in {ToSet(lines), ToSet(lines) \cup {<<>>}}
  BY NewlineKeepsLines DEF DeauthorizeNewline
<1>4. lock' \in Seq(Edits) /\ IsInjective(lock')
  BY <1>1, ReleaseLeaves
<1>5. KeysTypeOK'
  BY <1>1, <1>2, <1>3, <1>4 DEF KeysIInv, KeysTypeOK, Edits
<1>6. LockSound'
  BY <1>1, <1>2, DeauthorizeReleases
<1>7. RemovalSound' /\ StopSound'
  BY <1>1, <1>2 DEF KeysIInv, KeysTypeOK, RemovalSound, StopSound, Deauthorizing
<1>8. \A t \in Sessions : /\ startPc[t] \notin {"read", "appending"}
                          /\ edit[t] # "read"
  BY <1>1, OneHolder
<1>9. ASSUME AllLocked' PROVE FileSound'
  <2>1. FileSound
    BY <1>2, <1>9 DEF KeysIInv, AllLocked
  <2>2. ToSet(lines') \subseteq {<<>>} \cup {<<e>> : e \in Entries}
    BY <1>3, <2>1, OwnLines DEF KeysIInv, KeysTypeOK, FileSound
  <2>3. \A i \in 1..Len(lines') : lines'[i] = <<>> \/ \E e \in Entries : lines'[i] = <<e>>
    BY <2>2, <1>3, OwnLines
  <2>4. \A t \in Sessions : <<t>> \notin ToSet(lines) => <<t>> \notin ToSet(lines')
    <3>1. \A t \in Sessions : <<t>> # <<>>
      BY OneEntry DEF Entries
    <3>. QED  BY <3>1, <1>3
  <2>5. \A t \in Sessions : edit'[t] \in {"written", "done"} => <<t>> \notin ToSet(lines')
    BY <1>1, <2>1, <2>4 DEF FileSound, KeysIInv, KeysTypeOK
  <2>6. \A t \in Sessions : startPc'[t] # "appending" /\ edit'[t] # "read"
    BY <1>1, <1>2, <1>8 DEF KeysIInv, KeysTypeOK
  <2>. QED  BY <2>3, <2>5, <2>6 DEF FileSound
<1>10. LockedEditsKeepOthers'
  BY <1>1, <1>2, <1>3
     DEF KeysIInv, KeysTypeOK, AllLocked, LockedEditsKeepOthers, NothingTorn
<1>. QED  BY <1>5, <1>6, <1>7, <1>9, <1>10 DEF KeysIInv

\* A deauthorization that throws frees the lock.  If it throws while it writes
\* the file back, the lines it leaves are lines it read, and it is torn.
LEMMA DeauthorizeThrowsKeeps ==
    ASSUME KeysIInv, NEW s \in Sessions, DeauthorizeThrows(s)
    PROVE  KeysIInv'
<1>1. /\ edit[s] \in {"locking", "read", "written"}
      /\ Holds(s, "deauthorize") /\ Release
      /\ read' = [read EXCEPT ![s] = <<>>]
  BY DEF DeauthorizeThrows
<1>2. UNCHANGED <<startPc, pending, keyPc, stopPc, stopWaitsFor>>
  BY DEF DeauthorizeThrows
<1>3. PICK v \in {"failed", "torn"} :
         /\ edit' = [edit EXCEPT ![s] = v]
         /\ v = "failed" => UNCHANGED file \/ AppendNewline
         /\ v = "torn" => edit[s] = "read" /\ Torn(s)
  BY DEF DeauthorizeThrows
<1>4. lock' \in Seq(Edits) /\ IsInjective(lock')
  BY <1>1, ReleaseLeaves
<1>5. /\ lines' \in Seq(Seq(Entries)) /\ newline' \in BOOLEAN
      /\ v = "failed" => ToSet(lines) \subseteq ToSet(lines')
      /\ AllLocked => ToSet(lines') \subseteq ToSet(lines) \cup {<<>>, <<Fragment>>}
  <2>1. CASE UNCHANGED file
    BY <2>1 DEF file, KeysIInv, KeysTypeOK
  <2>2. CASE AppendNewline
    BY <2>2, NewlineKeepsLines
  <2>3. CASE v = "torn"
    <3>1. /\ lines' \in Seq(Seq(Entries))
          /\ newline' \in BOOLEAN
          /\ ToSet(lines') \subseteq ToSet(read[s]) \cup {<<Fragment>>}
      BY <1>3, <2>3, TornKeepsLines
    <3>2. AllLocked => read[s] = lines
      BY <1>3, <2>3 DEF KeysIInv, FileSound
    <3>. QED  BY <2>3, <3>1, <3>2
  <2>. QED  BY <1>3, <2>1, <2>2, <2>3
<1>6. KeysTypeOK'
  BY <1>1, <1>2, <1>3, <1>4, <1>5 DEF KeysIInv, KeysTypeOK, Edits
<1>7. LockSound'
  BY <1>1, <1>2, <1>3, DeauthorizeReleases
<1>8. RemovalSound' /\ StopSound'
  BY <1>1, <1>2, <1>3 DEF KeysIInv, KeysTypeOK, RemovalSound, StopSound, Deauthorizing
<1>9. \A t \in Sessions : /\ startPc[t] \notin {"read", "appending"}
                          /\ edit[t] \in {"read", "written"} => t = s
  BY <1>1, OneHolder
<1>10. ASSUME AllLocked' PROVE FileSound'
  <2>1. AllLocked /\ FileSound
    BY <1>2, <1>10 DEF KeysIInv, AllLocked
  <2>2. Fragment \in Entries
    BY DEF Entries
  <2>3. ToSet(lines') \subseteq {<<>>} \cup {<<e>> : e \in Entries}
    BY <1>5, <2>1, <2>2, OwnLines DEF KeysIInv, KeysTypeOK, FileSound
  <2>4. \A i \in 1..Len(lines') : lines'[i] = <<>> \/ \E e \in Entries : lines'[i] = <<e>>
    BY <2>3, <1>5, OwnLines
  <2>5. \A t \in Sessions : <<t>> # <<>> /\ <<t>> # <<Fragment>>
    BY OneEntry, AuthorizedKeysAssumption DEF Entries
  <2>6. \A t \in Sessions : edit'[t] \in {"written", "done"} => <<t>> \notin ToSet(lines')
    BY <1>3, <1>5, <2>1, <2>5 DEF FileSound, KeysIInv, KeysTypeOK
  <2>7. \A t \in Sessions : startPc'[t] # "appending" /\ edit'[t] # "read"
    BY <1>2, <1>3, <1>9 DEF KeysIInv, KeysTypeOK
  <2>. QED  BY <2>4, <2>6, <2>7 DEF FileSound
<1>11. LockedEditsKeepOthers'
  <2>1. CASE v = "torn"
    BY <1>3, <2>1 DEF KeysIInv, KeysTypeOK, LockedEditsKeepOthers, NothingTorn
  <2>2. CASE v = "failed"
    <3>1. NothingTorn' => NothingTorn
      BY <1>1, <1>3, <2>2 DEF KeysIInv, KeysTypeOK, NothingTorn
    <3>. QED
      BY <1>2, <1>5, <2>2, <3>1 DEF KeysIInv, AllLocked, LockedEditsKeepOthers
  <2>. QED  BY <2>1, <2>2
<1>. QED  BY <1>6, <1>7, <1>8, <1>10, <1>11 DEF KeysIInv

\* The sshpublickey handler edits without the lock, which ends AllLocked.
LEMMA PublicKeyKeeps ==
    ASSUME KeysIInv, NEW p \in PubKeys, HandlingPublicKey(p)
    PROVE  KeysIInv'
<1>1. UNCHANGED <<lock, startPc, edit, read, pending, stopPc, stopWaitsFor>>
  BY DEF HandlingPublicKey, PublicKeyRead, PublicKeyRefused, PublicKeyAppend, PublicKeyThrows
<1>2. LockSound' /\ RemovalSound' /\ StopSound'
  BY <1>1 DEF KeysIInv, LockSound, Holds, RemovalSound, StopSound, Deauthorizing
<1>3. /\ lines' \in Seq(Seq(Entries)) /\ newline' \in BOOLEAN
      /\ keyPc' \in [PubKeys -> {"idle", "read", "done", "refused"}]
      /\ AllLocked' => UNCHANGED <<lines, newline>> /\ AllLocked
  <2>1. CASE PublicKeyRead(p)
    <3>1. PICK v \in {"done", "read"} : keyPc' = [keyPc EXCEPT ![p] = v]
      BY <2>1, Zenon DEF PublicKeyRead
    <3>. QED  BY <2>1, <3>1 DEF PublicKeyRead, KeysIInv, KeysTypeOK, AllLocked, file
  <2>2. CASE PublicKeyRefused(p)
    BY <2>2 DEF PublicKeyRefused, KeysIInv, KeysTypeOK, AllLocked, file
  <2>3. CASE PublicKeyAppend(p)
    <3>1. p \in Entries
      BY DEF Entries
    <3>2. lines' \in Seq(Seq(Entries))
      BY <2>3, <3>1, EntryAppends DEF PublicKeyAppend
    <3>. QED  BY <2>3, <3>2 DEF PublicKeyAppend, KeysIInv, KeysTypeOK, AllLocked
  <2>4. CASE PublicKeyThrows(p)
    <3>1. lines' \in Seq(Seq(Entries)) /\ newline' \in BOOLEAN
      <4>1. CASE UNCHANGED file
        BY <4>1 DEF file, KeysIInv, KeysTypeOK
      <4>2. CASE lines' = AppendEntry(Fragment) /\ newline' = FALSE
        BY <4>2, EntryAppends DEF Entries
      <4>. QED  BY <2>4, <4>1, <4>2 DEF PublicKeyThrows
    <3>. QED  BY <2>4, <3>1 DEF PublicKeyThrows, KeysIInv, KeysTypeOK, AllLocked
  <2>. QED  BY <2>1, <2>2, <2>3, <2>4 DEF HandlingPublicKey
<1>4. KeysTypeOK'
  BY <1>1, <1>3 DEF KeysIInv, KeysTypeOK
<1>5. (AllLocked => FileSound)' /\ LockedEditsKeepOthers'
  BY <1>1, <1>3 DEF KeysIInv, FileSound, LockedEditsKeepOthers, NothingTorn
<1>. QED  BY <1>2, <1>4, <1>5 DEF KeysIInv

\* Edits that are not queued yet may queue up behind the others.
LEMMA QueueBehind ==
    ASSUME KeysIInv, NEW r \in Seq(Edits), IsInjective(r),
           \A i \in 1..Len(lock), j \in 1..Len(r) : lock[i] # r[j]
    PROVE  /\ lock \o r \in Seq(Edits) /\ IsInjective(lock \o r)
           /\ lock # <<>> => lock \o r # <<>> /\ Head(lock \o r) = Head(lock)
           /\ \A i \in 1..Len(lock \o r) :
                 \/ \E j \in 1..Len(lock) : (lock \o r)[i] = lock[j]
                 \/ \E j \in 1..Len(r) : (lock \o r)[i] = r[j]
<1>1. lock \in Seq(Edits) /\ IsInjective(lock)
  BY LockType
<1>2. lock \o r \in Seq(Edits) /\ IsInjective(lock \o r)
  BY <1>1, ConcatQueue
<1>3. lock # <<>> => lock \o r # <<>> /\ Head(lock \o r) = Head(lock)
  BY <1>1, ConcatQueue
<1>4. Len(lock \o r) = Len(lock) + Len(r)
  BY <1>1, ConcatQueue
<1>5. \A i \in 1..(Len(lock) + Len(r)) :
         \/ \E j \in 1..Len(lock) : (lock \o r)[i] = lock[j]
         \/ \E j \in 1..Len(r) : (lock \o r)[i] = r[j]
  BY <1>1, ConcatQueue
<1>. QED  BY <1>2, <1>3, <1>4, <1>5

\* stop() queues all that is pending.
LEMMA StopDeauthorizesKeeps ==
    ASSUME KeysIInv, StopDeauthorizes
    PROVE  KeysIInv'
<1>1. /\ edit' = [s \in Sessions |-> IF s \in pending THEN "locking" ELSE edit[s]]
      /\ pending' = {} /\ stopPc' = "waiting"
      /\ stopWaitsFor' = Deauthorizing \cup pending
  BY DEF StopDeauthorizes
<1>2. UNCHANGED <<lines, newline, startPc, read, keyPc>>
  BY DEF StopDeauthorizes, file
<1>3. \A s \in pending : s \in Sessions /\ edit[s] = "none" /\ startPc[s] = "started"
  BY DEF KeysIInv, KeysTypeOK, RemovalSound
<1>. DEFINE n == Cardinality(pending)
<1>4. PICK order \in Bijection(1..n, pending) :
         lock' = lock \o [i \in 1..n |-> [who |-> order[i], op |-> "deauthorize"]]
  BY Zenon DEF StopDeauthorizes
<1>. DEFINE r == [i \in 1..n |-> [who |-> order[i], op |-> "deauthorize"]]
<1>5. /\ order \in [1..n -> pending] /\ \A i, j \in 1..n : order[i] = order[j] => i = j
  BY DEF Bijection, Injection, IsInjective
<1>6. ASSUME n \in Nat
      PROVE  /\ lock' \in Seq(Edits) /\ IsInjective(lock')
             /\ lock # <<>> => lock' # <<>> /\ Head(lock') = Head(lock)
             /\ \A i \in 1..Len(lock') :
                   \/ \E j \in 1..Len(lock) : lock'[i] = lock[j]
                   \/ \E s \in pending : lock'[i] = [who |-> s, op |-> "deauthorize"]
  <2>1. r \in [1..n -> Edits]
    BY <1>3, <1>5 DEF Edits
  <2>2. r \in Seq(Edits) /\ Len(r) = n /\ DOMAIN r = 1..n
    <3>1. r \in Seq(Edits)
      <4>. HIDE DEF n, r
      <4>. QED  BY <1>6, <2>1, SeqDef
    <3>2. DOMAIN r = 1..n
      OBVIOUS
    <3>. HIDE DEF n, r
    <3>3. DOMAIN r = 1..Len(r) /\ Len(r) \in Nat
      BY <3>1, LenProperties
    <3>. QED  BY <1>6, <3>1, <3>2, <3>3
  <2>3. IsInjective(r)
    BY <1>5, <2>2 DEF IsInjective
  <2>4. \A i \in 1..Len(lock), j \in 1..Len(r) : lock[i] # r[j]
    <3>. SUFFICES ASSUME NEW i \in 1..Len(lock), NEW j \in 1..n, lock[i] = r[j]
                  PROVE  FALSE
      BY <2>2
    <3>1. order[j] \in pending /\ r[j].who = order[j] /\ r[j].op = "deauthorize"
      BY <1>5
    <3>. QED  BY <3>1, <1>3 DEF KeysIInv, LockSound
  <2>5. /\ lock \o r \in Seq(Edits) /\ IsInjective(lock \o r)
        /\ lock # <<>> => lock \o r # <<>> /\ Head(lock \o r) = Head(lock)
        /\ \A i \in 1..Len(lock \o r) :
              \/ \E j \in 1..Len(lock) : (lock \o r)[i] = lock[j]
              \/ \E j \in 1..Len(r) : (lock \o r)[i] = r[j]
    <3>. HIDE DEF n, r
    <3>. QED  BY <2>2, <2>3, <2>4, QueueBehind
  <2>6. \A j \in 1..Len(r) : \E s \in pending : r[j] = [who |-> s, op |-> "deauthorize"]
    BY <1>5, <2>2
  <2>7. lock' = lock \o r
    BY <1>4
  <2>. HIDE DEF r
  <2>. QED  BY <2>5, <2>6, <2>7
<1>7. n \in Nat
  BY FS_CardinalityType DEF KeysIInv, RemovalSound
<1>8. KeysTypeOK'
  BY <1>1, <1>2, <1>6, <1>7 DEF KeysIInv, KeysTypeOK, Edits, Deauthorizing
<1>9. LockSound'
  <2>1. ASSUME NEW i \in 1..Len(lock')
        PROVE  /\ lock'[i].op = "authorize" =>
                     startPc'[lock'[i].who] \in {"locking", "read", "appending"}
               /\ lock'[i].op = "deauthorize" =>
                     edit'[lock'[i].who] \in {"locking", "read", "written"}
    <3>1. CASE \E j \in 1..Len(lock) : lock'[i] = lock[j]
      <4>1. PICK j \in 1..Len(lock) : lock'[i] = lock[j]
        BY <3>1
      <4>2. lock[j] \in Edits
        BY LockType
      <4>. QED  BY <4>1, <4>2, <1>1, <1>2, <1>3 DEF KeysIInv, LockSound, Edits
    <3>2. CASE \E s \in pending : lock'[i] = [who |-> s, op |-> "deauthorize"]
      BY <3>2, <1>1, <1>3
    <3>. QED  BY <3>1, <3>2, <1>6, <1>7
  <2>2. \A t \in Sessions :
           /\ startPc'[t] \in {"read", "appending"} => Holds(t, "authorize")'
           /\ edit'[t] \in {"read", "written"} => Holds(t, "deauthorize")'
    BY <1>1, <1>2, <1>6, <1>7 DEF KeysIInv, KeysTypeOK, LockSound, Holds
  <2>. QED  BY <2>1, <2>2 DEF LockSound
<1>10. RemovalSound'
  BY <1>1, FS_EmptySet, <1>2, <1>3 DEF KeysIInv, KeysTypeOK, RemovalSound
<1>11. StopSound'
  BY <1>1, <1>2, <1>3 DEF KeysIInv, KeysTypeOK, StopSound, Deauthorizing
<1>12. (AllLocked => FileSound)' /\ LockedEditsKeepOthers'
  BY <1>1, <1>2, <1>3
     DEF KeysIInv, KeysTypeOK, AllLocked, FileSound, LockedEditsKeepOthers, NothingTorn
<1>. QED  BY <1>8, <1>9, <1>10, <1>11, <1>12 DEF KeysIInv

\* stop()'s other steps touch neither file nor lock.
LEMMA StopKeeps ==
    ASSUME KeysIInv, StopBegins \/ StopReturns
    PROVE  KeysIInv'
<1>1. UNCHANGED <<lines, newline, lock, startPc, edit, read, pending, keyPc, stopWaitsFor>>
  BY DEF StopBegins, StopReturns, file
<1>2. KeysTypeOK' /\ StopSound'
  BY <1>1 DEF KeysIInv, KeysTypeOK, StopSound, StopBegins, StopReturns, Deauthorizing
<1>3. LockSound' /\ RemovalSound'
  BY <1>1 DEF KeysIInv, LockSound, Holds, RemovalSound
<1>4. (AllLocked => FileSound)' /\ LockedEditsKeepOthers'
  BY <1>1 DEF KeysIInv, AllLocked, FileSound, LockedEditsKeepOthers, NothingTorn
<1>. QED  BY <1>2, <1>3, <1>4 DEF KeysIInv

\* Every step keeps the invariant.
LEMMA KeysNextInvariant == KeysIInv /\ [KeysNext]_keysVars => KeysIInv'
<1>. SUFFICES ASSUME KeysIInv, [KeysNext]_keysVars PROVE KeysIInv'
  OBVIOUS
<1>1. ASSUME NEW s \in Sessions, Starting(s) PROVE KeysIInv'
  BY <1>1, StartDirectSshKeeps, AuthorizeReadKeeps, AuthorizeNewlineKeeps,
     AuthorizeAppendKeeps, AuthorizeThrowsKeeps, NotifyingKeeps DEF Starting
<1>2. ASSUME NEW s \in Sessions, Removing(s) PROVE KeysIInv'
  BY <1>2, TimerFiresKeeps, DeauthorizeReadKeeps, DeauthorizeWriteKeeps,
     DeauthorizeNewlineKeeps, DeauthorizeThrowsKeeps DEF Removing
<1>3. CASE Stopping
  BY <1>3, StopDeauthorizesKeeps, StopKeeps DEF Stopping
<1>4. CASE UNCHANGED keysVars
  <2>1. UNCHANGED <<lines, newline, lock, startPc, edit, read, pending, keyPc, stopPc,
                    stopWaitsFor>>
    BY <1>4 DEF keysVars
  <2>2. KeysTypeOK' /\ LockSound' /\ RemovalSound' /\ StopSound'
    BY <2>1 DEF KeysIInv, KeysTypeOK, LockSound, Holds, RemovalSound, StopSound, Deauthorizing
  <2>3. (AllLocked => FileSound)' /\ LockedEditsKeepOthers'
    BY <2>1 DEF KeysIInv, AllLocked, FileSound, LockedEditsKeepOthers, NothingTorn
  <2>. QED  BY <2>2, <2>3 DEF KeysIInv
<1>. QED  BY <1>1, <1>2, <1>3, <1>4, PublicKeyKeeps DEF KeysNext

-----------------------------------------------------------------------------
(* The theorems *)

\* Every behaviour keeps the lock's queue in order, and the file and the
\* removals with it.
THEOREM KeysInvariant == KeysSpec => []KeysIInv
BY KeysInitInvariant, KeysNextInvariant, PTL DEF KeysSpec

\* The edits of authorized_keys that take the lock never lose or damage
\* anyone else's line, however many sessions start and end and whichever reads
\* and appends throw, unless deauthorizePublicKey throws while it writes the
\* file back.
THEOREM LockedEditsAlwaysKeepOthers == KeysSpec => []LockedEditsKeepOthers
<1>1. KeysIInv => LockedEditsKeepOthers
  BY DEF KeysIInv
<1>. QED  BY <1>1, KeysInvariant, PTL

\* When stop() returns, no key is left that awaited its removal, or was being
\* removed, when stop() looked, unless its removal threw.
THEOREM StopAlwaysLeavesNoPendingKey == KeysSpec => []StopLeavesNoPendingKey
<1>1. KeysIInv => StopLeavesNoPendingKey
  <2>. SUFFICES ASSUME KeysIInv, AllLocked, stopPc = "stopped",
                       NEW s \in stopWaitsFor, InFile(s), edit[s] \notin {"failed", "torn"}
                PROVE  FALSE
    BY DEF StopLeavesNoPendingKey
  <2>1. s \in Sessions /\ edit[s] = "done"
    BY DEF KeysIInv, KeysTypeOK, StopSound, Deauthorizing
  <2>2. <<s>> \notin ToSet(lines) /\ lines \in Seq(Seq(Entries))
    BY <2>1 DEF KeysIInv, KeysTypeOK, FileSound
  <2>3. PICK i \in 1..Len(lines) : s \in ToSet(lines[i])
    BY DEF InFile
  <2>4. lines[i] = <<>> \/ \E e \in Entries : lines[i] = <<e>>
    BY DEF KeysIInv, FileSound
  <2>5. lines[i] # <<>>
    BY <2>3 DEF ToSet
  <2>6. PICK e \in Entries : lines[i] = <<e>>
    BY <2>4, <2>5
  <2>7. s = e
    BY <2>3, <2>6, OneEntry
  <2>8. <<s>> \in ToSet(lines)
    BY <2>2, <2>6, <2>7, LenProperties DEF ToSet
  <2>. QED  BY <2>2, <2>8
<1>. QED  BY <1>1, KeysInvariant, PTL
=============================================================================
