----------------------------- MODULE AuthCheck -----------------------------
(***************************************************************************)
(* How an sshnpd daemon decides whether the atSign behind a notification   *)
(* may use it: authCheck and the _NPAAuthChecker it asks, in               *)
(* noports_core/lib/src/sshnpd/sshnpd_impl.dart.                           *)
(*                                                                         *)
(* Every notification is handled by an asynchronous call of its own (a     *)
(* caller here).  Callers about one client share a check: the first sends  *)
(* an RPC to the policy service and caches its request id; the others wait *)
(* on the same completer.  A timer forgets the check CacheTtl after it was *)
(* made, whatever became of it, and a caller gives up after AuthTimeout.   *)
(* Giving up abandons the caller's call of mayConnect but does not end it: *)
(* it goes on with its await of sendRequest, and what it returns or throws *)
(* later is heard by nobody.                                               *)
(* Requests and responses travel as atProtocol notifications: they may be  *)
(* lost, delivered again, or arrive after either timer.                    *)
(*                                                                         *)
(* In ticks of five seconds the code's 10 s and 15 s are 2 and 3; what is  *)
(* used of them is that a caller gives up before its check is forgotten.   *)
(***************************************************************************)
EXTENDS Integers

CONSTANTS
    Clients,         \* the atSigns notifications come from
    NoClient,        \* not an atSign
    Managers,        \* managerAtsigns: those approved without a check
    Callers,         \* notifications, each handled once
    AuthTimeout,     \* authTimeoutSeconds, in ticks
    CacheTtl,        \* how long a check is kept, in ticks
    DocumentedTtl,   \* how long the comment says a check is kept, in ticks
    MaxReq           \* bound on the RPCs the daemon sends

ASSUME AuthCheckAssumption ==
    /\ NoClient \notin Clients
    /\ Managers \subseteq Clients
    /\ AuthTimeout \in Nat \ {0}
    /\ CacheTtl \in Nat
    /\ AuthTimeout < CacheTtl
    /\ DocumentedTtl \in Nat
    /\ CacheTtl <= DocumentedTtl
    /\ MaxReq \in Nat

NoReq == 0
Subjects == Clients \ Managers    \* those the policy service is asked about
ReqIds == 1..MaxReq
Verdicts == {"permit", "deny"}
\* ack, success with authorized true or false, and any other response type
ResponseTypes == {"ack", "permit", "deny", "error"}

VARIABLES
    authCheckCache,  \* client -> the id of its cached check, or NoReq
    completerMap,    \* ids of the checks whose completer can be found
    completer,       \* id -> what the completer has been completed with
    age,             \* id -> ticks since the check was made
    clientOf,        \* id -> the client a check is about
    nextReq,         \* the next request id
    callerPc,        \* caller -> where its authCheck has got to
    call,            \* caller -> where its call of mayConnect has got to
    from,            \* caller -> the atSign its notification came from
    req,             \* caller -> the check its call is about, or NoReq
    waited,          \* caller -> ticks it has waited since it asked
    requests,        \* RPCs sent to the policy service
    response,        \* id -> the response sent last, or none
    policy,          \* client -> whether the policy service permits it now
    authChecker,     \* whether the daemon has a policy manager, and so a checker
    granted,         \* checks the policy service has answered with a permit
    revokedFor,      \* client -> ticks since permission was withdrawn
    sinceSent        \* client -> ticks since the last check of it was sent

checks == <<authCheckCache, completerMap, completer, age, clientOf, nextReq>>
callers == <<callerPc, call, from, req, waited>>
service == <<authChecker, requests, response, policy, granted>>
clocks == <<revokedFor, sinceSent>>
authVars == <<checks, callers, service, clocks>>

AuthTypeOK ==
    /\ authCheckCache \in [Clients -> ReqIds \cup {NoReq}]
    /\ completerMap \in SUBSET ReqIds
    /\ completer \in [ReqIds -> Verdicts \cup {"pending"}]
    /\ age \in [ReqIds -> 0..CacheTtl]
    /\ clientOf \in [ReqIds -> Clients \cup {NoClient}]
    /\ nextReq \in 1..(MaxReq + 1)
    /\ callerPc \in [Callers -> Verdicts \cup {"idle", "waiting", "dropped"}]
    /\ call \in [Callers -> {"none", "sending", "awaiting", "done"}]
    /\ from \in [Callers -> Clients]
    /\ req \in [Callers -> ReqIds \cup {NoReq}]
    /\ waited \in [Callers -> 0..AuthTimeout]
    /\ requests \in SUBSET ReqIds
    /\ response \in [ReqIds -> ResponseTypes \cup {"none"}]
    /\ policy \in [Subjects -> BOOLEAN]
    /\ granted \in SUBSET ReqIds
    /\ authChecker \in BOOLEAN
    /\ revokedFor \in [Subjects -> 0..(CacheTtl + 1)]
    /\ sinceSent \in [Clients -> 0..DocumentedTtl]

AuthInit ==
    /\ authCheckCache = [c \in Clients |-> NoReq]
    /\ completerMap = {}
    /\ completer = [r \in ReqIds |-> "pending"]
    /\ age = [r \in ReqIds |-> 0]
    /\ clientOf = [r \in ReqIds |-> NoClient]
    /\ nextReq = 1
    /\ callerPc = [k \in Callers |-> "idle"]
    /\ call = [k \in Callers |-> "none"]
    /\ from \in [Callers -> Clients]
    /\ req = [k \in Callers |-> NoReq]
    /\ waited = [k \in Callers |-> 0]
    /\ requests = {}
    /\ response = [r \in ReqIds |-> "none"]
    /\ policy \in [Subjects -> BOOLEAN]
    /\ granted = {}
    /\ authChecker \in BOOLEAN
    /\ revokedFor = [c \in Subjects |-> IF policy[c] THEN 0 ELSE CacheTtl + 1]
    /\ sinceSent = [c \in Clients |-> DocumentedTtl]

-----------------------------------------------------------------------------
(* authCheck: the answers that need no policy service *)

IsManager(k) == from[k] \in Managers

AuthCheckManager(k) ==
    /\ callerPc[k] = "idle"
    /\ IsManager(k)
    /\ callerPc' = [callerPc EXCEPT ![k] = "permit"]
    /\ UNCHANGED <<checks, call, from, req, waited, service, clocks>>

AuthCheckNotManager(k) ==
    /\ callerPc[k] = "idle"
    /\ ~IsManager(k)
    /\ ~authChecker
    /\ callerPc' = [callerPc EXCEPT ![k] = "deny"]
    /\ UNCHANGED <<checks, call, from, req, waited, service, clocks>>

AsksPolicy(k) == callerPc[k] = "idle" /\ ~IsManager(k) /\ authChecker

-----------------------------------------------------------------------------
(* mayConnect *)

\* What completerMap[r]!.future gives to who awaits it: the error of the null
\* check, nothing yet, or the verdict, in the same turn of the event loop.
Await(r) ==
    IF r \notin completerMap THEN "dropped"
    ELSE IF completer[r] = "pending" THEN "waiting"
    ELSE completer[r]

\* The call of mayConnect of k goes on to await r, or ends.
CallAwaits(k, r) ==
    call' = [call EXCEPT ![k] = IF Await(r) = "waiting" THEN "awaiting" ELSE "done"]

\* A caller joins the check that is cached for its client.
MayConnectCached(k) ==
    LET r == authCheckCache[from[k]]
    IN  /\ AsksPolicy(k)
        /\ r # NoReq
        /\ callerPc' = [callerPc EXCEPT ![k] = Await(r)]
        /\ CallAwaits(k, r)
        /\ req' = [req EXCEPT ![k] = r]
        /\ waited' = [waited EXCEPT ![k] = 0]
        /\ UNCHANGED <<checks, from, service, clocks>>

\* A caller makes a check of its own, up to the await of sendRequest.  The
\* request leaves at some moment of that await; it may reach the policy
\* service, and be answered, before sendRequest returns.
MayConnectNew(k) ==
    LET c == from[k]
        r == nextReq
    IN  /\ AsksPolicy(k)
        /\ authCheckCache[c] = NoReq
        /\ r \in ReqIds
        /\ nextReq' = r + 1
        /\ completerMap' = completerMap \cup {r}
        /\ authCheckCache' = [authCheckCache EXCEPT ![c] = r]
        /\ clientOf' = [clientOf EXCEPT ![r] = c]
        /\ callerPc' = [callerPc EXCEPT ![k] = "waiting"]
        /\ call' = [call EXCEPT ![k] = "sending"]
        /\ req' = [req EXCEPT ![k] = r]
        /\ waited' = [waited EXCEPT ![k] = 0]
        /\ requests' = requests \cup {r}
        /\ sinceSent' = [sinceSent EXCEPT ![c] = 0]
        /\ UNCHANGED <<completer, age, from, authChecker, response, policy, granted,
                       revokedFor>>

\* sendRequest returns, at some time, and mayConnect goes on to
\* completerMap[reqId]!, which concerns the caller only if it still waits.
SendRequestReturns(k) ==
    /\ call[k] = "sending"
    /\ CallAwaits(k, req[k])
    /\ callerPc' = IF callerPc[k] = "waiting" THEN [callerPc EXCEPT ![k] = Await(req[k])]
                                             ELSE callerPc
    /\ UNCHANGED <<checks, from, req, waited, service, clocks>>

\* sendRequest throws: the notification's handler, if it still waits, ends
\* without an answer.  The check stays cached, and nobody will complete it.
SendRequestThrows(k) ==
    /\ call[k] = "sending"
    /\ call' = [call EXCEPT ![k] = "done"]
    /\ callerPc' = IF callerPc[k] = "waiting" THEN [callerPc EXCEPT ![k] = "dropped"]
                                             ELSE callerPc
    /\ UNCHANGED <<checks, from, req, waited, service, clocks>>

\* .timeout(authTimeoutSeconds): the caller stops waiting, its call does not.
AuthCheckTimesOut(k) ==
    /\ callerPc[k] = "waiting"
    /\ waited[k] = AuthTimeout
    /\ callerPc' = [callerPc EXCEPT ![k] = "deny"]
    /\ UNCHANGED <<checks, call, from, req, waited, service, clocks>>

\* Mutant: a check is kept no longer than a caller waits.
ForgetAtTimeout(r) ==
    /\ r \in completerMap
    /\ age[r] = AuthTimeout
    /\ completerMap' = completerMap \ {r}
    /\ authCheckCache' = [authCheckCache EXCEPT ![clientOf[r]] = NoReq]
    /\ UNCHANGED <<completer, age, clientOf, nextReq, callers, service, clocks>>

\* The Future.delayed of mayConnect.
ForgetCheck(r) ==
    /\ r \in completerMap
    /\ age[r] = CacheTtl
    /\ completerMap' = completerMap \ {r}
    /\ authCheckCache' = [authCheckCache EXCEPT ![clientOf[r]] = NoReq]
    /\ UNCHANGED <<completer, age, clientOf, nextReq, callers, service, clocks>>

-----------------------------------------------------------------------------
(* handleResponse *)

\* Those a response to r can still complete.
Completable(r) == r \in completerMap /\ completer[r] = "pending"

Awaits(k, r) == call[k] = "awaiting" /\ req[k] = r

\* The completer of r is completed with v, and the calls that await it go on
\* before the next event, each to the caller behind it if that still waits.
CompleteWith(r, v) ==
    /\ completer' = [completer EXCEPT ![r] = v]
    /\ call' = [k \in Callers |-> IF Awaits(k, r) THEN "done" ELSE call[k]]
    /\ callerPc' = [k \in Callers |->
                      IF Awaits(k, r) /\ callerPc[k] = "waiting" THEN v ELSE callerPc[k]]
    /\ UNCHANGED <<authCheckCache, completerMap, age, clientOf, nextReq,
                   from, req, waited, service, clocks>>

\* Mutant: an acknowledgement is taken for a success.
AckIsSuccess(r) ==
    /\ response[r] # "none"
    /\ Completable(r)
    /\ CompleteWith(r, IF response[r] \in {"ack", "permit"} THEN "permit" ELSE "deny")

\* Mutant: responses to forgotten checks are not ignored.
LateResponseCounts(r) ==
    /\ response[r] \notin {"none", "ack"}
    /\ completer[r] = "pending"
    /\ CompleteWith(r, IF response[r] = "permit" THEN "permit" ELSE "deny")

\* A success carries the service's verdict; any other type but ack is a deny.
HandleResponse(r) ==
    /\ response[r] \notin {"none", "ack"}
    /\ Completable(r)
    /\ CompleteWith(r, IF response[r] = "permit" THEN "permit" ELSE "deny")

-----------------------------------------------------------------------------
(* The policy service and the notifications between it and the daemon.  The *)
(* service acknowledges a request and then answers it; it may fail to, and  *)
(* it may answer again.  A message that was sent may be delivered now,      *)
(* later, again or never; a delivery that changes nothing is a stuttering   *)
(* step.  Only the first answer delivered for a request has an effect, so   *)
(* the last one sent stands for all that are on their way.                  *)

PolicyAnswers(r) ==
    /\ r \in requests
    /\ \E type \in {"ack", "error", IF policy[clientOf[r]] THEN "permit" ELSE "deny"} :
          /\ response' = [response EXCEPT ![r] = type]
          /\ granted' = IF type = "permit" THEN granted \cup {r} ELSE granted
    /\ UNCHANGED <<checks, callers, authChecker, requests, policy, clocks>>

PolicyChanges(c) ==
    /\ policy' = [policy EXCEPT ![c] = ~policy[c]]
    /\ revokedFor' = [revokedFor EXCEPT ![c] = 0]
    /\ UNCHANGED <<checks, callers, authChecker, requests, response, granted, sinceSent>>

-----------------------------------------------------------------------------
(* Time passes only when no timer is due. *)

TimerDue ==
    \/ \E r \in completerMap : age[r] = CacheTtl
    \/ \E k \in Callers : callerPc[k] = "waiting" /\ waited[k] = AuthTimeout

UpTo(bound, n) == IF n < bound THEN n + 1 ELSE bound

Tick ==
    /\ ~TimerDue
    /\ age' = [r \in ReqIds |->
                 IF r \in completerMap THEN age[r] + 1 ELSE age[r]]
    /\ waited' = [k \in Callers |->
                    IF callerPc[k] = "waiting" THEN waited[k] + 1 ELSE waited[k]]
    /\ revokedFor' = [c \in Subjects |->
                        IF policy[c] THEN 0 ELSE UpTo(CacheTtl + 1, revokedFor[c])]
    /\ sinceSent' = [c \in Clients |-> UpTo(DocumentedTtl, sinceSent[c])]
    /\ UNCHANGED <<authCheckCache, completerMap, completer, clientOf, nextReq,
                   callerPc, call, from, req, service>>

AuthNext ==
    \/ \E k \in Callers :
          \/ AuthCheckManager(k)
          \/ AuthCheckNotManager(k)
          \/ MayConnectCached(k)
          \/ MayConnectNew(k)
          \/ SendRequestReturns(k)
          \/ SendRequestThrows(k)
          \/ AuthCheckTimesOut(k)
    \/ \E r \in ReqIds : ForgetCheck(r) \/ PolicyAnswers(r) \/ HandleResponse(r)
    \/ \E c \in Subjects : PolicyChanges(c)
    \/ Tick

AuthSpec == AuthInit /\ [][AuthNext]_authVars

\* Timers fire and the clock goes on; nothing is assumed of the messages, of
\* sendRequest or of the policy service.
AuthFairness ==
    /\ WF_authVars(Tick)
    /\ \A k \in Callers : WF_authVars(AuthCheckTimesOut(k))
    /\ \A r \in ReqIds : WF_authVars(ForgetCheck(r))

FairAuthSpec == AuthSpec /\ AuthFairness

-----------------------------------------------------------------------------
(* Properties *)

\* Neither of mayConnect's unchecked dereferences, completerMap[...]!, costs a
\* waiting caller its answer: a cached check can be found, and so can the one
\* whose sendRequest has yet to return, as long as its caller has not given up.
\* Once it has, the dereference may fail, and nobody hears of it.
CompleterIsThere ==
    /\ \A c \in Clients : authCheckCache[c] # NoReq => authCheckCache[c] \in completerMap
    /\ \A k \in Callers :
          callerPc[k] = "waiting" /\ call[k] = "sending" => req[k] \in completerMap

\* authCheck approves a client that is no manager only on a grant that the
\* policy service gave for that client: no mix-up of the shared completers,
\* no grant out of a timeout, an error, an ack or a late response.
PermitOnlyIfGranted ==
    \A k \in Callers :
        callerPc[k] = "permit" /\ ~IsManager(k) =>
            req[k] \in granted /\ clientOf[req[k]] = from[k]

\* After the policy service withdraws a client's permission, checks made
\* before go on letting it in for no longer than a check is kept.
StaleGrantIsBounded ==
    [][\A k \in Callers :
          callerPc[k] # "permit" /\ callerPc'[k] = "permit" /\ ~IsManager(k) =>
              policy[from[k]] \/ revokedFor[from[k]] <= CacheTtl]_authVars

ChecksAtLeastApart(ttl) ==
    \A c \in Clients : authCheckCache'[c] \notin {NoReq, authCheckCache[c]} =>
        sinceSent[c] >= ttl

\* The policy service is not asked about the same client again within
\* CacheTtl, however many notifications arrive and whatever gets lost.
OneCheckPerTtl == [][ChecksAtLeastApart(CacheTtl)]_authVars

\* The comment on mayConnect: checks are cached for 30 seconds.
OneCheckPerDocumentedTtl == [][ChecksAtLeastApart(DocumentedTtl)]_authVars

\* Every notification whose handler asked is answered or dropped, and every
\* check is forgotten, even if the request never reaches the service.
EveryCallerDecided ==
    \A k \in Callers :
        callerPc[k] = "waiting" ~> callerPc[k] \in Verdicts \cup {"dropped"}

ClientCanBeCheckedAgain ==
    \A c \in Clients : authCheckCache[c] # NoReq ~> authCheckCache[c] = NoReq
=============================================================================
