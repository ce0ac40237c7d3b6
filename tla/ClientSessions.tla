--------------------------- MODULE ClientSessions ---------------------------
(***************************************************************************)
(* The life of a session request (npt_request or a direct ssh_request) in  *)
(* the instances of one sshnpd daemon, and the watch each instance keeps   *)
(* over the sessions it started: the handler of                            *)
(* noports_core/lib/src/sshnpd/sshnpd_impl.dart from                       *)
(* tryAcquireSessionMutex to the tracking of the started tunnel, and       *)
(* checkClientKeys, which ends the sessions of clients whose signing key   *)
(* has been withdrawn.                                                     *)
(*                                                                         *)
(* Every instance gets every notification.  The handlers interleave at     *)
(* their awaits: with each other, with the re-checks and with the atServer *)
(* that holds the keys.  Requests may share a session id, since the client *)
(* chooses it.                                                             *)
(***************************************************************************)
EXTENDS Integers, FiniteSets

CONSTANTS
    Instances,          \* daemons running under one atSign and device name
    Requests,           \* session requests that passed authCheck
    SessionIds,
    SessionOf,          \* request -> the session id it carries
    Keys,               \* _apsk records
    NoKey,
    KeyOf,              \* request -> the record it says it is signed with, or NoKey
    NoRequest,
    NoInstance

ASSUME ClientSessionsAssumption ==
    /\ SessionOf \in [Requests -> SessionIds]
    /\ KeyOf \in [Requests -> Keys \cup {NoKey}]
    /\ NoKey \notin Keys
    /\ NoRequest \notin Requests
    /\ NoInstance \notin Instances

VARIABLES
    requireEnrollmentSignature,  \* a setting of the daemon
    lease,           \* session id -> the instance that holds its mutex
    pc,              \* instance, request -> where the handler has got to
    signingKey,      \* instance, request -> the key that was verified, or NoKey
    tunnel,          \* instance, request -> its srv process or connector
    told,            \* instance, request -> whether end() was called
    clientSessions,  \* instance, session id -> the request being watched
    ending,          \* instance -> session ids marked as ending
    checking,        \* instance, key -> where its re-check has got to
    keyStatus        \* key -> published, missing or withdrawn

handlers == <<pc, signingKey>>
watch == <<clientSessions, ending>>
settings == requireEnrollmentSignature
vars == <<settings, lease, handlers, tunnel, told, watch, checking, keyStatus>>

TypeOK ==
    /\ requireEnrollmentSignature \in BOOLEAN
    /\ lease \in [SessionIds -> Instances \cup {NoInstance}]
    /\ pc \in [Instances -> [Requests ->
          {"idle", "locking", "handling", "verifying", "starting", "notifying",
           "ignored", "refused", "connected", "failed"}]]
    /\ signingKey \in [Instances -> [Requests -> Keys \cup {NoKey}]]
    /\ tunnel \in [Instances -> [Requests -> {"none", "running", "ended"}]]
    /\ told \in [Instances -> [Requests -> BOOLEAN]]
    /\ clientSessions \in [Instances -> [SessionIds -> Requests \cup {NoRequest}]]
    /\ ending \in [Instances -> SUBSET SessionIds]
    /\ \A i \in Instances :
          ending[i] \subseteq {x \in SessionIds : clientSessions[i][x] # NoRequest}
    /\ checking \in [Instances -> [Keys -> {"no", "lookup", "withdrawnTo"}]]
    /\ keyStatus \in [Keys -> {"published", "missing", "withdrawn"}]

Init ==
    /\ requireEnrollmentSignature \in BOOLEAN
    /\ lease = [x \in SessionIds |-> NoInstance]
    /\ pc = [i \in Instances |-> [r \in Requests |-> "idle"]]
    /\ signingKey = [i \in Instances |-> [r \in Requests |-> NoKey]]
    /\ tunnel = [i \in Instances |-> [r \in Requests |-> "none"]]
    /\ told = [i \in Instances |-> [r \in Requests |-> FALSE]]
    /\ clientSessions = [i \in Instances |-> [x \in SessionIds |-> NoRequest]]
    /\ ending = [i \in Instances |-> {}]
    /\ checking = [i \in Instances |-> [k \in Keys |-> "no"]]
    /\ keyStatus = [k \in Keys |-> "published"]

GoTo(i, r, label) == pc' = [pc EXCEPT ![i][r] = label]

-----------------------------------------------------------------------------
(* The session mutex, a record on the daemon's own atServer *)

Receive(i, r) ==
    /\ pc[i][r] = "idle"
    /\ GoTo(i, r, "locking")
    /\ UNCHANGED <<settings, lease, signingKey, tunnel, told, watch, checking, keyStatus>>

AcquireMutex(i, r) ==
    /\ pc[i][r] = "locking"
    /\ lease[SessionOf[r]] = NoInstance
    /\ lease' = [lease EXCEPT ![SessionOf[r]] = i]
    /\ GoTo(i, r, "handling")
    /\ UNCHANGED <<settings, signingKey, tunnel, told,
                   watch, checking, keyStatus>>

\* A null lease: another instance handles the request.
MutexTaken(i, r) ==
    /\ pc[i][r] = "locking"
    /\ lease[SessionOf[r]] # NoInstance
    /\ GoTo(i, r, "ignored")
    /\ UNCHANGED <<settings, lease, signingKey, tunnel, told, watch, checking, keyStatus>>

\* Asking throws, before or after the atServer granted the lease: carry on
\* without it.
MutexThrows(i, r) ==
    /\ pc[i][r] = "locking"
    /\ \/ lease[SessionOf[r]] = NoInstance /\ lease' = [lease EXCEPT ![SessionOf[r]] = i]
       \/ UNCHANGED lease
    /\ GoTo(i, r, "handling")
    /\ UNCHANGED <<settings, signingKey, tunnel, told, watch,
                   checking, keyStatus>>

\* sessionMutexTtl passes.
LeaseExpires(x) ==
    /\ lease[x] # NoInstance
    /\ lease' = [lease EXCEPT ![x] = NoInstance]
    /\ UNCHANGED <<settings, handlers, tunnel, told, watch, checking, keyStatus>>

-----------------------------------------------------------------------------
(* _clientSigningKey *)

\* _clientSessions.containsKey, before the await of the verification.
CheckNotLive(i, r) ==
    /\ pc[i][r] = "handling"
    /\ GoTo(i, r, IF clientSessions[i][SessionOf[r]] = NoRequest
                  THEN "verifying" ELSE "refused")
    /\ UNCHANGED <<settings, lease, signingKey, tunnel, told, watch, checking, keyStatus>>

\* The record was found and the signature verifies.
SignatureVerified(i, r) ==
    /\ pc[i][r] = "verifying"
    /\ KeyOf[r] # NoKey
    /\ keyStatus[KeyOf[r]] = "published"
    /\ signingKey' = [signingKey EXCEPT ![i][r] = KeyOf[r]]
    /\ GoTo(i, r, "starting")
    /\ UNCHANGED <<settings, lease, tunnel, told, watch, checking, keyStatus>>

\* Mutant: a lookup that fails counts as unsigned, required or not.
UncheckedIsUnsigned(i, r) ==
    /\ pc[i][r] = "verifying"
    /\ GoTo(i, r, "starting")
    /\ UNCHANGED <<settings, lease, signingKey, tunnel, told, watch, checking, keyStatus>>

\* The request is unsigned, its record is not there, or it cannot be looked
\* up: refused if a signature is required, and otherwise unwatched.
SignatureNotChecked(i, r) ==
    /\ pc[i][r] = "verifying"
    /\ GoTo(i, r, IF requireEnrollmentSignature THEN "refused" ELSE "starting")
    /\ UNCHANGED <<settings, lease, signingKey, tunnel, told, watch, checking, keyStatus>>

\* Any of the refusals: the atSign-wide signature under strict, an enrollment
\* signature that does not verify, the daemon's or the policy's permitOpen.
Refuse(i, r) ==
    /\ pc[i][r] \in {"handling", "verifying", "starting"}
    /\ GoTo(i, r, "refused")
    /\ UNCHANGED <<settings, lease, signingKey, tunnel, told, watch, checking, keyStatus>>

-----------------------------------------------------------------------------
(* startNpt and startDirectSsh *)

\* Mutant: the check before the await is relied upon; tracking overwrites.
TrackBlindly(i, r) ==
    LET x == SessionOf[r]
    IN  /\ pc[i][r] = "starting"
        /\ tunnel' = [tunnel EXCEPT ![i][r] = "running"]
        /\ clientSessions' = IF signingKey[i][r] # NoKey
                             THEN [clientSessions EXCEPT ![i][x] = r]
                             ELSE clientSessions
        /\ GoTo(i, r, "notifying")
        /\ UNCHANGED <<settings, lease, signingKey, told, ending, checking, keyStatus>>

\* The await of srv.run() is over and the tunnel is tracked, in one turn of
\* the event loop (trackClientSession).
StartTunnel(i, r) ==
    LET x == SessionOf[r]
        watched == signingKey[i][r] # NoKey
        taken == clientSessions[i][x] # NoRequest
    IN  /\ pc[i][r] = "starting"
        /\ tunnel' = [tunnel EXCEPT ![i][r] = "running"]
        /\ clientSessions' = IF watched /\ ~taken
                             THEN [clientSessions EXCEPT ![i][x] = r]
                             ELSE clientSessions
        /\ told' = [told EXCEPT ![i][r] = watched /\ taken]
        /\ GoTo(i, r, "notifying")
        /\ UNCHANGED <<settings, lease, signingKey, ending, checking, keyStatus>>

\* srv.run(), or what comes before it, throws: the client is told.
StartFails(i, r) ==
    /\ pc[i][r] = "starting"
    /\ GoTo(i, r, "failed")
    /\ UNCHANGED <<settings, lease, signingKey, tunnel, told, watch, checking, keyStatus>>

\* The client is told, that the session is connected or (if signing or
\* sending that throws) that it failed.
Notify(i, r) ==
    /\ pc[i][r] = "notifying"
    /\ \E answer \in {"connected", "failed"} : GoTo(i, r, answer)
    /\ UNCHANGED <<settings, lease, signingKey, tunnel, told, watch, checking, keyStatus>>

\* Mutant: the end of a tunnel is not noticed.
EndUnnoticed(i, r) ==
    /\ tunnel[i][r] = "running"
    /\ tunnel' = [tunnel EXCEPT ![i][r] = "ended"]
    /\ UNCHANGED <<settings, lease, handlers, told, watch, checking, keyStatus>>

\* Mutant: the ending mark outlives the session.
EndKeepsMark(i, r) ==
    LET x == SessionOf[r]
    IN  /\ tunnel[i][r] = "running"
        /\ tunnel' = [tunnel EXCEPT ![i][r] = "ended"]
        /\ clientSessions' = IF clientSessions[i][x] = r
                             THEN [clientSessions EXCEPT ![i][x] = NoRequest]
                             ELSE clientSessions
        /\ UNCHANGED <<settings, lease, handlers, told, ending, checking, keyStatus>>

\* A tunnel ends, by itself or because it was told to; the whenComplete of
\* the one that is watched forgets it.
TunnelEnds(i, r) ==
    LET x == SessionOf[r]
    IN  /\ tunnel[i][r] = "running"
        /\ tunnel' = [tunnel EXCEPT ![i][r] = "ended"]
        /\ IF clientSessions[i][x] = r
           THEN /\ clientSessions' = [clientSessions EXCEPT ![i][x] = NoRequest]
                /\ ending' = [ending EXCEPT ![i] = @ \ {x}]
           ELSE UNCHANGED watch
        /\ UNCHANGED <<settings, lease, handlers, told, checking, keyStatus>>

-----------------------------------------------------------------------------
(* checkClientKeys, every clientKeyCheckInterval *)

\* The sessions watched under key k that are not ending yet.
LiveUnder(i, k) ==
    {x \in SessionIds \ ending[i] :
        clientSessions[i][x] # NoRequest /\ signingKey[i][clientSessions[i][x]] = k}

\* A key whose last re-check has not finished is left out.
CheckClientKeys(i) ==
    /\ checking' = [checking EXCEPT ![i] = [k \in Keys |->
                      IF LiveUnder(i, k) # {} /\ checking[i][k] = "no"
                      THEN "lookup" ELSE checking[i][k]]]
    /\ UNCHANGED <<settings, lease, handlers, tunnel, told, watch, keyStatus>>

CheckGoesTo(i, k, label) == checking' = [checking EXCEPT ![i][k] = label]

\* _whereWithdrawn: the record itself ...
LookupDirect(i, k) ==
    /\ checking[i][k] = "lookup"
    /\ CheckGoesTo(i, k, IF keyStatus[k] = "published" THEN "no" ELSE "withdrawnTo")
    /\ UNCHANGED <<settings, lease, handlers, tunnel, told, watch, keyStatus>>

\* ... and then, if it is not there, where it has been moved.
NotWithdrawn(i, k) ==
    /\ checking[i][k] = "withdrawnTo"
    /\ keyStatus[k] # "withdrawn"
    /\ CheckGoesTo(i, k, "no")
    /\ UNCHANGED <<settings, lease, handlers, tunnel, told, watch, keyStatus>>

\* Mutant: a record that is missing counts as withdrawn.
MissingIsWithdrawn(i, k) ==
    LET gone == LiveUnder(i, k)
    IN  /\ checking[i][k] = "withdrawnTo"
        /\ keyStatus[k] # "published"
        /\ ending' = [ending EXCEPT ![i] = @ \cup gone]
        /\ told' = [told EXCEPT ![i] = [r \in Requests |->
                      told[i][r] \/ \E x \in gone : clientSessions[i][x] = r]]
        /\ CheckGoesTo(i, k, "no")
        /\ UNCHANGED <<settings, lease, handlers, tunnel, clientSessions, keyStatus>>

\* Mutant: the sessions are marked before those not yet marked are ended.
MarkThenSelect(i, k) ==
    /\ checking[i][k] = "withdrawnTo"
    /\ keyStatus[k] = "withdrawn"
    /\ ending' = [ending EXCEPT ![i] = @ \cup LiveUnder(i, k)]
    /\ CheckGoesTo(i, k, "no")
    /\ UNCHANGED <<settings, lease, handlers, tunnel, told, clientSessions, keyStatus>>

\* _recheck ends every session that is watched under the key by now.
Withdrawn(i, k) ==
    LET gone == LiveUnder(i, k)
    IN  /\ checking[i][k] = "withdrawnTo"
        /\ keyStatus[k] = "withdrawn"
        /\ ending' = [ending EXCEPT ![i] = @ \cup gone]
        /\ told' = [told EXCEPT ![i] = [r \in Requests |->
                      told[i][r] \/ \E x \in gone : clientSessions[i][x] = r]]
        /\ CheckGoesTo(i, k, "no")
        /\ UNCHANGED <<settings, lease, handlers, tunnel, clientSessions, keyStatus>>

\* Either lookup fails: the sessions carry on.
LookupFails(i, k) ==
    /\ checking[i][k] # "no"
    /\ CheckGoesTo(i, k, "no")
    /\ UNCHANGED <<settings, lease, handlers, tunnel, told, watch, keyStatus>>

\* The client's atServer: a record may be missing for a while; one that was
\* withdrawn stays so.
KeyChanges(k) ==
    /\ keyStatus[k] # "withdrawn"
    /\ \E status \in {"published", "missing", "withdrawn"} \ {keyStatus[k]} :
          keyStatus' = [keyStatus EXCEPT ![k] = status]
    /\ UNCHANGED <<settings, lease, handlers, tunnel, told, watch, checking>>

-----------------------------------------------------------------------------
Handle(i, r) ==
    \/ Receive(i, r)
    \/ AcquireMutex(i, r)
    \/ MutexTaken(i, r)
    \/ MutexThrows(i, r)
    \/ CheckNotLive(i, r)
    \/ SignatureVerified(i, r)
    \/ SignatureNotChecked(i, r)
    \/ Refuse(i, r)
    \/ StartTunnel(i, r)
    \/ StartFails(i, r)
    \/ Notify(i, r)

Recheck(i, k) ==
    LookupDirect(i, k) \/ NotWithdrawn(i, k) \/ Withdrawn(i, k) \/ LookupFails(i, k)

Next ==
    \/ \E i \in Instances :
          \/ \E r \in Requests : Handle(i, r) \/ TunnelEnds(i, r)
          \/ \E k \in Keys : Recheck(i, k)
          \/ CheckClientKeys(i)
    \/ \E x \in SessionIds : LeaseExpires(x)
    \/ \E k \in Keys : KeyChanges(k)

Spec == Init /\ [][Next]_vars

\* Handlers go on; the timer of checkClientKeys keeps firing, a lookup ends,
\* and one that could succeed does not fail for ever; a tunnel that was told
\* to end does.
Fairness ==
    \A i \in Instances :
        /\ WF_vars(CheckClientKeys(i))
        /\ \A r \in Requests :
              /\ WF_vars(Handle(i, r) /\ pc[i][r] # "idle")
              /\ WF_vars(TunnelEnds(i, r) /\ told[i][r])
        /\ \A k \in Keys :
              /\ WF_vars(Recheck(i, k))
              /\ SF_vars(LookupDirect(i, k))
              /\ SF_vars(Withdrawn(i, k))

FairSpec == Spec /\ Fairness

-----------------------------------------------------------------------------
(* Properties *)

Running(i, r) == tunnel[i][r] = "running"

\* No tunnel of a client that signed its request escapes the watch: while it
\* runs, it is the one watched under its session id or it was told to end,
\* even when two requests with one session id pass the check of
\* _clientSigningKey before either is tracked.
SignedTunnelIsWatched ==
    \A i \in Instances, r \in Requests :
        Running(i, r) /\ signingKey[i][r] # NoKey =>
            told[i][r] \/ clientSessions[i][SessionOf[r]] = r

\* A daemon that requires enrollment signatures runs no tunnel unwatched.
RequiredMeansWatched ==
    requireEnrollmentSignature =>
        \A i \in Instances, r \in Requests :
            Running(i, r) => told[i][r] \/ clientSessions[i][SessionOf[r]] = r

\* What is watched is a tunnel that runs: no entry stays behind to make the
\* daemon refuse a session id for ever.
WatchedTunnelRuns ==
    \A i \in Instances, x \in SessionIds :
        LET r == clientSessions[i][x]
        IN  r # NoRequest => Running(i, r) /\ SessionOf[r] = x /\ signingKey[i][r] # NoKey

\* The re-check ends the session of a watched tunnel only when its key was
\* withdrawn: not when the record is missing and not when a lookup failed.
EndedOnlyIfWithdrawn ==
    \A i \in Instances, x \in SessionIds :
        LET r == clientSessions[i][x]
        IN  r # NoRequest /\ told[i][r] => keyStatus[signingKey[i][r]] = "withdrawn"

\* A session whose client's key has been withdrawn ends, also when that
\* happens between the verification and the tracking, and however many
\* lookups fail before one succeeds.
WithdrawnSessionEnds ==
    \A i \in Instances, r \in Requests :
        Running(i, r) /\ signingKey[i][r] # NoKey
          /\ keyStatus[signingKey[i][r]] = "withdrawn"
        ~> tunnel[i][r] = "ended"
=============================================================================
