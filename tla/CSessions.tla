----------------------------- MODULE CSessions ------------------------------
(***************************************************************************)
(* The child processes of the C sshnpd: the srv of each session, the        *)
(* workers that look keys up, and the main loop that starts, signals and    *)
(* reaps them (client_sessions.c, run_srv_process.c, the request handlers,  *)
(* client_signing_key.c and public_lookup.c).  The daemon is one thread; the *)
(* processes, the clock and the atServers that hold the keys move on their  *)
(* own.  Pids are part of the state because the kernel hands a reaped one   *)
(* to the next process.                                                     *)
(***************************************************************************)
EXTENDS CRequests

CONSTANTS Pid,          \* pids a child can get; with none free, fork fails
          Request,      \* the requests clients send, each once
          Key,          \* client signing keys
          OwnerOf,      \* OwnerOf[k]: the atSign key k belongs to
          Advert,       \* Advert[k]: what the record of k holds
          Flaky,        \* keys whose atServer may fail to answer, or never do
          Policy,       \* Policy[a]: what the policy service said of atSign a
          RequireEnrollmentSignature,
          Interval,     \* --client-key-check-secs, in ticks; 0 is off
          StartTimeout, \* SRV_START_TIMEOUT_MS, in ticks
          Overrun,      \* KEY_CHECK_OVERRUN_SECS, in ticks
          MaxChecks, MaxChecksPerAtSign,
          Moves,        \* which changes of place happen: key, from, to
          MaxMoves      \* how many of them (bound)

NoKey == ""

ASSUME LimitAssumption ==
    /\ {StartTimeout, Overrun, MaxChecks, MaxChecksPerAtSign} \subseteq Nat \ {0}
    /\ {Interval, MaxMoves} \subseteq Nat
    /\ Pid \subseteq Nat \ {0} /\ IsFiniteSet(Pid)

(* The cap is no less than the 30 seconds of a request that names no timeout. *)
ASSUME TimeoutAssumption == MaxTimeoutSecs \in Nat /\ MaxTimeoutSecs >= 30

(* Key are the keys that requests can name. *)
ASSUME KeyAssumption ==
    /\ Flaky \subseteq Key /\ NoKey \notin Key
    /\ Request \subseteq AnyRequest
    /\ \A q \in Request : BeforeLookup(q) = "lookup" => q.enroll.key \in Key

(* An enrollment is revoked, reinstated, deleted, or its key just expires. *)
ASSUME MoveAssumption ==
    \A m \in Moves : m[1] \in Key /\ <<m[2], m[3]>> \in
           {<<"a", "r">>, <<"r", "a">>, <<"a", "d">>, <<"r", "d">>, <<"a", "gone">>}

VARIABLES
    pc,         \* where main_loop is
    hand,       \* the request being handled: request, verified key, its srv
    todo,       \* requests still to arrive
    proc,       \* proc[p]: the child with pid p
    sessions,   \* sessions[] of client_sessions.c
    checks,     \* checks[]: key, pid and age of each running key check
    starts,     \* starts[] of run_srv_process.c: pid and age
    turn,       \* the session whose key client_sessions_tick is at
    nextDue,    \* ticks until next_due, or Unset
    where,      \* where[k]: the atServer's name for the record of k
    moves,      \* changes of where so far
    withdrawn,  \* keys that were withdrawn at some time
    stray       \* a signal went to a process it was not meant for

child == <<proc, sessions, checks, starts, turn, nextDue>>
world == <<where, moves, withdrawn>>
vars == <<pc, hand, todo, proc, sessions, checks, starts, turn, nextDue, where, moves,
          withdrawn, stray>>

Unset == Interval + 1
Empty == [req |-> {}, key |-> NoKey, pid |-> 0]

(* kind and own say what the process is for; at is how far it got: a srv is *)
(* starting, or ready (or has no pipe to say so on); a key check has the    *)
(* GETs of the three names ahead of it, then its exit status.  A dead       *)
(* process is one nobody has reaped.                                        *)
NoProc == [kind |-> "free", own |-> <<>>, st |-> "", at |-> ""]
Srv(id, k, at) == [kind |-> "srv", own |-> <<id, k>>, st |-> "run", at |-> at]
Worker(kind, k) == [kind |-> kind, own |-> <<k>>, st |-> "run", at |-> "a"]

FreePids(pr) == {p \in Pid : pr[p].kind = "free"}
(* The lowest free pid: a pid is reused as soon as it can be. *)
NextPid(pr) == CHOOSE p \in FreePids(pr) : \A r \in FreePids(pr) : p <= r

Outcome == {"published", "unknown", "missing", "revoked", "deleted"}

MaybeKey == Key \cup {NoKey}
Own == {<<>>} \cup (STRING \X MaybeKey) \cup {<<k>> : k \in Key}
Process == [kind : {"free", "srv", "check", "lookup"}, own : Own,
            st : {"", "run", "term", "dead"},
            at : {"", "starting", "ready", "a", "r", "d", "d?"} \cup Outcome]
Session == [id : STRING, key : Key, pid : Pid, ending : BOOLEAN, due : BOOLEAN]

TypeOK ==
    /\ pc \in {"reap", "tick", "recheck", "read", "lookup", "forked"}
    /\ hand \in [req : SUBSET Request, key : MaybeKey, pid : Pid \cup {0}]
    /\ todo \subseteq Request
    /\ proc \in [Pid -> Process]
    /\ sessions \in Seq(Session) /\ turn \in Nat \ {0}
    /\ checks \subseteq [key : Key, pid : Pid, age : 0 .. Overrun + 1]
    /\ starts \subseteq [pid : Pid, age : 0 .. StartTimeout]
    /\ nextDue \in 0 .. Unset
    /\ where \in [Key -> {"a", "r", "d", "gone"}]
    /\ moves \in 0 .. MaxMoves /\ withdrawn \subseteq Key /\ stray \in BOOLEAN

Init ==
    /\ pc = "reap"
    /\ hand = Empty
    /\ todo = Request
    /\ proc = [p \in Pid |-> NoProc]
    /\ sessions = <<>> /\ checks = {} /\ starts = {}
    /\ turn = 1 /\ nextDue = Unset
    /\ where = [k \in Key |-> "a"] /\ moves = 0 /\ withdrawn = {}
    /\ stray = FALSE

-----------------------------------------------------------------------------
(* Signals                                                                 *)

(* kill of pid p, meant for the process own: it ends a running process and   *)
(* does nothing to one that waits to be reaped.                             *)
Killed(pr, p) == IF pr[p].st = "run" THEN [pr EXCEPT ![p].st = "term", ![p].at = ""] ELSE pr
Strays(pr, p, own) == pr[p].own # own

-----------------------------------------------------------------------------
(* reap_children                                                           *)

(* remove_session: the last one takes the place of the one that went. *)
RemoveSession(ss, i) == SubSeq([ss EXCEPT ![i] = ss[Len(ss)]], 1, Len(ss) - 1)

(* Mutant: a key that is merely missing ends sessions too. *)
EndsSessionsIfMissing(outcome) == outcome \in {"revoked", "deleted", "missing"}

(* Mutant: only a revoked key ends sessions, not a deleted one. *)
EndsSessionsIfRevoked(outcome) == outcome = "revoked"

(* key_check_finished: what the exit status has to be to end sessions. *)
EndsSessions(outcome) == outcome \in {"revoked", "deleted"}

(* Mutant: a srv that ended stays in the list of sessions. *)
ReapKeepingSession(p) ==
    /\ proc[p].st = "dead"
    /\ starts' = {s \in starts : s.pid # p}
    /\ LET check == {c \in checks : c.pid = p}
           ends  == {i \in DOMAIN sessions :
                        /\ check # {} /\ EndsSessions(proc[p].at)
                        /\ ~sessions[i].ending /\ sessions[i].key = proc[p].own[1]}
       IN  /\ proc' = [r \in Pid |-> IF r = p THEN NoProc
                                     ELSE IF \E i \in ends : sessions[i].pid = r
                                          THEN Killed(proc, r)[r] ELSE proc[r]]
           /\ sessions' = [i \in DOMAIN sessions |->
                              IF i \in ends THEN [sessions[i] EXCEPT !.ending = TRUE]
                              ELSE sessions[i]]
           /\ stray' = (stray \/ \E i \in ends :
                          Strays(proc, sessions[i].pid, <<sessions[i].id, sessions[i].key>>))
           /\ checks' = checks \ check
    /\ UNCHANGED <<turn, nextDue>>

(* Mutant: the finished check keeps its slot. *)
ReapKeepingCheck(p) ==
    /\ proc[p].st = "dead"
    /\ starts' = {s \in starts : s.pid # p}
    /\ LET mine == {i \in DOMAIN sessions : sessions[i].pid = p}
       IN  sessions' = IF mine = {} THEN sessions
                       ELSE RemoveSession(sessions, CHOOSE i \in mine : TRUE)
    /\ proc' = [proc EXCEPT ![p] = NoProc]
    /\ UNCHANGED <<checks, stray, turn, nextDue>>

(* One child that exited: its pid is free, its start is forgotten, and it    *)
(* was either the srv of a session, whose entry goes, or a key check, which *)
(* ends every session of a withdrawn key.                                    *)
ReapOne(p) ==
    /\ proc[p].st = "dead"
    /\ starts' = {s \in starts : s.pid # p}
    /\ LET mine  == {i \in DOMAIN sessions : sessions[i].pid = p}
           check == IF mine = {} THEN {c \in checks : c.pid = p} ELSE {}
           ends  == {i \in DOMAIN sessions :
                        /\ check # {} /\ EndsSessions(proc[p].at)
                        /\ ~sessions[i].ending /\ sessions[i].key = proc[p].own[1]}
       IN  /\ proc' = [r \in Pid |-> IF r = p THEN NoProc
                                     ELSE IF \E i \in ends : sessions[i].pid = r
                                          THEN Killed(proc, r)[r] ELSE proc[r]]
           /\ sessions' = IF mine # {} THEN RemoveSession(sessions, CHOOSE i \in mine : TRUE)
                          ELSE [i \in DOMAIN sessions |->
                                  IF i \in ends THEN [sessions[i] EXCEPT !.ending = TRUE]
                                  ELSE sessions[i]]
           /\ stray' = (stray \/ \E i \in ends :
                          Strays(proc, sessions[i].pid, <<sessions[i].id, sessions[i].key>>))
           /\ checks' = checks \ check
    /\ UNCHANGED <<turn, nextDue>>

ReapChild(p) ==
    /\ pc = "reap"
    /\ ReapOne(p)
    /\ UNCHANGED <<pc, hand, todo, world>>

-----------------------------------------------------------------------------
(* srv_starts_poll                                                         *)

(* start_settled: srv reported, or its end of the pipe closed. *)
StartSettled(p) == proc[p].at = "ready" \/ proc[p].st = "dead"

(* Starts still open whose time is up. *)
LateStarts == {s \in starts : ~StartSettled(s.pid) /\ s.age >= StartTimeout}

(* Nothing is left to reap.  The starts are polled: those that settled are   *)
(* forgotten, those that are late are stopped and forgotten.                *)
SrvStartsPoll ==
    /\ pc = "reap" /\ \A p \in Pid : proc[p].st # "dead"
    /\ proc' = [p \in Pid |-> IF \E s \in LateStarts : s.pid = p THEN Killed(proc, p)[p]
                              ELSE proc[p]]
    /\ stray' = (stray \/ \E s \in LateStarts : proc[s.pid].kind # "srv")
    /\ starts' = {s \in starts : ~StartSettled(s.pid)} \ LateStarts
    /\ pc' = "tick"
    /\ UNCHANGED <<hand, todo, sessions, checks, turn, nextDue, world>>

-----------------------------------------------------------------------------
(* client_sessions_tick                                                    *)

IsBeingChecked(k) == \E c \in checks : c.key = k
ChecksOfAtSign(cs, k) == Cardinality({c \in cs : OwnerOf[c.key] = OwnerOf[k]})
ClearDue(k) == [i \in DOMAIN sessions |->
                   IF sessions[i].key = k THEN [sessions[i] EXCEPT !.due = FALSE]
                   ELSE sessions[i]]

(* Kill the checks that overran, mark every session due once per interval,   *)
(* and turn to the checks.                                                   *)
ClientSessionsTick ==
    /\ pc = "tick"
    /\ IF Interval = 0 THEN pc' = "read" /\ UNCHANGED <<proc, sessions, nextDue, stray>>
       ELSE LET late == {c \in checks : c.age > Overrun}
                due  == nextDue = 0
            IN  /\ pc' = IF sessions = <<>> THEN "read" ELSE "recheck"
                /\ proc' = [p \in Pid |-> IF \E c \in late : c.pid = p
                                          THEN Killed(proc, p)[p] ELSE proc[p]]
                /\ stray' = (stray \/ \E c \in late : Strays(proc, c.pid, <<c.key>>))
                /\ nextDue' = IF due \/ nextDue = Unset THEN Interval ELSE nextDue
                /\ sessions' = [i \in DOMAIN sessions |->
                                   IF due THEN [sessions[i] EXCEPT !.due = TRUE] ELSE sessions[i]]
    /\ UNCHANGED <<hand, todo, checks, starts, turn, world>>

(* The body of the loop for session i.  A key whose check still runs sits    *)
(* this round out; a check that cannot be started is given up until the      *)
(* next round.                                                               *)
Consider(i) ==
    LET k    == sessions[i].key
        skip == \/ Cardinality(checks) >= MaxChecks
                \/ ~sessions[i].due \/ sessions[i].ending
                \/ ~IsBeingChecked(k) /\ ChecksOfAtSign(checks, k) >= MaxChecksPerAtSign
    IN  IF skip THEN UNCHANGED <<proc, sessions, checks>>
        ELSE /\ sessions' = ClearDue(k)
             /\ IF IsBeingChecked(k) \/ FreePids(proc) = {} THEN UNCHANGED <<proc, checks>>
                ELSE /\ checks' = checks \cup {[key |-> k, pid |-> NextPid(proc), age |-> 0]}
                     /\ proc' = [proc EXCEPT ![NextPid(proc)] = Worker("check", k)]

StartKeyCheck ==
    /\ pc = "recheck"
    /\ Consider(turn)
    /\ IF turn < Len(sessions) THEN turn' = turn + 1 /\ UNCHANGED pc
       ELSE turn' = 1 /\ pc' = "read"
    /\ UNCHANGED <<hand, todo, starts, nextDue, world, stray>>

-----------------------------------------------------------------------------
(* Requests                                                                *)

IsWatched(id) == \E i \in DOMAIN sessions : sessions[i].id = id

ReadNothing ==
    /\ pc = "read"
    /\ pc' = "reap"
    /\ UNCHANGED <<hand, todo, child, world, stray>>

Done(pr) == pc' = "reap" /\ hand' = Empty /\ proc' = pr

(* The end of start_*_session's first half: the request is dropped, or srv   *)
(* is forked, with or without the pipe it reports on.                       *)
StartSession(q, k, pr, piped) ==
    IF MayStart(q, Policy[q.from]) /\ FreePids(pr) # {}
    THEN /\ pc' = "forked"
         /\ hand' = [req |-> {q}, key |-> k, pid |-> NextPid(pr)]
         /\ proc' = [pr EXCEPT ![NextPid(pr)] =
                        Srv(q.id, k, IF piped THEN "starting" ELSE "ready")]
    ELSE Done(pr)

(* check_client_signing_key's answer to what verify_enrollment_signature    *)
(* found: go on with a key, go on without one, or refuse.                    *)
Settle(q, result, pr, piped) ==
    CASE result = "verified" -> StartSession(q, q.enroll.key, pr, piped)
      [] result = "refused"  -> Done(pr)
      [] OTHER -> IF RequireEnrollmentSignature THEN Done(pr)
                  ELSE StartSession(q, NoKey, pr, piped)

(* handle_ssh_request and handle_npt_request until the signing key has to   *)
(* be looked up, which the daemon waits for.                                 *)
HandleRequest(q, fetched, piped) ==
    /\ pc = "read" /\ q \in todo
    /\ todo' = todo \ {q}
    /\ IF ~(q.parses /\ VerifyEnvelopeSignatureFrom(q, fetched) /\ VerifyEnvelopeContents(q))
          \/ IsWatched(q.id)
       THEN Done(proc)
       ELSE IF BeforeLookup(q) # "lookup" THEN Settle(q, BeforeLookup(q), proc, piped)
       ELSE IF FreePids(proc) = {} THEN Settle(q, "unchecked", proc, piped)
       ELSE /\ pc' = "lookup"
            /\ hand' = [req |-> {q}, key |-> NoKey, pid |-> NextPid(proc)]
            /\ proc' = [proc EXCEPT ![NextPid(proc)] = Worker("lookup", q.enroll.key)]
    /\ UNCHANGED <<sessions, checks, starts, turn, nextDue, world, stray>>

(* What public_lookup_direct, with its fallback to the daemon's own atServer, *)
(* can answer of key k.                                                      *)
Answers(k) == {IF where[k] = "a" THEN "found" ELSE "not_found"}
              \cup (IF k \in Flaky THEN {"failed"} ELSE {})

(* public_lookup_direct ends: the worker answered, or was killed at the      *)
(* deadline, and is reaped by its own pid.                                   *)
LookupEnds(looked, piped) ==
    /\ pc = "lookup"
    /\ \E q \in hand.req :
          /\ looked \in Answers(q.enroll.key)
          /\ Settle(q, AfterLookup(q, looked, Advert[q.enroll.key]),
                    [proc EXCEPT ![hand.pid] = NoProc], piped)
    /\ UNCHANGED <<todo, sessions, checks, starts, turn, nextDue, world, stray>>

(* Mutant: the session is tracked even when srv had already been reaped. *)
FinishStartReaped ==
    /\ pc = "forked"
    /\ proc' = IF proc[hand.pid].st = "dead" THEN [proc EXCEPT ![hand.pid] = NoProc] ELSE proc
    /\ starts' = IF proc[hand.pid].at = "starting"
                 THEN starts \cup {[pid |-> hand.pid, age |-> 0]} ELSE starts
    /\ sessions' = IF hand.key = NoKey THEN sessions
                   ELSE Append(sessions, [id |-> proc[hand.pid].own[1], key |-> hand.key,
                                          pid |-> hand.pid, ending |-> FALSE, due |-> FALSE])
    /\ pc' = "reap" /\ hand' = Empty
    /\ UNCHANGED <<todo, checks, turn, nextDue, world, stray>>

(* Mutant: the start of srv is not watched. *)
FinishStartUnwatched ==
    /\ pc = "forked"
    /\ proc' = IF proc[hand.pid].st = "dead" THEN [proc EXCEPT ![hand.pid] = NoProc] ELSE proc
    /\ sessions' = IF hand.key = NoKey \/ proc[hand.pid].st = "dead" THEN sessions
                   ELSE Append(sessions, [id |-> proc[hand.pid].own[1], key |-> hand.key,
                                          pid |-> hand.pid, ending |-> FALSE, due |-> FALSE])
    /\ pc' = "reap" /\ hand' = Empty
    /\ UNCHANGED <<todo, starts, checks, turn, nextDue, world, stray>>

(* The parent's half of start_*_session: a srv that already ended is reaped   *)
(* here and forgotten; otherwise its start is watched, unless it reported   *)
(* already or has no pipe to report on, and, if its request was signed, the *)
(* session tracked (client_sessions_track).                                  *)
FinishStart ==
    /\ pc = "forked"
    /\ IF proc[hand.pid].st = "dead"
       THEN /\ proc' = [proc EXCEPT ![hand.pid] = NoProc]
            /\ UNCHANGED <<starts, sessions>>
       ELSE /\ starts' = IF proc[hand.pid].at # "starting" THEN starts
                         ELSE starts \cup {[pid |-> hand.pid, age |-> 0]}
            /\ sessions' = IF hand.key = NoKey THEN sessions
                           ELSE Append(sessions,
                                  [id |-> proc[hand.pid].own[1], key |-> hand.key,
                                   pid |-> hand.pid, ending |-> FALSE, due |-> FALSE])
            /\ UNCHANGED proc
    /\ pc' = "reap" /\ hand' = Empty
    /\ UNCHANGED <<todo, checks, turn, nextDue, world, stray>>

-----------------------------------------------------------------------------
(* The processes                                                           *)

SrvReady(p) ==
    /\ proc[p].kind = "srv" /\ proc[p].st = "run" /\ proc[p].at = "starting"
    /\ proc' = [proc EXCEPT ![p].at = "ready"]
    /\ UNCHANGED <<pc, hand, todo, sessions, checks, starts, turn, nextDue, world, stray>>

(* A srv ends by itself, or any child by a signal: of a killed key check     *)
(* WIFEXITED is false.                                                       *)
Exit(p) ==
    /\ proc[p].kind \in {"srv", "check"}
    /\ proc[p].st = "term" \/ (proc[p].st = "run" /\ proc[p].kind = "srv")
    /\ proc' = [proc EXCEPT ![p].st = "dead",
                            ![p].at = IF proc[p].kind = "check" THEN "unknown" ELSE ""]
    /\ UNCHANGED <<pc, hand, todo, sessions, checks, starts, turn, nextDue, world, stray>>

(* run_key_check, one GET at a time: the approved name, then, only if that   *)
(* is gone, the revoked and the deleted one.  ok is whether the GET worked.  *)
KeyCheckGet(p, ok) ==
    /\ proc[p].kind = "check" /\ proc[p].st = "run"
    /\ ok \/ proc[p].own[1] \in Flaky
    /\ LET k     == proc[p].own[1]
           at    == proc[p].at
           found == ok /\ where[k] = (IF at = "d?" THEN "d" ELSE at)
           End(outcome) == proc' = [proc EXCEPT ![p].st = "dead", ![p].at = outcome]
           Go(next) == proc' = [proc EXCEPT ![p].at = next]
       IN  CASE at = "a" -> IF found THEN End("published")
                            ELSE IF ok THEN Go("r") ELSE End("unknown")
             [] at = "r" -> IF found THEN End("revoked")
                            ELSE Go(IF ok THEN "d" ELSE "d?")
             [] OTHER    -> IF found THEN End("deleted")
                            ELSE End(IF ok /\ at = "d" THEN "missing" ELSE "unknown")
    /\ UNCHANGED <<pc, hand, todo, sessions, checks, starts, turn, nextDue, world, stray>>

-----------------------------------------------------------------------------
(* The world                                                               *)

(* The record of a key changes its name, or goes. *)
KeyMoves(k, to) ==
    /\ moves < MaxMoves /\ moves' = moves + 1
    /\ <<k, where[k], to>> \in Moves
    /\ where' = [where EXCEPT ![k] = to]
    /\ withdrawn' = IF to \in {"r", "d"} THEN withdrawn \cup {k} ELSE withdrawn
    /\ UNCHANGED <<pc, hand, todo, child, stray>>

(* Time passes while the loop waits for a notification or for a lookup; the  *)
(* rest of a pass takes none to speak of.  A sound atServer answers within    *)
(* the worker's budget, which is far below the overrun.                      *)
Tick ==
    /\ pc \in {"read", "lookup"}
    /\ \A c \in checks : c.age = Overrun /\ c.key \notin Flaky => proc[c.pid].st # "run"
    /\ starts' = {[s EXCEPT !.age = IF @ < StartTimeout THEN @ + 1 ELSE @] : s \in starts}
    /\ checks' = {[c EXCEPT !.age = IF @ <= Overrun THEN @ + 1 ELSE @] : c \in checks}
    /\ nextDue' = IF nextDue \in {0, Unset} THEN nextDue ELSE nextDue - 1
    /\ <<starts, checks, nextDue>>' # <<starts, checks, nextDue>>
    /\ UNCHANGED <<pc, hand, todo, proc, sessions, turn, world, stray>>

-----------------------------------------------------------------------------
Loop ==
    \/ \E p \in Pid : ReapChild(p)
    \/ SrvStartsPoll
    \/ ClientSessionsTick
    \/ StartKeyCheck
    \/ ReadNothing
    \/ \E looked \in {"found", "not_found", "failed"}, piped \in BOOLEAN : LookupEnds(looked, piped)
    \/ FinishStart

Next ==
    \/ Loop
    \/ \E q \in Request, fetched \in BOOLEAN, piped \in BOOLEAN : HandleRequest(q, fetched, piped)
    \/ \E p \in Pid : SrvReady(p) \/ Exit(p)
    \/ \E p \in Pid, ok \in BOOLEAN : KeyCheckGet(p, ok)
    \/ \E k \in Key, to \in {"a", "r", "d", "gone"} : KeyMoves(k, to)
    \/ Tick

Spec == Init /\ [][Next]_vars

(* The loop runs, and time passes in the reads it waits in (strong fairness: *)
(* between two reads Tick is off), a signalled process ends, and the workers for *)
(* keys whose atServer is sound get their answers.  A flaky atServer's worker *)
(* may hang until it is killed.                                              *)
Fairness ==
    /\ WF_vars(Loop)
    /\ SF_vars(Tick)
    /\ \A p \in Pid : WF_vars(proc[p].st = "term" /\ Exit(p))
    /\ \A p \in Pid : WF_vars(proc[p].own # <<>> /\ proc[p].own[1] \notin Flaky /\ KeyCheckGet(p, TRUE))

FairSpec == Spec /\ Fairness

-----------------------------------------------------------------------------
(* Properties                                                              *)

(* A signal only ever reaches the process it was meant for: end_session, the *)
(* overrun of a check and the late start all name a pid from a list, and a   *)
(* pid whose process was reaped belongs to whoever is forked next.           *)
NoStraySignal == ~stray

(* The sessions list is exactly the signed sessions that run: each is there  *)
(* from the time its start is finished until its srv is reaped, whoever of   *)
(* the two is first.  A session that is missing would outlive its key.       *)
SignedIffWatched ==
    \A p \in Pid :
        LET listed == {i \in DOMAIN sessions : sessions[i].pid = p}
            signed == proc[p].kind = "srv" /\ proc[p].own[2] # NoKey
            fresh  == pc = "forked" /\ hand.pid = p
        IN  /\ Cardinality(listed) = (IF signed /\ ~fresh THEN 1 ELSE 0)
            /\ \A i \in listed : <<sessions[i].id, sessions[i].key>> = proc[p].own

(* A session is ended by a re-check only when its key really was withdrawn   *)
(* at some time: an atServer that does not answer, an expired record or a    *)
(* check that was killed never ends one.                                     *)
EndedOnlyIfWithdrawn ==
    \A i \in DOMAIN sessions : sessions[i].ending => sessions[i].key \in withdrawn

(* The checks that run are the ones counted, within both limits and one per  *)
(* key, whatever was killed, reaped or could not be forked.                  *)
ChecksAreCounted ==
    /\ {<<c.pid, c.key>> : c \in checks}
         = {<<p, proc[p].own[1]>> : p \in {r \in Pid : proc[r].kind = "check"}}
    /\ Cardinality(checks) <= MaxChecks
    /\ \A c \in checks : /\ ChecksOfAtSign(checks, c.key) <= MaxChecksPerAtSign
                          /\ \A d \in checks : c.key = d.key => c = d

(* Whatever srv is forked with, srv's own parser accepts, and reads as the   *)
(* relay authentication this side chose; its timeout is positive and capped. *)
SrvAcceptsWhatItIsGiven ==
    pc = "forked" => \A q \in hand.req :
        /\ ParseSrvParams(RunSrvProcess(q))
        /\ AuthMode(RunSrvProcess(q)) = RelayAuth(q)
        /\ TimeoutSeconds(q) \in 1 .. MaxTimeoutSecs

(* A srv that has not reported yet is one whose start will be given up: the  *)
(* start is being watched, or the srv was stopped already.  A srv that nobody *)
(* watches would wait at the relay for good.                                 *)
StartsAreWatched ==
    \A p \in Pid : proc[p].kind = "srv" /\ proc[p].at = "starting" /\ proc[p].st = "run"
                     => (pc = "forked" /\ hand.pid = p) \/ \E s \in starts : s.pid = p

(* Every key always has a place for its check.  A sound atServer's keys would   *)
(* else have to wait for those of others: the places are given in the order   *)
(* of sessions[] anew in every round, and a key early in it that is due again *)
(* when its check ends, or is killed, takes its place back.                   *)
KeysHavePlaces ==
    /\ MaxChecksPerAtSign * Cardinality({OwnerOf[k] : k \in Key}) <= MaxChecks
    /\ \A k \in Key : Cardinality({j \in Key : OwnerOf[j] = OwnerOf[k]}) <= MaxChecksPerAtSign

(* "A slow atServer delays only the checks of its own keys" (client_sessions.c *)
(* at 144), as far as that is so: while no key has to wait for a place, a     *)
(* session whose key was withdrawn for good, at an atServer that answers, ends *)
(* whatever the other atServers do.                                          *)
WithdrawnEndsSession ==
    KeysHavePlaces =>
        \A k \in Key \ Flaky :
            (\E i \in DOMAIN sessions : sessions[i].key = k) /\ where[k] = "d"
                ~> ~\E i \in DOMAIN sessions : sessions[i].key = k

=============================================================================
