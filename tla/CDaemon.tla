------------------------------ MODULE CDaemon -------------------------------
(***************************************************************************)
(* The C sshnpd (packages/c/sshnpd) from its start to its exit: main.c's    *)
(* start-up, and main_loop with its monitor connection, its device info and *)
(* the gate in front of the request handlers, which asks a policy service   *)
(* over the same monitor and caches and throttles what it asks (policy.c,   *)
(* policy_limits.c).  What the handlers do with a session request is        *)
(* CSessions.  The daemon is one thread, so while it waits for the policy   *)
(* service it does nothing else.                                            *)
(***************************************************************************)
EXTENDS Integers, Sequences, FiniteSets, SequencesExt

CONSTANTS Option,         \* the command lines the daemon may be started with
          Note,           \* the notifications others may send
          Sent,           \* the ones each of those daemons is sent, once
          Allowed,        \* clients the policy service allows at first
          Ttl,            \* POLICY_CACHE_TTL_MS, in ticks
          Throttle,       \* POLICY_THROTTLE_MS, in ticks
          ThrottleSlots,  \* POLICY_THROTTLE_SLOTS
          Wait, WaitCap,  \* POLICY_WAIT_MS and POLICY_WAIT_CAP_MS, in ticks
          ReconnectAfter, \* MONITOR_NOOP_TIMEOUT_MS / MONITOR_READ_TIMEOUT_MS
          Refresh,        \* the hour between device infos, in ticks
          MaxAttempts,    \* SSHNPD_DEVICE_INFO_MAX_ATTEMPTS
          MaxUnset,       \* bound: failures to set the metadata of a key
          Deaf            \* managers no device info can be stored for

(* A command line by what is given; "" is absent, "?" an atSign that         *)
(* sshnpd_normalize_atsign refuses.  Names are normalized ones otherwise.    *)
AnyOption == [atsign : STRING, managers : Seq(STRING), policy : STRING,
              sshdPort : Int, cacheSize : Int, keyCheckSecs : Int,
              permitOpenParses : BOOLEAN, algorithm : STRING, sshpublickey : BOOLEAN,
              rootDomain : {"default", "host", "host:port", "host:bad", "proxy:"}]
(* A notification's key is "request" when its shape is not one of the policy  *)
(* service's, an answer or "config".                                         *)
AnyNote == [id : Nat, from : STRING, whole : BOOLEAN, key : STRING,
            kind : {"npt", "ssh", "ping", "sshpublickey", "none"}]

MaxManagers == LET lens == {Len(o.managers) : o \in Option}
               IN  CHOOSE n \in lens : \A m \in lens : m <= n
Client == {n.from : n \in Note}
(* What the policy service answers a request with, by the keys of its answers. *)
Responses == {"ack", "yes", "no"}

ASSUME LimitAssumption ==
    /\ {Ttl, Throttle, ThrottleSlots, Wait, WaitCap, ReconnectAfter, Refresh, MaxAttempts}
         \subseteq Nat \ {0}
    /\ Wait <= WaitCap /\ MaxUnset \in Nat
    /\ Option \subseteq AnyOption /\ Note \subseteq AnyNote
    /\ IsFiniteSet(Note) /\ Sent \in [Option -> SUBSET Note]
(* The policy service may send config pushes and session requests of its own,  *)
(* but answers only what it was asked.                                       *)
ASSUME AnswersAssumption ==
    \A o \in Option : \A n \in Sent[o] :
        o.policy # "" /\ n.from = o.policy => n.key \notin Responses

VARIABLES
    opt,        \* the command line
    pc, step,   \* where the daemon is; which stage of the start-up
    run,        \* should_run
    mon,        \* the monitor connection: up, cut (reads fail) or silent
    counter,    \* timeout_counter
    inbox,      \* what the monitor will deliver, in any order, sooner or later
    cache,      \* entries of the policy_cache
    throttled,  \* slots of the policy_throttle
    check,      \* the auth check the daemon waits for
    ids,        \* request ids used so far
    asked,      \* requests at the policy service
    revoked,    \* revoked[c]: ticks since the service stopped allowing c, or -1
    info,       \* device_info_pos, its attempts, the ages of last_sent, and how
                \* often the metadata was not set
    keysFile,   \* authorized_keys
    served      \* the request handed to a handler, and whether by policy

gate == <<cache, throttled, check, ids, asked>>
vars == <<opt, pc, step, run, mon, counter, inbox, cache, throttled, check,
          ids, asked, revoked, info, keysFile, served>>

Nobody == [id |-> 0, from |-> "", whole |-> FALSE, key |-> "", kind |-> "none"]
Idle == [note |-> Nobody, id |-> 0, age |-> 0, progress |-> 0, slept |-> FALSE]
(* From when on a client that lost its access is not served any more. *)
Late == Ttl + WaitCap

-----------------------------------------------------------------------------
(* Parameters                                                              *)

(* parse_sshnpd_params: what makes it return 0, and the manager list. *)
ManagerList(o) == SelectSeq(o.managers, LAMBDA m : m # o.atsign)
ParseSshnpdParams(o) ==
    /\ o.sshdPort \in 1 .. 65535
    /\ o.cacheSize \in 0 .. 64
    /\ o.keyCheckSecs \in 0 .. 86400
    /\ o.atsign \notin {"", "?"}
    /\ o.managers # <<>> \/ o.policy # ""
    /\ o.permitOpenParses
    /\ o.algorithm \in {"", "ssh-rsa", "ssh-ed25519"}
    /\ o.managers # <<>> => ~Contains(o.managers, "?") /\ ManagerList(o) # <<>>
    /\ o.policy # "?"

(* The root domain: a host, with or without a port, or a proxy. *)
RootDomainParses(o) == o.rootDomain \notin {"host:bad", "proxy:"}

-----------------------------------------------------------------------------
(* Start-up: what each stage of main does when it fails, and whether a       *)
(* signal is noticed at its end.                                            *)
LocalStages ==
    <<[name |-> "params",      fatal |-> TRUE, stops |-> FALSE],
      [name |-> "environment", fatal |-> TRUE, stops |-> TRUE],
      [name |-> "atkeys",      fatal |-> TRUE, stops |-> TRUE],
      [name |-> "root domain", fatal |-> TRUE, stops |-> FALSE]>>

ConnectStages ==
    <<[name |-> "monitor", fatal |-> TRUE, stops |-> TRUE],
      [name |-> "worker",  fatal |-> TRUE, stops |-> TRUE],
      [name |-> "hooks",   fatal |-> TRUE, stops |-> TRUE]>>

PublishStages ==
    <<[name |-> "ping response", fatal |-> TRUE,  stops |-> TRUE],
      [name |-> "signing key",   fatal |-> FALSE, stops |-> FALSE],
      [name |-> "username keys", fatal |-> FALSE, stops |-> FALSE]>>

ListenStages ==
    <<[name |-> "monitor start",   fatal |-> TRUE, stops |-> TRUE],
      [name |-> "authorized_keys", fatal |-> TRUE, stops |-> TRUE]>>

Stages == LocalStages \o ConnectStages \o PublishStages \o ListenStages

TypeOK ==
    /\ opt \in Option
    /\ pc \in {"startup", "loop", "reconnect", "read", "wait", "waitread", "handle", "exit"}
    /\ step \in 1 .. Len(Stages) /\ run \in BOOLEAN
    /\ mon \in {"up", "cut", "silent"} /\ counter \in 0 .. ReconnectAfter + 2
    /\ ids \in 0 .. Cardinality(Note)
    /\ Cardinality(cache) <= opt.cacheSize /\ Cardinality(throttled) <= ThrottleSlots
    /\ check.age \in 0 .. WaitCap + 1 /\ check.progress \in 0 .. WaitCap + 1
    /\ revoked \in [Client -> -1 .. Late]
    /\ info.attempts \in 0 .. MaxAttempts - 1 /\ info.unset \in 0 .. MaxUnset

Init ==
    /\ opt \in Option
    /\ pc = "startup" /\ step = 1 /\ run = TRUE
    /\ mon = "up" /\ counter = 0 /\ inbox = Sent[opt]
    /\ cache = {} /\ throttled = {} /\ check = Idle /\ ids = 0 /\ asked = {}
    /\ revoked = [c \in Client |-> IF c \in Allowed THEN -1 ELSE Late]
    /\ info = [pos |-> 1, attempts |-> 0, unset |-> 0,
               ages |-> [i \in 1 .. Len(ManagerList(opt)) |-> Refresh]]
    /\ keysFile = {} /\ served = [note |-> Nobody, checked |-> FALSE]

Startup(ok) ==
    /\ pc = "startup"
    /\ LET s     == Stages[step]
           works == /\ ok
                    /\ s.name = "params" => ParseSshnpdParams(opt)
                    /\ s.name = "root domain" => RootDomainParses(opt)
       IN  IF (~works /\ s.fatal) \/ (~run /\ s.stops)
           THEN pc' = "exit" /\ step' = step
           ELSE IF step < Len(Stages) THEN step' = step + 1 /\ pc' = pc
           ELSE pc' = "loop" /\ step' = step
    /\ UNCHANGED <<opt, run, mon, counter, inbox, gate, revoked, info, keysFile, served>>

(* exit_handler: SIGINT, whatever the daemon is doing. *)
ExitHandler ==
    /\ run /\ pc # "exit"
    /\ run' = FALSE
    /\ UNCHANGED <<opt, pc, step, mon, counter, inbox, gate, revoked, info, keysFile, served>>

-----------------------------------------------------------------------------
(* Device info                                                             *)

Pos(i, n) == IF i > n THEN 1 ELSE i

(* Mutant: a manager whose device info cannot be stored is tried for ever. *)
DeviceInfoNeverGivesUp(i) == [i EXCEPT !.attempts = IF @ < MaxAttempts - 1 THEN @ + 1 ELSE @]

(* device_info_failed_attempt *)
DeviceInfoFailedAttempt(i) ==
    IF i.attempts + 1 >= MaxAttempts
    THEN [i EXCEPT !.pos = @ + 1, !.attempts = 0, !.ages[i.pos] = 0]
    ELSE [i EXCEPT !.attempts = @ + 1]

(* send_next_device_info: to one manager per pass of the loop, an hour apart. *)
(* set is whether the metadata of the key could be set, which is not counted  *)
(* as an attempt when it fails.                                              *)
SendNextDeviceInfo(set) ==
    LET n  == Len(info.ages)
        i  == [info EXCEPT !.pos = Pos(@, n)]
        to == ManagerList(opt)[i.pos]
    IN  IF n = 0 THEN info
        ELSE IF i.ages[i.pos] < Refresh THEN i
        ELSE IF ~set /\ i.unset < MaxUnset THEN [i EXCEPT !.unset = @ + 1]
        ELSE IF to \in Deaf THEN DeviceInfoFailedAttempt(i)
        ELSE [i EXCEPT !.pos = @ + 1, !.attempts = 0, !.ages[i.pos] = 0]

-----------------------------------------------------------------------------
(* The top of main_loop                                                    *)

LoopTop(set) ==
    /\ pc = "loop"
    /\ IF ~run THEN pc' = "exit" /\ UNCHANGED info
       ELSE /\ info' = SendNextDeviceInfo(set)
            /\ pc' = IF counter > ReconnectAfter THEN "reconnect" ELSE "read"
    /\ UNCHANGED <<opt, step, run, mon, counter, inbox, gate, revoked, keysFile, served>>

(* reconnect_monitor *)
ReconnectMonitor(ok) ==
    /\ pc = "reconnect"
    /\ mon' = IF ok THEN "up" ELSE "cut"
    /\ counter' = IF ok THEN 0 ELSE ReconnectAfter + 1
    /\ pc' = IF ok THEN "read" ELSE "loop"
    /\ UNCHANGED <<opt, step, run, inbox, gate, revoked, info, keysFile, served>>

(* Mutant: a read that times out is taken for a sign of life. *)
NextTimeoutCounterEmptyIsLife(failed, type, c) ==
    IF type = "notification" \/ type = "empty" THEN 0
    ELSE IF failed THEN ReconnectAfter + 1 ELSE c

(* sshnpd_next_timeout_counter *)
NextTimeoutCounter(failed, type, c) ==
    LET next == IF failed THEN ReconnectAfter + 1 ELSE c
    IN  CASE type = "empty"        -> next + 1
          [] type = "notification" -> 0
          [] OTHER                 -> next

-----------------------------------------------------------------------------
(* The cache and the throttle                                              *)

(* policy_cache_lookup: the entry of this client, if it is young enough. *)
CacheLookup(from) == {e \in cache : e.from = from /\ e.age < Ttl}

Oldest(slots) == CHOOSE e \in slots : \A f \in slots : e.age >= f.age

(* policy_cache_store: in the client's own entry, a free one, or the oldest. *)
CacheStore(from, yes) ==
    LET own  == {e \in cache : e.from = from}
        gone == IF own # {} THEN own
                ELSE IF Cardinality(cache) < opt.cacheSize THEN {} ELSE {Oldest(cache)}
    IN  IF opt.cacheSize = 0 THEN {}
        ELSE (cache \ gone) \cup {[from |-> from, yes |-> yes, age |-> 0]}

(* policy_throttle_allows, and the slots it leaves. *)
ThrottleAllows(from, kind) ==
    ~\E t \in throttled : t.from = from /\ t.kind = kind /\ t.age < Throttle
ThrottleTakes(from, kind) ==
    LET own  == {t \in throttled : t.from = from /\ t.kind = kind}
        gone == IF own # {} THEN own
                ELSE IF Cardinality(throttled) < ThrottleSlots THEN {} ELSE {Oldest(throttled)}
    IN  (throttled \ gone) \cup {[from |-> from, kind |-> kind, age |-> 0]}

-----------------------------------------------------------------------------
(* Reading a notification                                                  *)

IsManagerAtsign(a) == Contains(ManagerList(opt), a)

(* Mutant: nothing sets the policy service's own messages apart. *)
IsPolicyServiceMessageNever(n) == FALSE

(* policy_is_policy_service_message *)
IsPolicyServiceMessage(n) == opt.policy # "" /\ n.from = opt.policy /\ n.key # "request"

ReadNothing ==
    /\ pc = "read"
    /\ counter' = IF mon = "cut" THEN NextTimeoutCounter(TRUE, "error_read", counter)
                  ELSE NextTimeoutCounter(FALSE, "empty", counter)
    /\ pc' = "loop"
    /\ UNCHANGED <<opt, step, run, mon, inbox, gate, revoked, info, keysFile, served>>

Drop == pc' = "loop" /\ UNCHANGED <<gate, served>>
Handle(n, checked) == pc' = "handle" /\ served' = [note |-> n, checked |-> checked]

(* A notification is read: it is dropped, refused, passed to its handler, or *)
(* its sender is asked about (policy_gate up to the check).  sent is whether *)
(* the request reached the policy service.                                  *)
ReadNotification(n, sent) ==
    /\ pc = "read" /\ mon = "up" /\ n \in inbox
    /\ inbox' = inbox \ {n}
    /\ counter' = NextTimeoutCounter(FALSE, "notification", counter)
    /\ CASE ~n.whole \/ IsPolicyServiceMessage(n) -> Drop
         [] n.whole /\ ~IsPolicyServiceMessage(n) ->
            IF IsManagerAtsign(n.from) THEN Handle(n, FALSE) /\ UNCHANGED gate
            ELSE IF opt.policy = "" THEN Drop
            ELSE IF CacheLookup(n.from) # {}
                 THEN IF \E e \in CacheLookup(n.from) : e.yes
                      THEN Handle(n, TRUE) /\ UNCHANGED gate ELSE Drop
            ELSE IF ~ThrottleAllows(n.from, n.kind) THEN Drop
            ELSE /\ throttled' = ThrottleTakes(n.from, n.kind)
                 /\ IF sent
                    THEN /\ ids' = ids + 1
                         /\ asked' = asked \cup {[id |-> ids + 1, who |-> n.from]}
                         /\ check' = [Idle EXCEPT !.note = n, !.id = ids + 1]
                         /\ pc' = "wait"
                    ELSE UNCHANGED <<ids, asked, check>> /\ pc' = "loop"
                 /\ UNCHANGED <<cache, served>>
    /\ UNCHANGED <<opt, step, run, mon, revoked, info, keysFile>>

-----------------------------------------------------------------------------
(* policy_auth_check                                                       *)

(* Mutant: every acknowledgement buys a full wait again. *)
WaitDeadlineUncapped == check.progress + Wait

(* policy_wait_deadline, with ages counted from the start of the check. *)
WaitDeadline == LET d == check.progress + Wait IN IF d < WaitCap THEN d ELSE WaitCap

(* The check ends with a decision, which is cached: a time-out is a denial. *)
Decided(yes) ==
    /\ cache' = CacheStore(check.note.from, yes)
    /\ check' = Idle
    /\ IF yes THEN Handle(check.note, TRUE) ELSE pc' = "loop" /\ UNCHANGED served
    /\ UNCHANGED <<throttled, ids, asked>>

WaitTest ==
    /\ pc = "wait"
    /\ IF check.age < WaitDeadline
       THEN pc' = "waitread" /\ check' = [check EXCEPT !.slept = FALSE]
            /\ UNCHANGED <<cache, throttled, ids, asked, served>>
       ELSE Decided(FALSE)
    /\ UNCHANGED <<opt, step, run, mon, counter, inbox, revoked, info, keysFile>>

(* Mutant: any answer of the policy service will do. *)
IsPolicyResponseToAny(n) == n.from = opt.policy /\ n.key \in Responses

(* is_policy_response and the reqId in the value. *)
IsPolicyResponse(n) == n.from = opt.policy /\ n.key \in Responses /\ n.id = check.id

(* A read while waiting: nothing or an error, or a notification, which is     *)
(* dropped unless it answers this check.                                     *)
WaitReadNothing ==
    /\ pc = "waitread"
    /\ pc' = "wait"
    /\ UNCHANGED <<opt, step, run, mon, counter, inbox, gate, revoked, info, keysFile, served>>

WaitRead(n) ==
    /\ pc = "waitread" /\ mon = "up" /\ n \in inbox
    /\ inbox' = inbox \ {n}
    /\ IF n.whole /\ IsPolicyResponse(n) /\ n.key # "ack" THEN Decided(n.key = "yes")
       ELSE /\ pc' = "wait"
            /\ check' = IF n.whole /\ IsPolicyResponse(n)
                        THEN [check EXCEPT !.progress = check.age] ELSE check
            /\ UNCHANGED <<cache, throttled, ids, asked, served>>
    /\ UNCHANGED <<opt, step, run, mon, counter, revoked, info, keysFile>>

-----------------------------------------------------------------------------
(* The dispatch to a handler.  handle_sshpublickey adds the key unless it is  *)
(* off; handle_ping answers, and sessions are CSessions.                     *)
HandleNotification ==
    /\ pc = "handle"
    /\ keysFile' = IF run /\ served.note.kind = "sshpublickey" /\ opt.sshpublickey
                   THEN keysFile \cup {served.note.from} ELSE keysFile
    /\ pc' = "loop"
    /\ served' = [note |-> Nobody, checked |-> FALSE]
    /\ UNCHANGED <<opt, step, run, mon, counter, inbox, gate, revoked, info>>

-----------------------------------------------------------------------------
(* The world                                                               *)

Running == pc \notin {"startup", "exit"}

Answer(r, key) == [id |-> r.id, from |-> opt.policy, whole |-> TRUE, key |-> key, kind |-> "none"]

(* The policy service acknowledges a request as often as it likes (late ones  *)
(* are left out: they are dropped as late answers are), and answers it once, *)
(* with what it thinks of the client then.                                   *)
PolicyAcks(r) ==
    /\ Running /\ r \in asked /\ r.id = check.id /\ Answer(r, "ack") \notin inbox
    /\ inbox' = inbox \cup {Answer(r, "ack")}
    /\ UNCHANGED <<opt, pc, step, run, mon, counter, gate, revoked, info, keysFile, served>>

PolicyAnswers(r) ==
    /\ Running /\ r \in asked
    /\ asked' = asked \ {r}
    /\ inbox' = inbox \cup {Answer(r, IF revoked[r.who] = -1 THEN "yes" ELSE "no")}
    /\ UNCHANGED <<opt, pc, step, run, mon, counter, cache, throttled, check, ids,
                   revoked, info, keysFile, served>>

PolicyRevokes(c) ==
    /\ Running /\ revoked[c] = -1
    /\ revoked' = [revoked EXCEPT ![c] = 0]
    /\ UNCHANGED <<opt, pc, step, run, mon, counter, inbox, gate, info, keysFile, served>>

MonitorBreaks(how) ==
    /\ Running /\ mon = "up"
    /\ mon' = how
    /\ UNCHANGED <<opt, pc, step, run, counter, inbox, gate, revoked, info, keysFile, served>>

Older(n, cap) == IF n < cap THEN n + 1 ELSE n

(* Time passes in the reads, at most a tick in each while a check waits. *)
Tick ==
    /\ pc = "read" \/ (pc = "waitread" /\ ~check.slept)
    /\ cache' = {[e EXCEPT !.age = Older(@, Ttl + 1)] : e \in cache}
    /\ throttled' = {[t EXCEPT !.age = Older(@, Throttle)] : t \in throttled}
    /\ check' = IF pc = "waitread" THEN [check EXCEPT !.age = Older(@, WaitCap + 1), !.slept = TRUE] ELSE check
    /\ revoked' = [c \in Client |-> IF revoked[c] = -1 THEN -1 ELSE Older(revoked[c], Late)]
    /\ info' = [info EXCEPT !.ages = [i \in DOMAIN @ |-> Older(@[i], Refresh)]]
    /\ <<cache, throttled, check, revoked, info>>' # <<cache, throttled, check, revoked, info>>
    /\ UNCHANGED <<opt, pc, step, run, mon, counter, inbox, ids, asked, keysFile, served>>

-----------------------------------------------------------------------------
Thread ==
    \/ Startup(TRUE)
    \/ \E set \in BOOLEAN : LoopTop(set)
    \/ ReconnectMonitor(FALSE)
    \/ ReadNothing
    \/ WaitTest
    \/ WaitReadNothing
    \/ HandleNotification

Next ==
    \/ Thread
    \/ Startup(FALSE)
    \/ ReconnectMonitor(TRUE)
    \/ \E n \in inbox, sent \in BOOLEAN : ReadNotification(n, sent)
    \/ \E n \in inbox : WaitRead(n)
    \/ ExitHandler
    \/ \E r \in asked : PolicyAcks(r) \/ PolicyAnswers(r)
    \/ \E c \in Client : PolicyRevokes(c)
    \/ \E how \in {"cut", "silent"} : MonitorBreaks(how)
    \/ Tick

Spec == Init /\ [][Next]_vars

(* The thread runs, reads take time, and an atServer that is asked again and *)
(* again lets the monitor in at last.  Nothing is assumed of clients and of  *)
(* the policy service.                                                       *)
Fairness ==
    /\ WF_vars(Thread)
    /\ SF_vars(Tick)
    /\ SF_vars(ReconnectMonitor(TRUE))

FairSpec == Spec /\ Fairness

-----------------------------------------------------------------------------
(* Properties                                                              *)

(* A client the policy service no longer allows, or never did, is not served *)
(* on the service's word after a fixed time, whatever is cached, delayed or  *)
(* answered late: the time-to-live of a decision and the longest wait for    *)
(* one, in whole reads.                                                      *)
RevocationTakesEffect ==
    pc = "handle" /\ served.checked => revoked[served.note.from] < Late

(* The policy service is asked once at most for each notification that is    *)
(* not its own traffic: neither a config push nor an answer that comes after *)
(* its check was given up makes the daemon ask about the service itself,     *)
(* with an answer to that question to follow.                                *)
EveryCheckHasItsRequest ==
    ids <= Cardinality({n \in Sent[opt] \ inbox : n.from # opt.policy \/ n.key = "request"})

(* SIGINT ends the daemon from wherever it is: also from a wait the policy   *)
(* service keeps alive with acknowledgements, and with the monitor down.     *)
StopsOnSignal == ~run ~> pc = "exit"

(* A monitor connection that broke, or went silent, is set up again while    *)
(* the daemon runs.                                                          *)
MonitorRecovers == mon # "up" ~> (mon = "up" \/ ~run)

(* Each manager that can be reached gets its device info again and again,    *)
(* however many others cannot.                                               *)
ManagersAreRefreshed ==
    \A i \in 1 .. MaxManagers :
        (pc = "loop" /\ i \in DOMAIN info.ages /\ info.ages[i] = Refresh)
            ~> (~run \/ (i \in DOMAIN info.ages /\ info.ages[i] < Refresh))

=============================================================================
