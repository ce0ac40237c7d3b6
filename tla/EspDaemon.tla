------------------------------ MODULE EspDaemon ------------------------------
(***************************************************************************)
(* The ESP32 daemon, noports_daemon.cpp: begin(), the passes of loop(), and   *)
(* the two connections to the atServer they keep alive: the monitor, which   *)
(* is read, and the worker, which everything is sent over.  What the          *)
(* notifications read are about is in EspPolicy and EspSessions; here, what   *)
(* is done for them needs the worker, or not.                                *)
(*                                                                         *)
(* A connection that no longer works is cut (reads fail), silent (reads find  *)
(* nothing) or dead (sends fail).  Times are kept as ages.                   *)
(***************************************************************************)
EXTENDS Integers, Sequences

CONSTANTS Option,       \* configurations: [atsign, device, policy, managers, cacheSize,
                        \* rootDomain, keys]
          DecryptPause, \* NOPORTS_DECRYPT_RECONNECT_MS
          KeepAlive,    \* _worker_keepalive_ms
          ReadsToNoop,  \* NOOP over READ timeout: empty reads until a reconnect
          MaxFailures   \* NOPORTS_MAX_RECONNECT_FAILURES

ASSUME EspDaemonAssumption ==
    {KeepAlive, ReadsToNoop, MaxFailures} \subseteq Nat \ {0} /\ DecryptPause \in Nat

VARIABLES
    opt,      \* _config
    pc,       \* where the pass is, or that the daemon is down
    step,     \* the stage of begin()
    mon,      \* the monitor connection: up, cut or silent
    worker,   \* the worker connection: up or dead
    counter,  \* _timeout_counter
    streak,   \* _monitor_fail_streak
    failures, \* _reconnect_failures, which both connections count in
    keep,     \* age of _worker_last_used_ms
    decrypt   \* age of _decrypt_reconnect_at_ms, or -1

vars == <<opt, pc, step, mon, worker, counter, streak, failures, keep, decrypt>>

Older(n, cap) == IF n < cap THEN n + 1 ELSE n

-----------------------------------------------------------------------------
(* begin()                                                                 *)

(* The configuration: an atSign, a device, a manager or a policy, the size    *)
(* of the cache, and the keys.                                              *)
ConfigIsValid(o) ==
    /\ o.atsign # "" /\ o.device # ""
    /\ o.managers # {} \/ o.policy # ""
    /\ o.cacheSize \in 0 .. 64
    /\ o.keys # "absent"

(* The root domain: a host, with or without a port, or a proxy. *)
RootDomainParses(o) == o.rootDomain \notin {"host:bad", ":64", "proxy:"}

(* The keys' file: noports_keys_load_from_file decrypts what it holds with the *)
(* self encryption key in it, and gives up on the first that does not        *)
(* decrypt.  In begin() the keys have to parse, and the private ones, which   *)
(* are signed with, have to be RSA-2048.                                     *)
KeysLoad(o) == o.keys \in {"rsa2048", "rsa4096"}
KeysSign(o) == o.keys = "rsa2048"

(* What begin() does, and which failures end it: what it reads and looks up *)
(* (an atServer that is not found is looked for again with the connections), *)
ConfigStages ==
    <<[name |-> "config",      fatal |-> TRUE],
      [name |-> "root domain", fatal |-> TRUE],
      [name |-> "atServer",    fatal |-> FALSE]>>

(* the keys it signs and decrypts with,                                     *)
KeyStages ==
    <<[name |-> "keys",    fatal |-> TRUE],
      [name |-> "rsa2048", fatal |-> TRUE]>>

(* _authenticate: the monitor, then the worker,                             *)
ConnectStages ==
    <<[name |-> "monitor", fatal |-> TRUE],
      [name |-> "worker",  fatal |-> TRUE]>>

(* what the daemon publishes, which it can do without,                      *)
PublishStages ==
    <<[name |-> "signing key", fatal |-> FALSE],
      [name |-> "device info", fatal |-> FALSE]>>

(* and _startMonitor, after which notifications come.                       *)
ListenStages == <<[name |-> "listen", fatal |-> TRUE]>>

Stages == ConfigStages \o KeyStages \o ConnectStages \o PublishStages \o ListenStages

TypeOK ==
    /\ opt \in Option
    /\ pc \in {"begin", "top", "mon", "read", "down", "reboot"} /\ step \in 1 .. Len(Stages)
    /\ mon \in {"up", "cut", "silent"} /\ worker \in {"up", "dead"}
    /\ counter \in 0 .. ReadsToNoop + 1 /\ streak \in 0 .. 2 /\ failures \in 0 .. MaxFailures
    /\ keep \in 0 .. KeepAlive /\ decrypt \in -1 .. DecryptPause

Init ==
    /\ opt \in Option
    /\ pc = "begin" /\ step = 1 /\ mon = "cut" /\ worker = "dead"
    /\ counter = 0 /\ streak = 0 /\ failures = 0 /\ keep = 0 /\ decrypt = -1

BeginStep(ok) ==
    /\ pc = "begin"
    /\ LET s     == Stages[step].name
           works == /\ ok
                    /\ s = "config" => ConfigIsValid(opt)
                    /\ s = "root domain" => RootDomainParses(opt)
                    /\ s = "keys" => KeysLoad(opt)
                    /\ s = "rsa2048" => KeysSign(opt)
       IN  /\ mon' = IF s = "monitor" /\ works THEN "up" ELSE mon
           /\ worker' = IF s = "worker" /\ works THEN "up" ELSE worker
           /\ IF Stages[step].fatal /\ ~works THEN pc' = "down" /\ UNCHANGED <<step, keep>>
              ELSE IF step < Len(Stages) THEN step' = step + 1 /\ UNCHANGED <<pc, keep>>
              ELSE pc' = "top" /\ keep' = 0 /\ UNCHANGED step
    /\ UNCHANGED <<opt, counter, streak, failures, decrypt>>

(* begin() again, after stop() or a failure, perhaps with other settings:      *)
(* _freeResources first; the counters stay as they are.                      *)
BeginAgain ==
    /\ pc = "down"
    /\ pc' = "begin" /\ step' = 1 /\ mon' = "cut" /\ worker' = "dead" /\ opt' \in Option
    /\ UNCHANGED <<counter, streak, failures, keep, decrypt>>

(* stop(), between two passes. *)
Stop ==
    /\ pc = "top"
    /\ pc' = "down"
    /\ UNCHANGED <<opt, step, mon, worker, counter, streak, failures, keep, decrypt>>

(* esp_restart(), and the program from its start. *)
Reboot ==
    /\ pc = "reboot"
    /\ pc' = "begin" /\ step' = 1 /\ mon' = "cut" /\ worker' = "dead"
    /\ counter' = 0 /\ streak' = 0 /\ failures' = 0 /\ keep' = 0 /\ decrypt' = -1
    /\ UNCHANGED opt

-----------------------------------------------------------------------------
(* The connections                                                         *)

(* _reconnectWorker: the heap is waited for, but not for ever; an attempt, and *)
(* another if the atServer has moved.                                        *)
ReconnectWorker(ok) ==
    /\ worker' = IF ok THEN "up" ELSE "dead"
    /\ failures' = IF ok THEN failures ELSE Older(failures, MaxFailures)
    /\ keep' = IF ok THEN 0 ELSE keep

(* _notifyWithRetry: over the worker, or over a new one. *)
NotifyWithRetry(ok) ==
    IF worker = "up" THEN keep' = 0 /\ UNCHANGED <<worker, failures>>
    ELSE ReconnectWorker(ok)

-----------------------------------------------------------------------------
(* A pass of loop()                                                        *)

(* Mutant: a heartbeat that fails is only noted. *)
WorkerKeepAliveNoted(ok) ==
    /\ pc = "top"
    /\ pc' = "mon"
    /\ keep' = IF keep >= KeepAlive THEN 0 ELSE keep
    /\ UNCHANGED <<opt, step, mon, worker, counter, streak, failures, decrypt>>

(* The worker's heartbeat, when nothing was sent over it for a while. *)
WorkerKeepAlive(ok) ==
    /\ pc = "top"
    /\ pc' = "mon"
    /\ IF keep < KeepAlive THEN UNCHANGED <<worker, failures, keep>>
       ELSE /\ keep' = 0
            /\ worker' = IF worker = "up" \/ ok THEN "up" ELSE "dead"
            /\ failures' = IF worker = "up" \/ ok THEN failures ELSE Older(failures, MaxFailures)
    /\ UNCHANGED <<opt, step, mon, counter, streak, decrypt>>

(* _reconnectMonitor when it is due: a reboot, after too many failures, or an *)
(* attempt, after which the pass goes on only if it succeeded.               *)
ReconnectMonitor(ok) ==
    /\ pc = "mon"
    /\ IF counter <= ReadsToNoop THEN pc' = "read" /\ UNCHANGED <<mon, counter, failures>>
       ELSE IF failures >= MaxFailures THEN pc' = "reboot" /\ UNCHANGED <<mon, counter, failures>>
       ELSE /\ mon' = IF ok THEN "up" ELSE "cut"
            /\ failures' = IF ok THEN 0 ELSE failures + 1
            /\ counter' = IF ok THEN 0 ELSE ReadsToNoop + 1
            /\ pc' = IF ok THEN "read" ELSE "top"
    /\ UNCHANGED <<opt, step, worker, streak, keep, decrypt>>

(* Nothing to read, or something that cannot be parsed, which the streak of    *)
(* failures outlasts.                                                       *)
ReadNothing ==
    /\ pc = "read" /\ mon # "cut"
    /\ pc' = "top" /\ counter' = Older(counter, ReadsToNoop + 1)
    /\ \E parsed \in BOOLEAN : streak' = IF parsed THEN 0 ELSE streak
    /\ UNCHANGED <<opt, step, mon, worker, failures, keep, decrypt>>

(* The read fails for want of memory: the connections are left alone. *)
ReadWithoutMemory ==
    /\ pc = "read"
    /\ pc' = "top"
    /\ UNCHANGED <<opt, step, mon, worker, counter, streak, failures, keep, decrypt>>

(* Mutant: as long as the worker can be reconnected, so the monitor is retried. *)
AfterReadErrorRetry(ok) ==
    IF ok THEN streak' = 0 /\ UNCHANGED counter ELSE counter' = ReadsToNoop + 1 /\ streak' = streak

(* What becomes of the monitor once the worker has been reconnected, or not. *)
AfterReadError(ok) ==
    IF ok /\ streak + 1 < 3 THEN streak' = streak + 1 /\ UNCHANGED counter
    ELSE counter' = ReadsToNoop + 1 /\ streak' = IF ok THEN 0 ELSE Older(streak, 2)

(* The read fails though there is memory. *)
ReadError(ok) ==
    /\ pc = "read" /\ mon = "cut"
    /\ pc' = "top"
    /\ ReconnectWorker(ok)
    /\ AfterReadError(ok)
    /\ UNCHANGED <<opt, step, mon, decrypt>>

(* _handleDecryptFailure: the worker is reconnected, but not too often. *)
ReadUndecryptable(ok) ==
    /\ pc = "read" /\ mon = "up"
    /\ pc' = "top"
    /\ IF decrypt = -1 \/ decrypt >= DecryptPause
       THEN ReconnectWorker(ok) /\ decrypt' = 0
       ELSE UNCHANGED <<worker, failures, keep, decrypt>>
    /\ UNCHANGED <<opt, step, mon, counter, streak>>

(* A notification, in answer to which something may be sent. *)
ReadNotification(answers, ok) ==
    /\ pc = "read" /\ mon = "up"
    /\ pc' = "top" /\ counter' = 0 /\ streak' = 0
    /\ IF answers THEN NotifyWithRetry(ok) ELSE UNCHANGED <<worker, failures, keep>>
    /\ UNCHANGED <<opt, step, mon, decrypt>>

-----------------------------------------------------------------------------
(* Time and the network                                                    *)

Tick ==
    /\ pc \in {"top", "down"}
    /\ keep' = Older(keep, KeepAlive)
    /\ decrypt' = IF decrypt = -1 THEN -1 ELSE Older(decrypt, DecryptPause)
    /\ UNCHANGED <<opt, pc, step, mon, worker, counter, streak, failures>>

MonitorBreaks(how) ==
    /\ mon = "up"
    /\ mon' = how
    /\ UNCHANGED <<opt, pc, step, worker, counter, streak, failures, keep, decrypt>>

WorkerBreaks ==
    /\ worker = "up"
    /\ worker' = "dead"
    /\ UNCHANGED <<opt, pc, step, mon, counter, streak, failures, keep, decrypt>>

Pass ==
    \/ \E ok \in BOOLEAN : \/ BeginStep(ok)
                           \/ WorkerKeepAlive(ok)
                           \/ ReconnectMonitor(ok)
                           \/ ReadError(ok)
                           \/ ReadUndecryptable(ok)
                           \/ \E answers \in BOOLEAN : ReadNotification(answers, ok)
    \/ ReadNothing
    \/ ReadWithoutMemory
    \/ Reboot

Next ==
    \/ Pass
    \/ Tick
    \/ Stop
    \/ BeginAgain
    \/ \E how \in {"cut", "silent"} : MonitorBreaks(how)
    \/ WorkerBreaks

Spec == Init /\ [][Next]_vars

(* loop() is called again and again and time passes; memory is not short for  *)
(* ever, since relays end; and of endlessly many heartbeats of a worker, some *)
(* come when it can be reconnected.                                         *)
Fairness ==
    /\ WF_vars(Pass)
    /\ SF_vars(Tick)
    /\ SF_vars(ReadNothing \/ \E ok \in BOOLEAN : ReadError(ok))
    /\ SF_vars(keep >= KeepAlive /\ WorkerKeepAlive(TRUE))
FairSpec == Spec /\ Fairness

-----------------------------------------------------------------------------
(* Properties                                                              *)

Down == {"down", "begin", "reboot"}

(* A monitor that has broken, whether reads fail or merely find nothing, is    *)
(* replaced, or the device starts afresh: also when the worker, which is      *)
(* tried first, can be reconnected every time.                               *)
MonitorRecovers == mon # "up" ~> mon = "up" \/ pc \in Down

(* A worker that has broken is replaced before long, and not only when someone *)
(* is to be answered; nor is it forgotten while the monitor works.           *)
WorkerRecovers == worker = "dead" ~> worker = "up" \/ pc \in Down
=============================================================================
