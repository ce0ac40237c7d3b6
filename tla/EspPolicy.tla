------------------------------ MODULE EspPolicy ------------------------------
(***************************************************************************)
(* How the ESP32 daemon has a client checked by the policy service, in        *)
(* noports_daemon.cpp and noports_policy_limits.c.  The check spans several   *)
(* passes of loop(): a request is read, the policy service asked, the        *)
(* pending slot filled, and a later pass reads the answer or gives up.  A     *)
(* cache of decisions and a cool-down per client stand before it.            *)
(*                                                                         *)
(* Time passes between passes and, while a connection is made anew, in them;  *)
(* times are kept as ages, capped where nothing tells them apart any more.    *)
(* Whether something can be sent over the worker is up to EspDaemon.  A       *)
(* request id is fresh when no message in flight carries it.                 *)
(***************************************************************************)
EXTENDS Integers, FiniteSets

CONSTANTS PolicyAtsign, \* policy_atsign, or "" in manager mode
          Managers,     \* manager_list
          CacheSize,    \* policy_cache_size
          Note,         \* requests clients make: [who, kind]
          Allowed,      \* the clients the policy grants at first
          Ttl,          \* NOPORTS_POLICY_CACHE_TTL_MS
          CoolDown,     \* NOPORTS_POLICY_COOLDOWN_MS
          CoolSlots,    \* NOPORTS_POLICY_COOLDOWN_SLOTS
          Wait,         \* NOPORTS_POLICY_WAIT_MS
          WaitCap,      \* NOPORTS_POLICY_WAIT_CAP_MS
          MaxPass,      \* the longest that a pass blocks
          MaxInbox,     \* messages waiting for the monitor
          MaxAsked      \* requests the policy service has not dealt with

Client == {n.who : n \in Note}
Kind == {"ping", "npt"}

ASSUME EspPolicyAssumption ==
    /\ {Wait, WaitCap, MaxPass, CoolSlots, MaxInbox, MaxAsked} \subseteq Nat \ {0}
    /\ {Ttl, CoolDown} \subseteq Nat /\ Wait <= WaitCap
    /\ \A n \in Note : n.kind \in Kind

VARIABLES
    pc,       \* where the pass is, or that the daemon is down
    inbox,    \* notifications the atServer has for the monitor
    pend,     \* _policy_pending
    cache,    \* _policy_decisions
    cool,     \* _policy_cooldown
    asked,    \* requests with the policy service
    revoked,  \* for each client how long ago the policy withdrew its grant, or -1
    served    \* the request being served in this pass

vars == <<pc, inbox, pend, cache, cool, asked, revoked, served>>

Nothing == [kind |-> "none", who |-> "", id |-> 0, age |-> 0, progress |-> 0]
NoOne == [who |-> "", checked |-> FALSE]
(* From when on a client that lost its grant is not served any more: a        *)
(* decision at the end of a check, the whole pass that reads it, and the time *)
(* it is cached.                                                            *)
Late == Ttl + WaitCap + MaxPass

PolicyMode == PolicyAtsign # ""
Older(n, time, cap) == IF n + time < cap THEN n + time ELSE cap

TypeOK ==
    /\ pc \in {"top", "read", "serve", "down"}
    /\ pend.kind \in Kind \cup {"none"} /\ pend.age \in 0 .. WaitCap + MaxPass /\ pend.progress \in 0 .. Wait + 1
    /\ Cardinality(cache) <= CacheSize /\ Cardinality(cool) <= CoolSlots
    /\ Cardinality(inbox) <= MaxInbox /\ Cardinality(asked) <= MaxAsked
    /\ revoked \in [Client -> -1 .. Late + 1]

Init ==
    /\ pc = "down" /\ inbox = {} /\ asked = {}
    /\ pend = Nothing /\ cache = {} /\ cool = {} /\ served = NoOne
    /\ revoked = [c \in Client |-> IF c \in Allowed THEN -1 ELSE Late + 1]

-----------------------------------------------------------------------------
(* Time, and restarts                                                      *)

Aged(p, time) == IF p.kind = "none" THEN p
                 ELSE [p EXCEPT !.age = Older(@, time, WaitCap + MaxPass),
                                !.progress = Older(@, time, Wait + 1)]
AgedCache(es, time) == {[e EXCEPT !.age = Older(@, time, Ttl)] : e \in es}

TimePassesElsewhere(time) ==
    /\ cool' = {[c EXCEPT !.at = [k \in Kind |-> Older(@[k], time, CoolDown)]] : c \in cool}
    /\ revoked' = [c \in Client |-> IF revoked[c] = -1 THEN -1 ELSE Older(revoked[c], time, Late + 1)]

Tick ==
    /\ pc \in {"top", "down"}
    /\ TimePassesElsewhere(1) /\ cache' = AgedCache(cache, 1) /\ pend' = Aged(pend, 1)
    /\ UNCHANGED <<pc, inbox, asked, served>>

(* begin(): the cache is made anew; the pending check and the cool-down are   *)
(* what they were, or gone if the device has been restarted.                 *)
Begin(boot) ==
    /\ pc = "down"
    /\ pc' = "top" /\ cache' = {}
    /\ IF boot THEN pend' = Nothing /\ cool' = {} ELSE UNCHANGED <<pend, cool>>
    /\ UNCHANGED <<inbox, asked, revoked, served>>

(* stop(), or a reset *)
Stop ==
    /\ pc = "top"
    /\ pc' = "down"
    /\ UNCHANGED <<inbox, pend, cache, cool, asked, revoked, served>>

-----------------------------------------------------------------------------
(* noports_policy_limits.c                                                 *)

(* noports_policy_cache_lookup *)
CacheLookup(who) == {e \in cache : e.who = who /\ e.age < Ttl}

Oldest(es) == CHOOSE e \in es : \A f \in es : e.age >= f.age

(* noports_policy_cache_store: in the client's entry, a free one or the oldest. *)
CacheStore(who, yes) ==
    LET own  == {e \in cache : e.who = who}
        gone == IF own # {} THEN own
                ELSE IF Cardinality(cache) < CacheSize THEN {} ELSE {Oldest(cache)}
    IN  IF CacheSize = 0 THEN {}
        ELSE (cache \ gone) \cup {[who |-> who, yes |-> yes, age |-> 0]}

(* noports_policy_cooldown_allows: whether, and the slots it leaves.  A kind   *)
(* never asked for is as old as can be.                                      *)
CoolDownAllows(who, kind) == \A c \in cool : c.who = who => c.at[kind] >= CoolDown
CoolDownTakes(who, kind) ==
    LET own    == {c \in cool : c.who = who}
        Age(c) == IF c.at["ping"] < c.at["npt"] THEN c.at["ping"] ELSE c.at["npt"]
        idlest == CHOOSE c \in cool : \A d \in cool : Age(c) >= Age(d)
        fresh  == [who |-> who, at |-> [[k \in Kind |-> CoolDown] EXCEPT ![kind] = 0]]
    IN  IF own # {} THEN {IF c.who = who THEN [c EXCEPT !.at[kind] = 0] ELSE c : c \in cool}
        ELSE IF Cardinality(cool) < CoolSlots THEN cool \cup {fresh}
        ELSE (cool \ {idlest}) \cup {fresh}

(* Mutant: every sign of life of the policy service buys a full wait again. *)
WaitOverUncapped(p) == p.progress > Wait

(* noports_policy_wait_over *)
WaitOver(p) == p.progress > Wait \/ p.age > WaitCap

-----------------------------------------------------------------------------
(* The check with the policy service                                       *)

Ids == {r.id : r \in asked} \cup {m.id : m \in inbox}

(* _next_policy_req_id, from a seed that differs from boot to boot. *)
NextPolicyReqId == CHOOSE i \in 1 .. MaxAsked + MaxInbox + 2 : i # pend.id /\ i \notin Ids

(* _sendPolicyRpcRequest: over the worker, without a retry; when that fails   *)
(* the check is given up, without an answer to the client.                   *)
SendPolicyRpcRequest(p, sends) ==
    IF sends
    THEN /\ pend' = p
         /\ asked' = (IF Cardinality(asked) < MaxAsked THEN asked ELSE {}) \cup {[id |-> p.id, who |-> p.who]}
    ELSE pend' = Nothing /\ UNCHANGED asked

StartCheck(n, sends) ==
    SendPolicyRpcRequest([kind |-> n.kind, who |-> n.who, id |-> NextPolicyReqId, age |-> 0, progress |-> 0], sends)

Serve(who, checked) == pc' = "serve" /\ served' = [who |-> who, checked |-> checked]
Drop == pc' = "top" /\ UNCHANGED served

(* The cached decision: the request is served, or refused. *)
FromCache(n) == IF \E e \in CacheLookup(n.who) : e.yes THEN Serve(n.who, TRUE) ELSE Drop

(* _handlePing *)
HandlePing(n, sends) ==
    IF ~PolicyMode
    THEN (IF n.who \in Managers THEN Serve(n.who, FALSE) ELSE Drop) /\ UNCHANGED <<cool, pend, asked>>
    ELSE IF ~CoolDownAllows(n.who, "ping") THEN Drop /\ UNCHANGED <<cool, pend, asked>>
    ELSE /\ cool' = CoolDownTakes(n.who, "ping")
         /\ IF CacheLookup(n.who) # {} THEN FromCache(n) /\ UNCHANGED <<pend, asked>>
            ELSE Drop /\ IF pend.kind # "none" THEN UNCHANGED <<pend, asked>> ELSE StartCheck(n, sends)

(* _handleNptRequest: valid says that the envelope parses, its sessionId is a  *)
(* UUID, and its signature verifies with the sender's key, which is looked up *)
(* over the worker.  The request takes the slot of a ping that is being       *)
(* checked.                                                                 *)
HandleNptRequest(n, valid, sends) ==
    IF ~CoolDownAllows(n.who, "npt") THEN Drop /\ UNCHANGED <<cool, pend, asked>>
    ELSE /\ cool' = CoolDownTakes(n.who, "npt")
         /\ IF ~valid THEN Drop /\ UNCHANGED <<pend, asked>>
            ELSE IF ~PolicyMode
            THEN (IF n.who \in Managers THEN Serve(n.who, FALSE) ELSE Drop) /\ UNCHANGED <<pend, asked>>
            ELSE IF CacheLookup(n.who) # {} THEN FromCache(n) /\ UNCHANGED <<pend, asked>>
            ELSE Drop /\ IF pend.kind = "npt" THEN UNCHANGED <<pend, asked>> ELSE StartCheck(n, sends)

(* Mutant: the policy service's answer to another check will do. *)
AnswersPendingAny(m) == pend.kind # "none" /\ m.from = PolicyAtsign

(* The answer is the policy service's, and to the check that is pending. *)
AnswersPending(m) == pend.kind # "none" /\ m.from = PolicyAtsign /\ m.id = pend.id

(* _handlePolicyResponse *)
HandlePolicyResponse(m) ==
    IF ~AnswersPending(m) THEN Drop /\ UNCHANGED <<cache, pend>>
    ELSE IF m.kind = "ack" THEN Drop /\ pend' = [pend EXCEPT !.progress = 0] /\ UNCHANGED cache
    ELSE /\ cache' = CacheStore(pend.who, m.kind = "yes")
         /\ pend' = Nothing
         /\ IF m.kind = "yes" THEN Serve(pend.who, TRUE) ELSE Drop

-----------------------------------------------------------------------------
(* A pass of loop()                                                        *)

(* The policy service had its time: the client is denied, for as long as the  *)
(* decision is cached.  Then connections may have to be made anew, which      *)
(* takes its time: a back-off, a wait for the heap, two authentications.     *)
PolicyTimeout(time) ==
    /\ pc = "top"
    /\ pc' = "read"
    /\ LET over == pend.kind # "none" /\ WaitOver(pend)
       IN  /\ cache' = AgedCache(IF over THEN CacheStore(pend.who, FALSE) ELSE cache, time)
           /\ pend' = Aged(IF over THEN Nothing ELSE pend, time)
    /\ TimePassesElsewhere(time)
    /\ UNCHANGED <<inbox, asked, served>>

ReadNothing ==
    /\ pc = "read"
    /\ pc' = "top"
    /\ UNCHANGED <<inbox, pend, cache, cool, asked, revoked, served>>

(* _handleDecryptFailure: what was read is lost.  A check that is pending is   *)
(* sent anew, under a new id, if it was the policy service's.                *)
ReadUndecryptable(m, sends) ==
    /\ pc = "read" /\ m \in inbox
    /\ inbox' = inbox \ {m}
    /\ pc' = "top"
    /\ IF pend.kind # "none" /\ m.from = PolicyAtsign
       THEN SendPolicyRpcRequest([pend EXCEPT !.id = NextPolicyReqId, !.progress = 0], sends)
       ELSE UNCHANGED <<pend, asked>>
    /\ UNCHANGED <<cache, cool, revoked, served>>

(* _handleNotification: the policy service's, or a client's. *)
ReadNotification(m, valid, sends) ==
    /\ pc = "read" /\ m \in inbox
    /\ inbox' = inbox \ {m}
    /\ IF m.kind \notin Kind
       THEN /\ IF PolicyMode THEN HandlePolicyResponse(m) ELSE Drop /\ UNCHANGED <<cache, pend>>
            /\ UNCHANGED <<cool, asked>>
       ELSE LET n == [who |-> m.from, kind |-> m.kind]
            IN  /\ IF m.kind = "ping" THEN HandlePing(n, sends) ELSE HandleNptRequest(n, valid, sends)
                /\ UNCHANGED cache
    /\ UNCHANGED revoked

(* A ping is answered; an npt request goes on as in EspSessions. *)
ServeRequest ==
    /\ pc = "serve"
    /\ pc' = "top" /\ served' = NoOne
    /\ UNCHANGED <<inbox, pend, cache, cool, asked, revoked>>

-----------------------------------------------------------------------------
(* Clients and the policy service                                          *)

Arrives(m) ==
    /\ Cardinality(inbox) < MaxInbox /\ pc = "top"
    /\ inbox' = inbox \cup {m}
    /\ UNCHANGED <<pc, pend, cache, cool, revoked, served>>

ClientAsks(n) == Arrives([from |-> n.who, kind |-> n.kind, id |-> 0]) /\ UNCHANGED asked

(* Another atSign's notification that looks like an answer. *)
OtherAnswers(c) ==
    /\ c # PolicyAtsign /\ pend.kind # "none"
    /\ Arrives([from |-> c, kind |-> "yes", id |-> pend.id]) /\ UNCHANGED asked

PolicyAcks(r) == Arrives([from |-> PolicyAtsign, kind |-> "ack", id |-> r.id]) /\ UNCHANGED asked

PolicyAnswers(r) ==
    /\ Arrives([from |-> PolicyAtsign, kind |-> IF revoked[r.who] = -1 THEN "yes" ELSE "no", id |-> r.id])
    /\ asked' = asked \ {r}

PolicyRevokes(c) ==
    /\ revoked[c] = -1 /\ pc = "top"
    /\ revoked' = [revoked EXCEPT ![c] = 0]
    /\ UNCHANGED <<pc, inbox, pend, cache, cool, asked, served>>

Pass ==
    \/ \E time \in 0 .. MaxPass : PolicyTimeout(time)
    \/ ReadNothing
    \/ \E m \in inbox, sends \in BOOLEAN : \/ ReadUndecryptable(m, sends)
                                           \/ \E valid \in BOOLEAN : ReadNotification(m, valid, sends)
    \/ ServeRequest

Next ==
    \/ Pass
    \/ Tick
    \/ Stop
    \/ \E boot \in BOOLEAN : Begin(boot)
    \/ \E n \in Note : ClientAsks(n)
    \/ \E c \in Client : OtherAnswers(c) \/ PolicyRevokes(c)
    \/ \E r \in asked : PolicyAcks(r) \/ PolicyAnswers(r)

Spec == Init /\ [][Next]_vars

(* loop() is called again and again, and time passes. *)
Fairness == WF_vars(Pass) /\ SF_vars(Tick)
FairSpec == Spec /\ Fairness

-----------------------------------------------------------------------------
(* Properties                                                              *)

(* A client is served on the policy service's word only if that had granted it *)
(* access not long ago: no answer to another check, answer of another atSign, *)
(* answer to a request given up, re-sent or overtaken, decision cached under   *)
(* another client's name, or check that outlived a restart, lets in a client   *)
(* the policy never granted or one it withdrew from a while back.            *)
RevocationTakesEffect == served.checked => revoked[served.who] <= Late

(* The one slot for checks comes free again, however the policy service        *)
(* answers and whatever cannot be decrypted.                                 *)
CheckEnds == pend.kind # "none" ~> pend.kind = "none" \/ pc = "down"
=============================================================================
