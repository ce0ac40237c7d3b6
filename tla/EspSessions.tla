----------------------------- MODULE EspSessions -----------------------------
(***************************************************************************)
(* The sessions of the ESP32 daemon: the relay slots its requests are given, *)
(* the FreeRTOS tasks that work in them, and the re-checks of the signing     *)
(* keys its clients' sessions were signed with (noports_daemon.cpp,           *)
(* noports_client_keys.cpp and the start, stop and state of                  *)
(* noports_relay.cpp; what a relay task does while it runs is in EspRelay).   *)
(*                                                                         *)
(* The daemon runs in the application's loop.  A relay task has its core and  *)
(* a higher priority, so it is past its first look at the heap before         *)
(* noports_relay_start returns; after that it works at any time.             *)
(***************************************************************************)
EXTENDS EspRequests

CONSTANTS Slots,        \* _max_relays
          Key,          \* clients' signing keys (URIs)
          Advert,       \* the record published under each
          Request,      \* the requests clients send, any of them again and again
          MaxRequests,  \* how many of them get as far as a slot
          MaxSkip,      \* NOPORTS_KEY_CHECK_MAX_SKIP
          Moves         \* where a key may go: triples of a key, from and to

Slot == 1 .. Slots

ASSUME EspSessionsAssumption == {Slots, MaxSkip} \subseteq Nat \ {0} /\ MaxRequests \in Nat
ASSUME KeyAssumption == "" \notin Key /\ \A q \in Request : q.enroll.key \in Key
(* A key that has been withdrawn stays so, be it deleted after it was revoked. *)
ASSUME WithdrawnAssumption == \A m \in Moves : m[2] \in {"r", "d"} => m[3] \in {"r", "d"}

VARIABLES
    pc,       \* where the pass of loop() is, or "down" after stop()
    req,      \* the request in hand, with the key found for it and its slot
    taken,    \* requests that got as far as a slot
    relays,   \* _relays: state, task_handle (0 is NULL), should_run, session id and
              \* how to authenticate
    task,     \* the relay task of each request that got as far as a slot: its slot, where
              \* it is, and the key that its session was verified against, or ""
    keys,     \* _client_keys
    where,    \* where each client key is published: "a", "r", "d" or nowhere
    shared    \* the tasks that have had to share their slot with another

vars == <<pc, req, taken, relays, task, keys, where, shared>>

Tasks == 1 .. MaxRequests

NoQuery == [id |-> ""]
NoRequest == [q |-> NoQuery, key |-> "", slot |-> 0, auth |-> "none"]
NoKey == [key |-> "", due |-> FALSE, ending |-> FALSE, backoff |-> 0, skip |-> 0]
Idle == [state |-> "idle", handle |-> 0, run |-> FALSE, id |-> "", auth |-> "none"]
NoTask == [slot |-> 0, at |-> "none", signer |-> ""]

MaybeKey == Key \cup {""}
Auth == {"none", "escr", "string"}
RequestState == [q : Request \cup {NoQuery}, key : MaybeKey, slot : 0 .. Slots, auth : Auth]
RelayState ==
    [state : {"idle", "connecting", "authenticating", "running", "stopped", "error"},
     handle : 0 .. MaxRequests, run : BOOLEAN, id : {q.id : q \in Request} \cup {""}, auth : Auth]
TaskState == [slot : Slot, at : {"connect", "auth", "loop", "teardown"}, signer : MaybeKey]
KeyState == [key : MaybeKey, due : BOOLEAN, ending : BOOLEAN,
             backoff : 0 .. MaxSkip, skip : 0 .. MaxSkip]

TypeOK ==
    /\ pc \in {"top", "check", "read", "find", "start", "down"}
    /\ req \in RequestState /\ taken \in 0 .. MaxRequests /\ shared \subseteq Tasks
    /\ relays \in [Slot -> RelayState] /\ keys \in [Slot -> KeyState]
    /\ task \in [Tasks -> TaskState \cup {NoTask}]
    /\ where \in [Key -> {"a", "r", "d", "gone"}]

Init ==
    /\ pc = "top" /\ req = NoRequest /\ taken = 0
    /\ relays = [i \in Slot |-> Idle] /\ task = [n \in Tasks |-> NoTask]
    /\ keys = [i \in Slot |-> NoKey]
    /\ where = [k \in Key |-> "a"]
    /\ shared = {}

-----------------------------------------------------------------------------
(* Relay tasks.  A task writes to its slot, be it still its own or not.       *)

(* The task goes on, at at, having set its slot's state. *)
GoesOn(n, state, at) ==
    /\ relays' = [relays EXCEPT ![task[n].slot].state = state]
    /\ task' = [task EXCEPT ![n].at = at]
    /\ UNCHANGED <<pc, req, taken, keys, where, shared>>

TaskConnects(n, ok) ==
    /\ task[n].at = "connect"
    /\ LET auth == relays[task[n].slot].auth
       IN  \/ ~ok /\ GoesOn(n, "error", "teardown")
           \/ ok /\ auth = "none" /\ GoesOn(n, "running", "loop")
           \/ ok /\ auth # "none" /\ GoesOn(n, "authenticating", "auth")

(* srvd answers only escr. *)
TaskAuthenticates(n, ok) ==
    /\ task[n].at = "auth"
    /\ \/ ok /\ GoesOn(n, "running", "loop")
       \/ ~ok /\ relays[task[n].slot].auth = "escr" /\ GoesOn(n, "error", "teardown")

(* The loop ends when told to, or for reasons of its own: its client has gone, *)
(* or nothing has happened for too long.                                    *)
TaskLeavesLoop(n) ==
    /\ task[n].at = "loop"
    /\ GoesOn(n, relays[task[n].slot].state, "teardown")

(* The teardown: what the slot's relay authenticates with is freed, and the    *)
(* slot is told that its task is gone.                                      *)
TaskEnds(n) ==
    /\ task[n].at = "teardown"
    /\ relays' = [relays EXCEPT ![task[n].slot] =
                      [@ EXCEPT !.state = "stopped", !.handle = 0, !.auth = "none"]]
    /\ task' = [task EXCEPT ![n] = NoTask]
    /\ shared' = shared \ {n}
    /\ UNCHANGED <<pc, req, taken, keys, where>>

-----------------------------------------------------------------------------
(* Slots                                                                   *)

(* Mutant: a relay runs once it is through to srvd. *)
IsRunningOnceUp(r) == r.state = "running"

(* noports_relay_is_running *)
IsRunning(r) == r.state \in {"running", "connecting", "authenticating"}

(* What noports_relay_is_running does to a relay whose task ended at its first *)
(* look at the heap, its handle left behind: the kernel may report the task    *)
(* deleted, or, its memory freed since, anything.                            *)
Reset(r, deleted) ==
    IF r.handle # 0 /\ task[r.handle].at = "none" /\ deleted
    THEN [r EXCEPT !.state = "stopped", !.handle = 0] ELSE r

(* _findFreeRelaySlot: the first, or 0 *)
FindFreeRelaySlot(rs) ==
    LET free == {i \in Slot : ~IsRunning(rs[i]) /\ rs[i].state \notin {"connecting", "authenticating"}}
    IN  IF free = {} THEN 0 ELSE CHOOSE i \in free : \A j \in free : i <= j

(* _cleanupFinishedRelays, a slot's relay, all but should_run, and its key *)
Finished(r) == r.state \in {"stopped", "error"} /\ r.handle = 0
CleanedRelay(r) == IF Finished(r) THEN [Idle EXCEPT !.run = r.run] ELSE r
CleanedKey(r, k) == IF Finished(r) THEN NoKey ELSE k

-----------------------------------------------------------------------------
(* Checking clients' keys                                                  *)

(* Mutant: the rounds to skip are not counted down. *)
DueNotCountedDown(k) == [k EXCEPT !.due = k.key # "" /\ ~k.ending /\ k.skip = 0]

(* One round of marking: a key that could not be checked is skipped for as     *)
(* many rounds as its backoff says.                                         *)
Due(k) == [k EXCEPT !.due = k.key # "" /\ ~k.ending /\ k.skip = 0,
                    !.skip = IF k.skip > 0 THEN k.skip - 1 ELSE 0]

(* The top of loop(): finished relays, and, when the interval is over, a round. *)
LoopTop(over) ==
    /\ pc = "top"
    /\ relays' = [i \in Slot |-> CleanedRelay(relays[i])]
    /\ keys' = [i \in Slot |-> LET k == CleanedKey(relays[i], keys[i])
                               IN  IF over THEN Due(k) ELSE k]
    /\ pc' = IF \E i \in Slot : keys'[i].due THEN "check" ELSE "read"
    /\ UNCHANGED <<req, taken, task, where, shared>>

(* _lookup_at, of a key that is at at: the atServer's answer, or none. *)
LookupAt(at, answer) ==
    IF answer # "ok" THEN answer ELSE IF at = "a" THEN "found" ELSE "not_found"

(* Mutant: a key that is nowhere to be found is taken for withdrawn. *)
CheckKeyMissingIsDeleted(at, kept, finds, second, located) ==
    LET first == LookupAt(at, kept)
        found == IF first = "not_served" /\ finds THEN LookupAt(at, second) ELSE first
    IN  IF found = "found" THEN "published"
        ELSE IF found # "not_found" \/ ~located THEN "unknown"
        ELSE IF at = "r" THEN "revoked" ELSE "deleted"

(* _checkKey: at the address kept with the key, or at the one the atDirectory  *)
(* gives when nothing is kept or served there; and where the key has gone, if *)
(* the budget allows and both of the lookups for that are answered.          *)
CheckKey(at, kept, finds, second, located) ==
    LET first == LookupAt(at, kept)
        found == IF first = "not_served" /\ finds THEN LookupAt(at, second) ELSE first
    IN  IF found = "found" THEN "published"
        ELSE IF found # "not_found" \/ ~located THEN "unknown"
        ELSE CASE at = "r" -> "revoked" [] at = "d" -> "deleted" [] OTHER -> "missing"

NextBackoff(b) == IF b = 0 THEN 1 ELSE IF b * 2 > MaxSkip THEN MaxSkip ELSE b * 2

(* What the check of a key makes of a session signed with it *)
Checked(k, found) ==
    LET backoff == IF found = "unknown" THEN NextBackoff(k.backoff) ELSE 0
    IN  [k EXCEPT !.due = FALSE, !.backoff = backoff, !.skip = backoff,
                  !.ending = @ \/ found \in {"revoked", "deleted"}]

FirstDue == CHOOSE i \in Slot : keys[i].due /\ \A j \in Slot : keys[j].due => i <= j

(* The sessions a checked key has signed. *)
SignedWith(i) == {j \in Slot : keys[j].key = keys[i].key}

(* _checkClientKeys after the marking: one key a pass, for all its sessions. *)
CheckClientKeys(kept, finds, second, located) ==
    /\ pc = "check" /\ pc' = "read"
    /\ LET found == CheckKey(where[keys[FirstDue].key], kept, finds, second, located)
           now   == [j \in SignedWith(FirstDue) |-> Checked(keys[j], found)]
       IN  /\ keys' = [j \in Slot |-> IF j \in DOMAIN now THEN now[j]
                                      ELSE keys[j]]
           /\ relays' = [j \in Slot |-> IF j \in DOMAIN now /\ now[j].ending /\ ~keys[j].ending
                                        THEN [relays[j] EXCEPT !.run = FALSE] ELSE relays[j]]
    /\ UNCHANGED <<req, taken, task, where, shared>>

-----------------------------------------------------------------------------
(* Requests                                                                *)

ReadNothing ==
    /\ pc = "read" /\ pc' = "top"
    /\ UNCHANGED <<req, taken, relays, task, keys, where, shared>>

(* A request that its policy, or the lack of one, allows: its envelope, whether *)
(* a session with its id is being watched, and its enrollment signature, with  *)
(* the lookup of the key that made it.                                       *)
ReadRequest(q, fetched, https, own) ==
    /\ pc = "read" /\ taken < MaxRequests
    /\ LET k       == q.enroll.key
           At(a)   == IF a # "ok" THEN a ELSE IF where[k] = "a" THEN "found" ELSE "not_found"
           fields  == EnrollmentFields(q)
           verdict == IF fields # "lookup" THEN fields
                      ELSE EnrollmentVerdict(q, LookupSigningKey(At(https), At(own)), Advert[k])
           check   == CheckClientSigningKey(q, verdict)
           ok      == /\ VerifyEnvelopeSignature(q, fetched) /\ VerifyEnvelopeContents(q)
                      /\ \A i \in Slot : keys[i].key # "" => relays[i].id # q.id
                      /\ check.ok
       IN  IF ok /\ Permitted(q)
           THEN /\ pc' = "find" /\ taken' = taken + 1
                /\ req' = [q |-> q, key |-> check.key, slot |-> 0, auth |-> "none"]
           ELSE pc' = "top" /\ UNCHANGED <<req, taken>>
    /\ UNCHANGED <<relays, task, keys, where, shared>>

(* A slot, the relay's authentication and the session's keys, after which the   *)
(* client is told that it is connected.  Any failure is the request's end.   *)
FindSlot(deleted, signs, memory) ==
    /\ pc = "find"
    /\ LET rs == [i \in Slot |-> Reset(relays[i], deleted)]
           slot == FindFreeRelaySlot(rs)
           \* slots past the one that is found are not looked at
       IN  /\ relays' = [i \in Slot |-> IF slot = 0 \/ i <= slot THEN rs[i] ELSE relays[i]]
           /\ IF slot # 0 /\ SessionKeys(req.q, memory)
              THEN pc' = "start" /\ req' = [req EXCEPT !.slot = slot, !.auth = RelayAuth(req.q, signs)]
              ELSE pc' = "top" /\ req' = NoRequest
    /\ UNCHANGED <<taken, task, keys, where, shared>>

(* Mutant: a slot that has a key keeps it. *)
StoredKeyIfNone(k, key) == IF key = "" \/ k.key # "" THEN k ELSE [NoKey EXCEPT !.key = key]

(* The slot's key after the relay has started: a session that is not watched    *)
(* leaves whatever was there.                                               *)
StoredKey(k, key) == IF key = "" THEN k ELSE [NoKey EXCEPT !.key = key]

TasksIn(i) == {n \in Tasks : task[n].slot = i}

(* noports_relay_start, and the key stored once it has started: without memory  *)
(* for the task or the decrypter it fails, with too little for its work the    *)
(* task ends at once, leaving its handle.  A task that is still in the slot,   *)
(* tearing down after an error, goes on with memory that is now another's too. *)
StartRelay(outcome) ==
    /\ pc = "start" /\ pc' = "top" /\ req' = NoRequest
    /\ LET i == req.slot
           r == [relays[i] EXCEPT !.state = "idle", !.run = TRUE, !.id = req.q.id, !.auth = req.auth]
           new == [slot |-> i, at |-> "connect", signer |-> req.key]
       IN  /\ relays' = [relays EXCEPT ![i] =
                  CASE outcome = "no task" -> r
                    [] outcome = "no heap" -> [r EXCEPT !.state = "error", !.handle = taken]
                    [] outcome = "runs"    -> [r EXCEPT !.state = "connecting", !.handle = taken]]
           /\ task' = IF outcome = "runs" THEN [task EXCEPT ![taken] = new] ELSE task
           /\ keys' = IF outcome = "no task" THEN keys
                      ELSE [keys EXCEPT ![i] = StoredKey(@, req.key)]
           /\ shared' = IF TasksIn(i) = {} THEN shared
                        ELSE shared \cup TasksIn(i) \cup (IF outcome = "runs" THEN {taken} ELSE {})
    /\ UNCHANGED <<taken, where>>

-----------------------------------------------------------------------------
(* stop() and begin(), which the application calls between two passes *)

Stop(deleted) ==
    /\ pc = "top" /\ pc' = "down"
    /\ relays' = [i \in Slot |-> LET r == Reset(relays[i], deleted)
                                 IN  IF IsRunning(r) THEN [r EXCEPT !.run = FALSE] ELSE r]
    /\ keys' = [i \in Slot |-> NoKey]
    /\ UNCHANGED <<req, taken, task, where, shared>>

Begin ==
    /\ pc = "down" /\ pc' = "top"
    /\ UNCHANGED <<req, taken, relays, task, keys, where, shared>>

(* Two tasks in a slot free the same memory, and use what the other has freed: *)
(* the device may crash, and the application begins again.                  *)
Crash ==
    /\ shared # {}
    /\ pc' = "top" /\ req' = NoRequest
    /\ relays' = [i \in Slot |-> Idle] /\ keys' = [i \in Slot |-> NoKey]
    /\ task' = [n \in Tasks |-> NoTask] /\ shared' = {}
    /\ UNCHANGED <<taken, where>>

(* An enrollment is revoked or deleted, moving its key or, in between, having *)
(* it nowhere.                                                              *)
KeyMoves(k, to) ==
    /\ <<k, where[k], to>> \in Moves
    /\ where' = [where EXCEPT ![k] = to]
    /\ UNCHANGED <<pc, req, taken, relays, task, keys, shared>>

-----------------------------------------------------------------------------

Answer == {"ok", "not_served", "failed"}

Daemon ==
    \/ \E over \in BOOLEAN : LoopTop(over)
    \/ \E kept, second \in Answer, finds, located \in BOOLEAN : CheckClientKeys(kept, finds, second, located)
    \/ ReadNothing
    \/ \E q \in Request, fetched \in BOOLEAN, https, own \in Answer : ReadRequest(q, fetched, https, own)
    \/ \E deleted, signs, memory \in BOOLEAN : FindSlot(deleted, signs, memory)
    \/ \E outcome \in {"no task", "no heap", "runs"} : StartRelay(outcome)

Task(n) ==
    \/ \E ok \in BOOLEAN : TaskConnects(n, ok) \/ TaskAuthenticates(n, ok)
    \/ TaskLeavesLoop(n)
    \/ TaskEnds(n)

Next ==
    \/ Daemon
    \/ \E n \in Tasks : Task(n)
    \/ \E deleted \in BOOLEAN : Stop(deleted)
    \/ Begin
    \/ Crash
    \/ \E k \in Key, to \in {"gone", "r", "d"} : KeyMoves(k, to)

Spec == Init /\ [][Next]_vars

(* The loop goes round while the daemon is up; its interval passes, and is      *)
(* longer than a pass; an atServer that is asked again and again answers in    *)
(* the end; the tasks get on with it, though a relay that is not told to stop  *)
(* may run for ever.                                                        *)
Fairness ==
    /\ WF_vars(Daemon)
    /\ \A over \in BOOLEAN : SF_vars(LoopTop(over))
    /\ \A k \in Key : SF_vars(/\ pc = "check" /\ keys[FirstDue].key = k
                              /\ CheckClientKeys("ok", TRUE, "ok", TRUE))
    /\ \A n \in Tasks : WF_vars(/\ task[n].at = "loop" => ~relays[task[n].slot].run
                                /\ Task(n))
FairSpec == Spec /\ Fairness

-----------------------------------------------------------------------------
(* Properties                                                              *)

Live(n) == task[n].at \in {"connect", "auth", "loop"}

(* While the daemon is up, a session whose enrollment signature was verified    *)
(* is watched under the very key that signed it, until the daemon tells it to  *)
(* end: whatever its slot was used for before, and whatever becomes of other   *)
(* slots.  The sessions this is not said of are those that have had to share   *)
(* their slot with another's task: that of an earlier relay, which the daemon  *)
(* took for finished when it was in error but had yet to tear down, will say   *)
(* the slot is free, and the daemon then forgets the new session's key.      *)
SignedIsWatched ==
    \A n \in Tasks \ shared :
        Live(n) /\ task[n].signer # "" /\ relays[task[n].slot].run =>
            keys[task[n].slot].key = task[n].signer

(* A signed session is told to end by the re-checks only when the key that      *)
(* signed it has been withdrawn, not for a key that is only missing, cannot be *)
(* looked up, or was another session's; the same sessions are excepted.      *)
SignedEndsOnlyIfWithdrawn ==
    \A n \in Tasks \ shared :
        Live(n) /\ task[n].signer # "" /\ keys[task[n].slot].ending =>
            where[task[n].signer] \in {"r", "d"}

(* Every session signed with a key that has been withdrawn ends, however many    *)
(* share the key and however long its atServer could not be asked; unless the  *)
(* daemon goes down, which ends it as well, or its slot is given away.       *)
WithdrawnEndsSession ==
    \A n \in Tasks :
        (Live(n) /\ task[n].signer # "" /\ where[task[n].signer] \in {"r", "d"})
            ~> (~Live(n) \/ n \in shared)

(* After stop() no session lives on, one that is still connecting included;     *)
(* again unless it has had to share its slot.                                *)
StopEndsSessions ==
    \A n \in Tasks : (pc = "down" /\ Live(n)) ~> (~Live(n) \/ n \in shared)

=============================================================================
