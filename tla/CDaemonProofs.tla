---------------------------- MODULE CDaemonProofs ----------------------------
(***************************************************************************)
(* Proofs about CDaemon for any command lines, clients and notifications,   *)
(* any sizes of cache and throttle and any time-outs.                       *)
(***************************************************************************)
EXTENDS CDaemon, FiniteSetTheorems, TLAPS

-----------------------------------------------------------------------------
(* The inductive invariant *)

HasPolicy == opt.policy # ""
Waiting == pc \in {"wait", "waitread"}

CheckState == [note : Note \cup {Nobody}, id : Nat, age : 0 .. WaitCap,
               progress : 0 .. WaitCap, slept : BOOLEAN]
Entry == [from : Client, yes : BOOLEAN, age : Nat]

Typed ==
    /\ opt \in Option /\ ids \in Nat
    /\ revoked \in [Client -> -1 .. Late]
    /\ check \in CheckState
    /\ cache \subseteq Entry
    /\ asked \subseteq [id : Nat, who : Client]

\* The daemon waits for the answer to one request, never longer than
\* POLICY_WAIT_CAP_MS: a read that sleeps is started only before the deadline.
OneCheck ==
    Waiting => /\ check.note \in Note /\ check.id \in 1 .. ids /\ opt.policy # ""
               /\ pc = "waitread" /\ ~check.slept => check.age < WaitCap

\* A request at the policy service was made under an id of its own.
AskedOnce ==
    \A r \in asked :
        /\ r.id \in 1 .. ids /\ opt.policy # ""
        /\ Waiting /\ r.id = check.id => r.who = check.note.from

\* The inbox holds notifications of clients and answers to requests.
Inbox ==
    \A n \in inbox :
        n \in Sent[opt] \/ (opt.policy # "" /\ n.from = opt.policy /\ n.id \in 1 .. ids /\ n.key \in Responses)

\* The answer that is waited for was given since the check began ...
YesIsRecent ==
    \A n \in inbox :
        Waiting /\ n.from = opt.policy /\ n.key = "yes" /\ n.id = check.id =>
            revoked[check.note.from] <= check.age

\* ... so that a cached grant is younger than any revocation, but for the wait.
CacheIsRecent ==
    \A e \in cache : e.yes /\ e.age <= Ttl => revoked[e.from] <= e.age + WaitCap

ServedInTime ==
    pc = "handle" /\ served.checked => served.note \in Note /\ revoked[served.note.from] < Late

IInv ==
    /\ Typed
    /\ OneCheck
    /\ AskedOnce
    /\ Inbox
    /\ YesIsRecent
    /\ CacheIsRecent
    /\ ServedInTime

-----------------------------------------------------------------------------
(* Every step keeps it *)

\* The types of the constants, as the steps below use them.
LEMMA Constants ==
    /\ Ttl \in Nat /\ Ttl >= 1 /\ Wait \in Nat /\ Wait >= 1 /\ WaitCap \in Nat /\ WaitCap >= 1
    /\ Late = Ttl + WaitCap /\ Late \in Nat
    /\ \A n \in Note : n.from \in Client
    /\ IsFiniteSet(Note) /\ \A o \in Option : Sent[o] \subseteq Note
  BY LimitAssumption DEF Late, Client

\* A check that has ended, or not begun, is nobody's.
LEMMA IdleTyped == Idle \in CheckState /\ Idle.age = 0 /\ Idle.slept = FALSE
  BY Constants DEF Idle, CheckState

\* Steps that have nothing to do with the gate: what it knows is unchanged and
\* nobody is served on its word.
LEMMA GateUntouched ==
    ASSUME IInv, UNCHANGED <<opt, cache, check, ids, asked, revoked>>, inbox' \in SUBSET inbox,
           Waiting' => Waiting, pc' = "waitread" => pc = "waitread",
           pc' = "handle" /\ served'.checked => pc = "handle" /\ served' = served
    PROVE  IInv'
  <1>1. Typed'
    BY DEF IInv, Typed
  <1>2. OneCheck' /\ AskedOnce'
    BY DEF IInv, OneCheck, AskedOnce
  <1>3. Inbox' /\ YesIsRecent'
    BY DEF IInv, Inbox, YesIsRecent
  <1>4. CacheIsRecent'
    BY DEF IInv, CacheIsRecent
  <1>5. ServedInTime'
    BY DEF IInv, ServedInTime
  <1>. QED  BY <1>1, <1>2, <1>3, <1>4, <1>5 DEF IInv

\* The steps of the main loop that do not read a notification.
LEMMA LoopKeeps ==
    ASSUME IInv,
           \/ \E ok \in BOOLEAN : Startup(ok) \/ ReconnectMonitor(ok)
           \/ \E set \in BOOLEAN : LoopTop(set)
           \/ ReadNothing \/ WaitReadNothing \/ HandleNotification \/ ExitHandler
           \/ \E how \in {"cut", "silent"} : MonitorBreaks(how)
    PROVE  IInv'
  <1>1. ASSUME NEW ok \in BOOLEAN, Startup(ok) \/ ReconnectMonitor(ok) PROVE IInv'
    BY <1>1, GateUntouched DEF Startup, ReconnectMonitor, gate, Waiting
  <1>2. CASE (\E set \in BOOLEAN : LoopTop(set)) \/ ReadNothing \/ WaitReadNothing
    BY <1>2, GateUntouched DEF LoopTop, ReadNothing, WaitReadNothing, gate, Waiting
  <1>3. CASE HandleNotification
    BY <1>3, GateUntouched DEF HandleNotification, gate, Waiting
  <1>4. CASE ExitHandler
    BY <1>4, GateUntouched DEF ExitHandler, gate, Waiting
  <1>5. ASSUME NEW how \in {"cut", "silent"}, MonitorBreaks(how) PROVE IInv'
    BY <1>5, GateUntouched DEF MonitorBreaks, gate, Waiting
  <1>. QED  BY <1>1, <1>2, <1>3, <1>4, <1>5

\* What is not the policy service's traffic was sent by others, or is a session
\* request of its own.
LEMMA NotThePolicys ==
    ASSUME IInv, NEW n \in inbox, ~IsPolicyServiceMessage(n)
    PROVE  n \in Sent[opt] /\ n \in Note
  BY Constants DEF IInv, Typed, Inbox, IsPolicyServiceMessage, Responses

\* The gate asks the policy service about the sender of n.
LEMMA AskKeeps ==
    ASSUME IInv, NEW n \in Note, pc = "read", HasPolicy,
           ids' = ids + 1, asked' = asked \cup {[id |-> ids + 1, who |-> n.from]},
           check' = [note |-> n, id |-> ids + 1, age |-> 0, progress |-> 0, slept |-> FALSE],
           pc' = "wait", inbox' \in SUBSET inbox, UNCHANGED <<opt, revoked, cache, served>>
    PROVE  IInv'
  <1>1. ids \in Nat /\ ids' \in Nat /\ ids' = ids + 1 /\ ids + 1 \in 1 .. ids'
    <2>1. ids \in Nat
      BY DEF IInv, Typed
    <2>. QED  BY <2>1
  <1>2. check' \in CheckState /\ check'.note = n /\ check'.id = ids + 1 /\ check'.age = 0
    <2>1. 0 \in 0 .. WaitCap
      BY Constants
    <2>. QED  BY <1>1, <2>1 DEF CheckState
  <1>3. n.from \in Client
    BY Constants
  <1>. DEFINE q == [id |-> ids + 1, who |-> n.from]
  <1>4. /\ asked' = asked \cup {q} /\ q \in [id : Nat, who : Client]
        /\ q.id = ids + 1 /\ q.who = n.from
    BY <1>1, <1>3
  <1>. HIDE DEF q
  <1>5. Typed'
    BY <1>1, <1>2, <1>4 DEF IInv, Typed
  <1>6. OneCheck'
    BY <1>1, <1>2 DEF OneCheck, Waiting, HasPolicy
  <1>7. AskedOnce'
    <2>1. ASSUME NEW r \in asked'
          PROVE  r.id \in 1 .. ids' /\ (r.id = ids + 1 => r.who = n.from)
      <3>1. CASE r \in asked
        <4>1. r.id \in 1 .. ids
          BY <3>1 DEF IInv, AskedOnce
        <4>2. r.id \in 1 .. ids' /\ r.id # ids + 1
          BY <1>1, <4>1
        <4>. QED  BY <4>1, <4>2
      <3>2. CASE r = q
        BY <1>1, <1>4, <3>2
      <3>. QED  BY <1>4, <3>1, <3>2
    <2>. QED  BY <1>2, <2>1 DEF AskedOnce, HasPolicy
  <1>8. Inbox' /\ YesIsRecent'
    <2>1. \A k : k \in 1 .. ids => k \in 1 .. ids' /\ k # ids + 1
      BY <1>1
    <2>2. Inbox'
      BY <2>1 DEF IInv, Inbox
    <2>3. ASSUME NEW m \in inbox, m.from = opt.policy, m.key = "yes", m.id = ids + 1 PROVE FALSE
      <3>1. CASE m \in Sent[opt]
        BY <2>3, <3>1, AnswersAssumption DEF IInv, Typed, Responses, HasPolicy
      <3>2. CASE m.id \in 1 .. ids
        BY <2>1, <2>3, <3>2
      <3>. QED  BY <3>1, <3>2 DEF IInv, Inbox
    <2>. QED  BY <1>2, <2>2, <2>3 DEF YesIsRecent
  <1>9. CacheIsRecent' /\ ServedInTime'
    BY DEF IInv, CacheIsRecent, ServedInTime
  <1>. QED  BY <1>5, <1>6, <1>7, <1>8, <1>9 DEF IInv

\* Whatever the gate makes of a notification.
LEMMA ReadNotificationKeeps ==
    ASSUME IInv, NEW n \in inbox, NEW sent \in BOOLEAN, ReadNotification(n, sent)
    PROVE  IInv'
  <1>0. /\ pc = "read" /\ ~Waiting /\ inbox' \in SUBSET inbox /\ UNCHANGED <<opt, revoked>>
    BY DEF ReadNotification, Waiting
  <1>1. CASE Drop
    BY <1>0, <1>1, GateUntouched DEF Drop, gate, Waiting
  <1>2. CASE Handle(n, FALSE) /\ UNCHANGED gate
    <2>1. pc' = "handle" /\ served'.checked = FALSE
      BY <1>2 DEF Handle
    <2>. QED  BY <1>0, <1>2, <2>1, GateUntouched DEF gate, Waiting
  <1>3. CASE /\ ~IsPolicyServiceMessage(n) /\ Handle(n, TRUE) /\ UNCHANGED gate
             /\ \E e \in CacheLookup(n.from) : e.yes
    <2>1. PICK e \in cache : e.from = n.from /\ e.age < Ttl /\ e.yes
      BY <1>3 DEF CacheLookup
    <2>2. n \in Note
      BY <1>3, NotThePolicys
    <2>3. revoked[n.from] <= e.age + WaitCap /\ e.age \in Nat /\ revoked[n.from] \in Int
      <3>1. e \in Entry /\ revoked \in [Client -> -1 .. Late]
        BY DEF IInv, Typed
      <3>. QED  BY <2>1, <2>2, <3>1, Constants DEF IInv, CacheIsRecent, Entry
    <2>4. revoked[n.from] < Late
      BY <2>1, <2>3, Constants
    <2>5. pc' = "handle" /\ served'.note = n
      BY <1>3 DEF Handle
    <2>6. UNCHANGED <<cache, check, ids, asked>>
      BY <1>3 DEF gate
    <2>7. ServedInTime'
      BY <1>0, <2>2, <2>4, <2>5 DEF ServedInTime
    <2>8. Typed' /\ OneCheck' /\ AskedOnce'
      BY <1>0, <2>5, <2>6 DEF IInv, Typed, OneCheck, AskedOnce, Waiting
    <2>9. Inbox' /\ YesIsRecent' /\ CacheIsRecent'
      BY <1>0, <2>5, <2>6 DEF IInv, Inbox, YesIsRecent, CacheIsRecent, Waiting
    <2>. QED  BY <2>7, <2>8, <2>9 DEF IInv
  <1>4. CASE ~IsPolicyServiceMessage(n) /\ opt.policy # "" /\ UNCHANGED <<cache, served>>
             /\ ids' = ids + 1 /\ asked' = asked \cup {[id |-> ids + 1, who |-> n.from]}
             /\ check' = [Idle EXCEPT !.note = n, !.id = ids + 1] /\ pc' = "wait"
    <2>1. check' = [note |-> n, id |-> ids + 1, age |-> 0, progress |-> 0, slept |-> FALSE]
      BY <1>4 DEF Idle
    <2>2. n \in Note /\ HasPolicy
      BY <1>4, NotThePolicys DEF HasPolicy
    <2>. QED  BY <1>0, <1>4, <2>1, <2>2, AskKeeps
  <1>5. CASE UNCHANGED <<cache, check, ids, asked, served>> /\ pc' = "loop"
    BY <1>0, <1>5, GateUntouched DEF Waiting
  <1>6. CASE ~n.whole \/ IsPolicyServiceMessage(n)
    BY <1>1, <1>6 DEF ReadNotification
  <1>7. CASE n.whole /\ ~IsPolicyServiceMessage(n)
    <2>1. IF IsManagerAtsign(n.from) THEN Handle(n, FALSE) /\ UNCHANGED gate
          ELSE IF opt.policy = "" THEN Drop
          ELSE IF CacheLookup(n.from) # {}
               THEN IF \E e \in CacheLookup(n.from) : e.yes
                    THEN Handle(n, TRUE) /\ UNCHANGED gate ELSE Drop
          ELSE IF ~ThrottleAllows(n.from, n.kind) THEN Drop
          ELSE /\ throttled' = ThrottleTakes(n.from, n.kind)
               /\ IF sent
                  THEN /\ ids' = ids + 1
                       /\ asked' = asked \cup {[id |-> ids + 1, who |-> n.from]}
                       /\ check' = [Idle EXCEPT !.note = n, !.id = ids + 1]
                       /\ pc' = "wait"
                  ELSE UNCHANGED <<ids, asked, check>> /\ pc' = "loop"
               /\ UNCHANGED <<cache, served>>
      BY <1>7 DEF ReadNotification
    <2>. QED  BY <1>1, <1>2, <1>3, <1>4, <1>5, <1>7, <2>1
  <1>. QED  BY <1>6, <1>7

\* What a store leaves in the cache is old entries and the new one.
LEMMA StoreTakes ==
    ASSUME NEW from, NEW yes, NEW e \in CacheStore(from, yes)
    PROVE  e \in cache \/ e = [from |-> from, yes |-> yes, age |-> 0]
  BY DEF CacheStore

\* The check ends: a grant is at most as old as the check.
LEMMA DecidedKeeps ==
    ASSUME IInv, Waiting, NEW yes \in BOOLEAN, Decided(yes), inbox' \in SUBSET inbox,
           UNCHANGED <<opt, revoked>>,
           yes => revoked[check.note.from] <= check.age
    PROVE  IInv'
  <1>1. /\ check.note \in Note /\ check.note.from \in Client /\ check.age \in 0 .. WaitCap
        /\ revoked \in [Client -> -1 .. Late] /\ cache \subseteq Entry
    BY Constants DEF IInv, OneCheck, Typed, CheckState
  <1>2. /\ check' = Idle /\ UNCHANGED <<ids, asked>> /\ pc' \in {"handle", "loop"}
        /\ cache' = CacheStore(check.note.from, yes)
        /\ pc' = "handle" /\ served'.checked => yes /\ served'.note = check.note
    BY DEF Decided, Handle, Waiting
  <1>3. ASSUME NEW e \in cache'
        PROVE  e \in Entry /\ (e.yes /\ e.age <= Ttl => revoked[e.from] <= e.age + WaitCap)
    <2>1. CASE e \in cache
      BY <1>1, <2>1 DEF IInv, CacheIsRecent
    <2>2. CASE e = [from |-> check.note.from, yes |-> yes, age |-> 0]
      <3>1. e \in Entry /\ e.from = check.note.from /\ e.yes = yes /\ e.age = 0
        BY <1>1, <2>2 DEF Entry
      <3>2. yes => revoked[check.note.from] <= 0 + WaitCap
        BY <1>1, Constants
      <3>. QED  BY <3>1, <3>2
    <2>. QED  BY <1>2, <1>3, <2>1, <2>2, StoreTakes
  <1>4. Typed' /\ OneCheck' /\ AskedOnce'
    <2>1. cache' \subseteq Entry
      BY <1>3
    <2>. QED  BY <1>2, <2>1, IdleTyped DEF IInv, Typed, OneCheck, AskedOnce,
                  Waiting
  <1>5. Inbox' /\ YesIsRecent'
    BY <1>2 DEF IInv, Inbox, YesIsRecent, Waiting
  <1>6. CacheIsRecent'
    BY <1>3 DEF CacheIsRecent
  <1>7. ServedInTime'
    <2>1. yes => revoked[check.note.from] < Late
      BY <1>1, Constants
    <2>. QED  BY <1>1, <1>2, <2>1 DEF ServedInTime
  <1>. QED  BY <1>4, <1>5, <1>6, <1>7 DEF IInv

\* Steps of a check that goes on: its age and whom it is about do not change.
LEMMA CheckGoesOn ==
    ASSUME IInv, Waiting, Waiting', check' \in CheckState,
           check'.note = check.note, check'.id = check.id, check'.age = check.age,
           pc' = "waitread" /\ ~check'.slept => check'.age < WaitCap,
           inbox' \in SUBSET inbox, UNCHANGED <<opt, revoked, cache, ids, asked, served>>
    PROVE  IInv'
  <1>1. Typed' /\ OneCheck' /\ AskedOnce'
    BY DEF IInv, Typed, OneCheck, AskedOnce
  <1>2. Inbox' /\ YesIsRecent'
    BY DEF IInv, Inbox, YesIsRecent
  <1>3. CacheIsRecent' /\ ServedInTime'
    BY DEF IInv, CacheIsRecent, ServedInTime, Waiting
  <1>. QED  BY <1>1, <1>2, <1>3 DEF IInv

\* The deadline is looked at: a read is begun, or the check ends in a denial.
LEMMA WaitTestKeeps ==
    ASSUME IInv, WaitTest
    PROVE  IInv'
  <1>0. Waiting /\ UNCHANGED <<opt, revoked, inbox>> /\ check \in CheckState
    BY DEF WaitTest, Waiting, IInv, Typed
  <1>1. CASE Decided(FALSE)
    BY <1>0, <1>1, DecidedKeeps
  <1>2. CASE /\ check.age < WaitDeadline /\ pc' = "waitread" /\ check' = [check EXCEPT !.slept = FALSE]
             /\ UNCHANGED <<cache, throttled, ids, asked, served>>
    <2>1. check.age \in Nat /\ check.progress \in Nat
      BY <1>0, Constants DEF CheckState
    <2>2. check.age < WaitCap
      BY <1>2, <2>1, Constants DEF WaitDeadline
    <2>3. check' \in CheckState /\ check'.note = check.note /\ check'.id = check.id
          /\ check'.age = check.age
      BY <1>0, <1>2 DEF CheckState
    <2>4. Waiting'
      BY <1>2 DEF Waiting
    <2>. QED  BY <1>0, <1>2, <2>2, <2>3, <2>4, CheckGoesOn
  <1>. QED  BY <1>1, <1>2 DEF WaitTest

\* A notification is read while the check waits.
LEMMA WaitReadKeeps ==
    ASSUME IInv, NEW n \in inbox, WaitRead(n)
    PROVE  IInv'
  <1>0. /\ Waiting /\ UNCHANGED <<opt, revoked>> /\ inbox' \in SUBSET inbox /\ check \in CheckState
    BY DEF WaitRead, Waiting, IInv, Typed
  <1>1. CASE IsPolicyResponse(n) /\ Decided(n.key = "yes")
    <2>1. n.key = "yes" => revoked[check.note.from] <= check.age
      BY <1>0, <1>1 DEF IInv, YesIsRecent, IsPolicyResponse
    <2>. QED  BY <1>0, <1>1, <2>1, DecidedKeeps
  <1>2. CASE /\ pc' = "wait"
             /\ check' = check \/ check' = [check EXCEPT !.progress = check.age]
             /\ UNCHANGED <<cache, throttled, ids, asked, served>>
    <2>1. check' \in CheckState /\ check'.note = check.note /\ check'.id = check.id
          /\ check'.age = check.age
      BY <1>0, <1>2 DEF CheckState
    <2>2. Waiting' /\ pc' # "waitread"
      BY <1>2 DEF Waiting
    <2>. QED  BY <1>0, <1>2, <2>1, <2>2, CheckGoesOn
  <1>. QED  BY <1>1, <1>2 DEF WaitRead

\* The policy service acknowledges a request, or answers it with what it
\* thinks of the client now.
LEMMA PolicySpeaksKeeps ==
    ASSUME IInv, NEW r \in asked, PolicyAcks(r) \/ PolicyAnswers(r)
    PROVE  IInv'
  <1>0. PICK key \in Responses :
          /\ inbox' = inbox \cup {Answer(r, key)} /\ asked' \in SUBSET asked
          /\ key = "yes" => revoked[r.who] = -1
          /\ UNCHANGED <<opt, pc, cache, check, ids, revoked, served>>
    BY DEF PolicyAcks, PolicyAnswers, gate, Responses
  <1>1. /\ Answer(r, key).id = r.id /\ Answer(r, key).from = opt.policy /\ Answer(r, key).key = key
    BY DEF Answer
  <1>2. r.id \in 1 .. ids /\ opt.policy # "" /\ (Waiting /\ r.id = check.id => r.who = check.note.from)
    BY DEF IInv, AskedOnce
  <1>3. Typed' /\ OneCheck' /\ AskedOnce'
    BY <1>0 DEF IInv, Typed, OneCheck, AskedOnce, Waiting
  <1>4. Inbox'
    BY <1>0, <1>1, <1>2 DEF IInv, Inbox
  <1>5. YesIsRecent'
    <2>1. check.age \in Nat
      BY Constants DEF IInv, Typed, CheckState
    <2>2. ASSUME Waiting, key = "yes", r.id = check.id
          PROVE  revoked[check.note.from] <= check.age
      <3>1. revoked[check.note.from] = -1
        BY <1>0, <1>2, <2>2
      <3>2. -1 <= check.age
        BY <2>1
      <3>. QED  BY <3>1, <3>2
    <2>. QED  BY <1>0, <1>1, <2>2 DEF IInv, YesIsRecent, Waiting
  <1>6. CacheIsRecent' /\ ServedInTime'
    BY <1>0 DEF IInv, CacheIsRecent, ServedInTime
  <1>. QED  BY <1>3, <1>4, <1>5, <1>6 DEF IInv

\* The policy service stops allowing a client.
LEMMA PolicyRevokesKeeps ==
    ASSUME IInv, NEW c \in Client, PolicyRevokes(c)
    PROVE  IInv'
  <1>0. /\ revoked' = [revoked EXCEPT ![c] = 0] /\ revoked[c] = -1
        /\ UNCHANGED <<opt, pc, cache, check, ids, asked, inbox, served>>
    BY DEF PolicyRevokes, gate
  <1>1. revoked \in [Client -> -1 .. Late] /\ check \in CheckState /\ cache \subseteq Entry
    BY DEF IInv, Typed
  <1>2. revoked' \in [Client -> -1 .. Late] /\ revoked'[c] = 0
        /\ \A d \in Client : d # c => revoked'[d] = revoked[d]
    BY <1>0, <1>1, Constants
  <1>3. Typed' /\ OneCheck' /\ AskedOnce' /\ Inbox'
    BY <1>0, <1>2 DEF IInv, Typed, OneCheck, AskedOnce, Waiting, Inbox
  <1>4. YesIsRecent'
    <2>1. check.age \in Nat /\ 0 <= check.age
      BY <1>1, Constants DEF CheckState
    <2>2. Waiting => check.note.from \in Client
      BY Constants DEF IInv, OneCheck
    <2>3. ASSUME Waiting, revoked[check.note.from] <= check.age
          PROVE  revoked'[check.note.from] <= check.age
      <3>1. CASE check.note.from = c
        BY <1>2, <2>1, <3>1
      <3>2. CASE check.note.from # c
        BY <1>2, <2>2, <2>3, <3>2
      <3>. QED  BY <3>1, <3>2
    <2>. QED  BY <1>0, <2>3 DEF IInv, YesIsRecent, Waiting
  <1>5. CacheIsRecent'
    <2>1. \A e \in cache : e.from \in Client /\ e.age \in Nat
      BY <1>1 DEF Entry
    <2>. QED  BY <1>0, <1>2, <2>1, Constants DEF IInv, CacheIsRecent
  <1>6. ServedInTime'
    BY <1>0, <1>2, Constants DEF IInv, ServedInTime
  <1>. QED  BY <1>3, <1>4, <1>5, <1>6 DEF IInv

\* Time passes: a revocation ages no faster than the check and the cache.
LEMMA TickKeeps ==
    ASSUME IInv, Tick
    PROVE  IInv'
  <1>0. /\ pc = "read" \/ (pc = "waitread" /\ ~check.slept)
        /\ cache' = {[e EXCEPT !.age = Older(@, Ttl + 1)] : e \in cache}
        /\ check' = IF pc = "waitread"
                    THEN [check EXCEPT !.age = Older(@, WaitCap + 1), !.slept = TRUE] ELSE check
        /\ revoked' = [c \in Client |-> IF revoked[c] = -1 THEN -1 ELSE Older(revoked[c], Late)]
        /\ UNCHANGED <<opt, pc, ids, asked, inbox, served>>
    BY DEF Tick
  <1>1. revoked \in [Client -> -1 .. Late] /\ check \in CheckState /\ cache \subseteq Entry
    BY DEF IInv, Typed
  <1>2. revoked' \in [Client -> -1 .. Late] /\ \A c \in Client : revoked'[c] <= revoked[c] + 1
    BY <1>0, <1>1, Constants DEF Older
  <1>3. /\ check' \in CheckState /\ check'.note = check.note /\ check'.id = check.id
        /\ pc = "waitread" => check'.age = check.age + 1 /\ check'.slept
    <2>1. CASE pc = "waitread"
      <3>1. check.age \in 0 .. WaitCap /\ check.age < WaitCap
        BY <1>0, <1>1, <2>1 DEF IInv, OneCheck, Waiting, CheckState
      <3>2. Older(check.age, WaitCap + 1) = check.age + 1 /\ check.age + 1 \in 0 .. WaitCap
        BY <3>1, Constants DEF Older
      <3>3. check' = [check EXCEPT !.age = check.age + 1, !.slept = TRUE]
        BY <1>0, <2>1, <3>2
      <3>. QED  BY <1>1, <3>2, <3>3 DEF CheckState
    <2>2. CASE pc # "waitread"
      BY <1>0, <1>1, <2>2
    <2>. QED  BY <2>1, <2>2
  <1>4. ASSUME NEW e \in cache'
        PROVE  e \in Entry /\ (e.yes /\ e.age <= Ttl => revoked'[e.from] <= e.age + WaitCap)
    <2>1. PICK d \in cache : e = [d EXCEPT !.age = Older(@, Ttl + 1)]
      BY <1>0
    <2>2. d \in Entry /\ d.age \in Nat /\ d.from \in Client
      BY <1>1 DEF Entry
    <2>3. Older(d.age, Ttl + 1) \in Nat
      BY <2>2, Constants DEF Older
    <2>4. e \in Entry /\ e.from = d.from /\ e.yes = d.yes /\ e.age = Older(d.age, Ttl + 1)
      BY <2>1, <2>2, <2>3 DEF Entry
    <2>5. e.age <= Ttl => e.age = d.age + 1
      BY <2>2, <2>4, Constants DEF Older
    <2>6. d.yes /\ d.age <= Ttl => revoked[d.from] <= d.age + WaitCap
      BY DEF IInv, CacheIsRecent
    <2>7. revoked[d.from] \in Int /\ revoked'[d.from] \in Int /\ revoked'[d.from] <= revoked[d.from] + 1
      BY <1>1, <1>2, <2>2
    <2>. QED  BY <2>2, <2>4, <2>5, <2>6, <2>7, Constants
  <1>5. Typed'
    <2>1. cache' \subseteq Entry
      BY <1>4
    <2>. QED  BY <1>0, <1>2, <1>3, <2>1 DEF IInv, Typed
  <1>6. OneCheck' /\ AskedOnce' /\ Inbox'
    BY <1>0, <1>3 DEF IInv, OneCheck, AskedOnce, Waiting, Inbox
  <1>7. YesIsRecent'
    <2>1. CASE pc = "waitread"
      <3>1. check.note.from \in Client /\ check.age \in Nat
        <4>1. check.note \in Note
          BY <2>1 DEF IInv, OneCheck, Waiting
        <4>2. check.age \in Nat
          BY <1>1, Constants DEF CheckState
        <4>. QED  BY <4>1, <4>2, Constants
      <3>2. revoked[check.note.from] \in Int /\ revoked'[check.note.from] \in Int
            /\ revoked'[check.note.from] <= revoked[check.note.from] + 1
        BY <1>1, <1>2, <3>1
      <3>3. ASSUME revoked[check.note.from] <= check.age
            PROVE  revoked'[check'.note.from] <= check'.age
        BY <1>3, <2>1, <3>1, <3>2, <3>3
      <3>. QED  BY <1>0, <1>3, <2>1, <3>3 DEF IInv, YesIsRecent, Waiting
    <2>2. CASE pc # "waitread"
      BY <1>0, <2>2 DEF YesIsRecent, Waiting
    <2>. QED  BY <2>1, <2>2
  <1>8. CacheIsRecent'
    BY <1>4 DEF CacheIsRecent
  <1>9. ServedInTime'
    BY <1>0 DEF ServedInTime
  <1>. QED  BY <1>5, <1>6, <1>7, <1>8, <1>9 DEF IInv

-----------------------------------------------------------------------------
(* Theorems *)

\* Everything above holds in every state of every behaviour.
THEOREM Invariance == Spec => []IInv
  <1>1. Init => IInv
    <2>. SUFFICES ASSUME Init PROVE IInv
      OBVIOUS
    <2>1. Typed
      <3>1. revoked \in [Client -> -1 .. Late]
        BY Constants DEF Init
      <3>. QED  BY <3>1, IdleTyped DEF Init, Typed
    <2>2. pc = "startup" /\ asked = {} /\ cache = {} /\ inbox = Sent[opt]
      BY DEF Init
    <2>3. OneCheck /\ AskedOnce /\ Inbox /\ YesIsRecent /\ CacheIsRecent /\ ServedInTime
            BY <2>2 DEF OneCheck, AskedOnce, Inbox, YesIsRecent, CacheIsRecent, ServedInTime,
                  Waiting
    <2>. QED  BY <2>1, <2>3 DEF IInv
  <1>2. IInv /\ [Next]_vars => IInv'
    <2>. SUFFICES ASSUME IInv, [Next]_vars PROVE IInv'
      OBVIOUS
    <2>1. CASE UNCHANGED vars
      BY <2>1, GateUntouched DEF vars, Waiting
    <2>2. CASE Next
      BY <2>2, LoopKeeps, ReadNotificationKeeps, WaitTestKeeps, WaitReadKeeps, PolicySpeaksKeeps,
         PolicyRevokesKeeps, TickKeeps DEF Next, Thread
    <2>. QED  BY <2>1, <2>2
  <1>. QED  BY <1>1, <1>2, PTL DEF Spec

\* Nobody is served on the policy service's word for longer than the life of
\* a cached decision and the longest wait for one after it was withdrawn.
THEOREM RevocationAlwaysTakesEffect == Spec => []RevocationTakesEffect
  <1>1. IInv => RevocationTakesEffect
    BY DEF IInv, ServedInTime, RevocationTakesEffect
  <1>. QED  BY <1>1, Invariance, PTL

\* A step that asks nothing, and adds nothing to the inbox but the policy
\* service's traffic, does not disturb the count.
LEMMA NothingAsked ==
    ASSUME IInv, EveryCheckHasItsRequest, UNCHANGED <<opt, ids>>,
           \A n \in inbox' : n \in inbox \/ (n.from = opt.policy /\ n.key # "request")
    PROVE  EveryCheckHasItsRequest'
  <1>. DEFINE S == {n \in Sent[opt] \ inbox : n.from # opt.policy \/ n.key = "request"}
              T == {n \in Sent[opt] \ inbox' : n.from # opt.policy \/ n.key = "request"}
  <1>1. S \subseteq T /\ T \subseteq Note /\ IsFiniteSet(Note) /\ ids \in Nat
    BY Constants DEF IInv, Typed
  <1>2. ids <= Cardinality(S)
    BY DEF EveryCheckHasItsRequest
  <1>3. (ids <= Cardinality(T)) => EveryCheckHasItsRequest'
    BY DEF EveryCheckHasItsRequest
  <1>. HIDE DEF S, T
  <1>4. IsFiniteSet(T)
    BY <1>1, FS_Subset
  <1>5. IsFiniteSet(S) /\ Cardinality(S) <= Cardinality(T)
    BY <1>1, <1>4, FS_Subset
  <1>6. Cardinality(S) \in Nat /\ Cardinality(T) \in Nat
    BY <1>4, <1>5, FS_CardinalityType
  <1>. QED  BY <1>1, <1>2, <1>3, <1>5, <1>6

\* Arithmetic of the step that asks.
LEMMA OneMore ==
    ASSUME NEW i \in Nat, NEW s \in Nat, NEW c, NEW t \in Nat, i <= s, c = s + 1, c <= t
    PROVE  i + 1 <= t
  OBVIOUS

\* Asking about a notification takes it from the inbox.
LEMMA OneAsked ==
    ASSUME IInv, EveryCheckHasItsRequest, opt' = opt, ids' = ids + 1, NEW n \in inbox,
           ~IsPolicyServiceMessage(n), opt.policy # "", inbox' = inbox \ {n}
    PROVE  EveryCheckHasItsRequest'
  <1>. DEFINE S == {m \in Sent[opt] \ inbox : m.from # opt.policy \/ m.key = "request"}
              T == {m \in Sent[opt] \ inbox' : m.from # opt.policy \/ m.key = "request"}
  <1>1. /\ S \cup {n} \subseteq T /\ n \notin S
        /\ T \subseteq Note /\ IsFiniteSet(Note) /\ ids \in Nat
    BY Constants, NotThePolicys DEF IInv, Typed, IsPolicyServiceMessage
  <1>2. ids <= Cardinality(S)
    BY DEF EveryCheckHasItsRequest
  <1>3. (ids + 1 <= Cardinality(T)) => EveryCheckHasItsRequest'
    BY DEF EveryCheckHasItsRequest
  <1>. HIDE DEF S, T
  <1>4. IsFiniteSet(T)
    BY <1>1, FS_Subset
  <1>5. IsFiniteSet(S) /\ IsFiniteSet(S \cup {n}) /\ Cardinality(S \cup {n}) <= Cardinality(T)
    BY <1>1, <1>4, FS_Subset
  <1>6. Cardinality(S \cup {n}) = Cardinality(S) + 1
    BY <1>1, <1>5, FS_AddElement
  <1>7. Cardinality(S) \in Nat /\ Cardinality(T) \in Nat
    BY <1>4, <1>5, FS_CardinalityType
  <1>8. ids + 1 <= Cardinality(T)
    BY <1>1, <1>2, <1>5, <1>6, <1>7, OneMore
  <1>. QED  BY <1>3, <1>8

\* Every step keeps the count.
LEMMA CountKept ==
    ASSUME IInv, EveryCheckHasItsRequest, [Next]_vars
    PROVE  EveryCheckHasItsRequest'
  <1>1. ASSUME UNCHANGED <<opt, ids>>, inbox' \subseteq inbox PROVE EveryCheckHasItsRequest'
    BY <1>1, NothingAsked
  <1>2. ASSUME NEW n \in inbox, NEW sent \in BOOLEAN, ReadNotification(n, sent)
        PROVE  EveryCheckHasItsRequest'
    <2>1. opt' = opt /\ inbox' = inbox \ {n}
      BY <1>2 DEF ReadNotification
    <2>2. \/ ids' = ids
          \/ ids' = ids + 1 /\ ~IsPolicyServiceMessage(n) /\ opt.policy # ""
      BY <1>2 DEF ReadNotification, Drop, Handle, gate
    <2>. QED  BY <1>1, <2>1, <2>2, OneAsked
  <1>3. ASSUME NEW r \in asked, PolicyAcks(r) \/ PolicyAnswers(r)
        PROVE  EveryCheckHasItsRequest'
    <2>1. PICK key \in Responses : inbox' = inbox \cup {Answer(r, key)} /\ UNCHANGED <<opt, ids>>
      BY <1>3 DEF PolicyAcks, PolicyAnswers, gate, Responses
    <2>2. Answer(r, key).from = opt.policy /\ Answer(r, key).key # "request"
      BY DEF Answer, Responses
    <2>. QED  BY <2>1, <2>2, NothingAsked
  <1>4. ASSUME \/ UNCHANGED vars
               \/ \E ok \in BOOLEAN : Startup(ok) \/ ReconnectMonitor(ok) \/ LoopTop(ok)
               \/ ReadNothing \/ WaitReadNothing \/ HandleNotification \/ ExitHandler
               \/ \E how \in {"cut", "silent"} : MonitorBreaks(how)
               \/ \E c \in Client : PolicyRevokes(c)
               \/ Tick
        PROVE  UNCHANGED <<opt, ids>> /\ inbox' \subseteq inbox
    BY <1>4 DEF vars, Startup, ReconnectMonitor, LoopTop, ReadNothing, WaitReadNothing,
                HandleNotification, ExitHandler, MonitorBreaks, PolicyRevokes, Tick, gate
  <1>5. ASSUME WaitTest \/ (\E n \in inbox : WaitRead(n))
        PROVE  UNCHANGED <<opt, ids>> /\ inbox' \subseteq inbox
    BY <1>5 DEF WaitTest, WaitRead, Decided
  <1>6. CASE Next
    BY <1>1, <1>2, <1>3, <1>4, <1>5, <1>6 DEF Next, Thread
  <1>7. CASE UNCHANGED vars
    BY <1>1, <1>4, <1>7
  <1>. QED  BY <1>6, <1>7

\* The policy service is asked about nothing but what others send, its own
\* session requests included, and once for each: what it answers late, or
\* pushes unasked, makes the daemon ask nothing.
THEOREM EveryCheckIsForARequest == Spec => []EveryCheckHasItsRequest
  <1>1. Init => EveryCheckHasItsRequest
    <2>. SUFFICES ASSUME Init PROVE EveryCheckHasItsRequest
      OBVIOUS
    <2>1. {n \in Sent[opt] \ inbox : n.from # opt.policy \/ n.key = "request"} = {} /\ ids = 0
      BY DEF Init
    <2>. QED  BY <2>1, FS_EmptySet DEF EveryCheckHasItsRequest
  <1>. QED  BY <1>1, CountKept, Invariance, PTL DEF Spec

\* However often the policy service acknowledges a request, the daemon, which
\* does nothing else meanwhile, waits no longer than POLICY_WAIT_CAP_MS.
WaitIsCapped == Waiting => check.age <= WaitCap
THEOREM WaitIsAlwaysCapped == Spec => []WaitIsCapped
  <1>1. IInv => WaitIsCapped
    BY Constants DEF IInv, Typed, CheckState, WaitIsCapped
  <1>. QED  BY <1>1, Invariance, PTL
=============================================================================
