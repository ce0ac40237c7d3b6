-------------------------- MODULE EspSessionsProofs --------------------------
(***************************************************************************)
(* Proofs about EspSessions for any number of slots, keys and requests.     *)
(***************************************************************************)
EXTENDS EspSessions, WellFoundedInduction, TLAPS

-----------------------------------------------------------------------------
(* The inductive invariant *)

\* A task that has its slot to itself is the one the slot knows: the state of
\* the relay tells where it is, and the handle is its own.
TasksAreKnown ==
    \A n \in Tasks \ shared : task[n].at # "none" =>
        /\ task[n].at = "connect" => relays[task[n].slot].state = "connecting"
        /\ task[n].at = "auth" => relays[task[n].slot].state = "authenticating"
        /\ task[n].at = "loop" => relays[task[n].slot].state = "running"
        /\ relays[task[n].slot].handle = n
        /\ \A m \in Tasks : task[m].slot = task[n].slot => m = n

\* A request on its way to a slot is a client's, its task is yet to come, and
\* its slot is none that a session has to itself.
SlotIsFree ==
    /\ \A n \in Tasks : n > taken => task[n] = NoTask
    /\ pc \in {"find", "start"} => req.q \in Request /\ taken \in Tasks /\ task[taken] = NoTask
    /\ pc = "start" => /\ req.slot \in Slot
                       /\ \A n \in Tasks \ shared : Live(n) => task[n].slot # req.slot

\* A key that is due, or was found withdrawn, is one; and a pass of checks has
\* one to check.
KeysAreKeys ==
    /\ \A i \in Slot : keys[i].due \/ keys[i].ending => keys[i].key # ""
    /\ pc = "check" => \E i \in Slot : keys[i].due

\* A signed session is watched under its key, or nothing is watched in its
\* slot and it has been told to end: stop() forgets the keys.
WatchedOrTold ==
    \A n \in Tasks \ shared : Live(n) /\ task[n].signer # "" =>
        \/ keys[task[n].slot].key = task[n].signer
        \/ keys[task[n].slot].key = "" /\ ~relays[task[n].slot].run

IInv == TypeOK /\ TasksAreKnown /\ SlotIsFree /\ KeysAreKeys /\ WatchedOrTold

-----------------------------------------------------------------------------
(* Operators *)

\* A nonempty set of slots has a first one.
LEMMA FirstSlot ==
    ASSUME NEW S \in SUBSET Slot, S # {}
    PROVE  \E m \in S : \A n \in S : m <= n
  <1>. DEFINE R == {p \in Nat \X Nat : p[1] < p[2]}
  <1>1. IsWellFoundedOn(R, Nat)
    BY NatLessThanWellFounded, Zenon DEF OpToRel
  <1>. HIDE DEF R
  <1>2. S \in SUBSET Nat
    BY EspSessionsAssumption DEF Slot
  <1>3. PICK m \in S : \A n \in S : ~ (<<n, m>> \in R)
    BY <1>1, <1>2, WFMin
  <1>4. ASSUME NEW n \in S PROVE m <= n
    <2>1. SUFFICES ASSUME n < m PROVE FALSE
      BY <1>2
    <2>2. <<n, m>> \in R
      BY <1>2, <2>1 DEF R
    <2>. QED  BY <1>3, <2>2
  <1>. QED  BY <1>4

\* The slot _findFreeRelaySlot finds is one that no session is in.
LEMMA FoundSlotIsFree ==
    ASSUME NEW rs, FindFreeRelaySlot(rs) # 0
    PROVE  FindFreeRelaySlot(rs) \in Slot /\ ~IsRunning(rs[FindFreeRelaySlot(rs)])
  <1>. DEFINE free == {i \in Slot : /\ ~IsRunning(rs[i])
                                    /\ rs[i].state \notin {"connecting", "authenticating"}}
  <1>1. FindFreeRelaySlot(rs) = IF free = {} THEN 0 ELSE CHOOSE i \in free : \A j \in free : i <= j
    BY DEF FindFreeRelaySlot
  <1>2. free # {} /\ free \in SUBSET Slot
    BY <1>1
  <1>. HIDE DEF free
  <1>3. FindFreeRelaySlot(rs) \in free
    BY <1>1, <1>2, FirstSlot
  <1>. QED  BY <1>3 DEF free

\* The key a pass checks is due.
LEMMA FirstDueIsDue ==
    ASSUME \E i \in Slot : keys[i].due
    PROVE  FirstDue \in Slot /\ keys[FirstDue].due
  <1>. DEFINE due == {i \in Slot : keys[i].due}
  <1>1. PICK m \in due : \A n \in due : m <= n
    BY FirstSlot
  <1>. QED  BY <1>1 DEF FirstDue

\* A check finds a key withdrawn only where it has been.
LEMMA CheckKeyIsSound ==
    ASSUME NEW at, NEW kept, NEW finds, NEW second, NEW located,
           CheckKey(at, kept, finds, second, located) \in {"revoked", "deleted"}
    PROVE  at \in {"r", "d"}
  BY DEF CheckKey

\* What the verifier of enrollment signatures may say, and so the key a request
\* that is let through is watched under.
LEMMA VerdictIsKnown ==
    ASSUME NEW q \in Request, NEW looked, NEW ad,
           NEW verdict, verdict = IF EnrollmentFields(q) # "lookup" THEN EnrollmentFields(q)
                                  ELSE EnrollmentVerdict(q, looked, ad)
    PROVE  CheckClientSigningKey(q, verdict).key \in MaybeKey
  <1>1. EnrollmentFields(q) \in {"absent", "refused", "lookup"}
    BY DEF EnrollmentFields, C!BeforeLookup
  <1>2. EnrollmentVerdict(q, looked, ad) \in {"refused", "unchecked", "verified"}
    BY DEF EnrollmentVerdict, C!AfterLookup
  <1>3. verdict \in {"verified", "refused", "unchecked", "absent"}
    BY <1>1, <1>2
  <1>4. q.enroll.key \in Key
    BY KeyAssumption
  <1>. QED  BY <1>3, <1>4 DEF CheckClientSigningKey, MaybeKey

\* A check leaves a session's key what it was, and marks it withdrawn only if
\* it was before or has just been found so.
LEMMA CheckedIsKey ==
    ASSUME NEW k \in KeyState, NEW found
    PROVE  /\ Checked(k, found) \in KeyState /\ Checked(k, found).key = k.key
           /\ ~Checked(k, found).due
           /\ Checked(k, found).ending => k.ending \/ found \in {"revoked", "deleted"}
  <1>. DEFINE b == IF found = "unknown" THEN NextBackoff(k.backoff) ELSE 0
  <1>1. b \in 0 .. MaxSkip
    <2>1. k.backoff \in 0 .. MaxSkip /\ MaxSkip \in Nat \ {0}
      BY EspSessionsAssumption DEF KeyState
    <2>2. NextBackoff(k.backoff) \in 0 .. MaxSkip
      BY <2>1 DEF NextBackoff
    <2>. QED  BY <2>1, <2>2
  <1>2. Checked(k, found) = [k EXCEPT !.due = FALSE, !.backoff = b, !.skip = b,
                                      !.ending = @ \/ found \in {"revoked", "deleted"}]
    BY DEF Checked
  <1>. HIDE DEF b
  <1>. QED  BY <1>1, <1>2 DEF KeyState

\* So does a round of marking, which marks only keys.
LEMMA DueIsKey ==
    ASSUME NEW k \in KeyState
    PROVE  /\ Due(k) \in KeyState /\ Due(k).key = k.key /\ Due(k).ending = k.ending
           /\ Due(k).due => k.key # ""
  <1>. DEFINE n == IF k.skip > 0 THEN k.skip - 1 ELSE 0
  <1>1. n \in 0 .. MaxSkip
    BY EspSessionsAssumption DEF KeyState
  <1>2. Due(k) = [k EXCEPT !.due = (k.key # "" /\ ~k.ending /\ k.skip = 0), !.skip = n]
    BY DEF Due
  <1>. HIDE DEF n
  <1>. QED  BY <1>1, <1>2 DEF KeyState

\* The records that stand for nothing have their types.
LEMMA Nothing ==
    /\ NoRequest \in RequestState /\ Idle \in RelayState /\ NoKey \in KeyState
    /\ NoKey.key = "" /\ NoKey.due = FALSE /\ NoKey.ending = FALSE
    /\ NoTask.slot = 0 /\ NoTask.at = "none"
    /\ 0 \notin Slot /\ 0 \in 0 .. MaxRequests
  <1>0. 0 \notin Slot
    BY DEF Slot
  <1>1. Slots \in Nat /\ MaxSkip \in Nat /\ MaxRequests \in Nat
    BY EspSessionsAssumption
  <1>. QED  BY <1>0, <1>1 DEF NoRequest, RequestState, Idle, RelayState, NoKey, KeyState, MaybeKey, Auth, NoTask

\* A task yet to come is another's.
LEMMA LaterIsAnother ==
    ASSUME NEW n \in 0 .. MaxRequests
    PROVE  \A m \in Tasks : m > n => m # n
  <1>1. n \in Int /\ Tasks \subseteq Int
    BY EspSessionsAssumption DEF Tasks
  <1>. QED  BY <1>1

\* A task that has not ended is in a slot, and one that is in a slot has not.
LEMMA TaskHasSlot ==
    ASSUME TypeOK, NEW n \in Tasks
    PROVE  /\ task[n].at # "none" => task[n] \in TaskState /\ task[n].slot \in Slot
           /\ task[n].at = "none" => task[n] = NoTask /\ task[n].slot \notin Slot
           /\ n \in 0 .. MaxRequests /\ n # 0
  <1>1. n \in 0 .. MaxRequests /\ n # 0
    BY EspSessionsAssumption DEF Tasks
  <1>2. CASE task[n] = NoTask
    BY <1>1, <1>2, Nothing
  <1>3. CASE task[n] \in TaskState
    BY <1>1, <1>3 DEF TaskState
  <1>. QED  BY <1>2, <1>3 DEF TypeOK

-----------------------------------------------------------------------------
(* Relay tasks *)

\* A task that has not ended goes on, to the next of its stages or to its
\* teardown.
LEMMA TaskGoesOn ==
    ASSUME IInv, NEW n \in Tasks, Live(n),
           NEW state \in {"idle", "connecting", "authenticating", "running", "stopped", "error"},
           NEW at \in {"auth", "loop", "teardown"}, GoesOn(n, state, at),
           at = "auth" => state = "authenticating", at = "loop" => state = "running"
    PROVE  IInv'
  <1>. DEFINE i == task[n].slot
              r == [relays[i] EXCEPT !.state = state]
              t == [task[n] EXCEPT !.at = at]
  <1>1. i \in Slot /\ task[n] \in TaskState /\ relays[i] \in RelayState
    BY TaskHasSlot DEF IInv, TypeOK, Live
  <1>2. /\ relays' = [relays EXCEPT ![i] = r] /\ task' = [task EXCEPT ![n] = t]
        /\ UNCHANGED <<pc, req, taken, keys, where, shared>>
    BY DEF GoesOn
  <1>3. /\ r \in RelayState /\ r.state = state
        /\ r.run = relays[i].run /\ r.handle = relays[i].handle
    BY <1>1 DEF RelayState
  <1>4. /\ t \in TaskState /\ t.at = at /\ t.slot = i /\ t.signer = task[n].signer
    BY <1>1 DEF TaskState
  <1>5. i = task[n].slot
    OBVIOUS
  <1>. HIDE DEF i, r, t
  <1>6. /\ relays' \in [Slot -> RelayState] /\ relays'[i] = r
        /\ \A j \in Slot : j # i => relays'[j] = relays[j]
    BY <1>1, <1>2, <1>3 DEF IInv, TypeOK
  <1>7. /\ task' \in [Tasks -> TaskState \cup {NoTask}] /\ task'[n] = t
        /\ \A m \in Tasks : m # n => task'[m] = task[m]
    BY <1>2, <1>4 DEF IInv, TypeOK
  <1>8. TypeOK'
    BY <1>2, <1>6, <1>7 DEF IInv, TypeOK
  <1>9. \A m \in Tasks : task'[m].slot = task[m].slot /\ task'[m].signer = task[m].signer
    BY <1>4, <1>5, <1>7
  <1>10. ASSUME NEW m \in Tasks \ shared, m # n, task[m].at # "none"
         PROVE  task[m].slot \in Slot /\ task[m].slot # i
    BY <1>5, <1>10, TaskHasSlot DEF IInv, TasksAreKnown
  <1>11. TasksAreKnown'
    <2>1. ASSUME NEW m \in Tasks \ shared, task'[m].at # "none"
          PROVE  /\ task'[m].at = "connect" => relays'[task'[m].slot].state = "connecting"
                 /\ task'[m].at = "auth" => relays'[task'[m].slot].state = "authenticating"
                 /\ task'[m].at = "loop" => relays'[task'[m].slot].state = "running"
                 /\ relays'[task'[m].slot].handle = m
                 /\ \A p \in Tasks : task'[p].slot = task'[m].slot => p = m
      <3>0. \A p \in Tasks : task[p].slot = task[m].slot => p = m
        <4>1. task[m].at # "none"
          BY <1>7, <2>1 DEF Live
        <4>. QED  BY <4>1 DEF IInv, TasksAreKnown
      <3>1. CASE m = n
        <4>1. relays[i].handle = n
          BY <1>5, <3>1 DEF IInv, TasksAreKnown, Live
        <4>2. task'[m].slot = i /\ task'[m].at = at
          BY <1>4, <1>7, <3>1
        <4>. QED  BY <1>3, <1>6, <1>9, <3>0, <3>1, <4>1, <4>2
      <3>2. CASE m # n
        <4>1. task'[m] = task[m] /\ task[m].at # "none"
          BY <1>7, <2>1, <3>2
        <4>2. relays'[task[m].slot] = relays[task[m].slot]
          BY <1>6, <1>10, <3>2, <4>1
        <4>. QED  BY <1>9, <3>0, <4>1, <4>2 DEF IInv, TasksAreKnown
      <3>. QED  BY <3>1, <3>2
    <2>. QED  BY <1>2, <2>1 DEF TasksAreKnown
  <1>12. SlotIsFree'
    <2>1. \A m \in Tasks : task[m] = NoTask => m # n
      BY Nothing DEF Live
    <2>2. \A m \in Tasks : Live(m)' => Live(m)
      BY <1>7 DEF Live
    <2>3. \A m \in Tasks : task[m] = NoTask => task'[m] = NoTask
      BY <1>7, <2>1
    <2>. QED  BY <1>2, <1>9, <2>2, <2>3 DEF IInv, SlotIsFree
  <1>13. KeysAreKeys'
    BY <1>2 DEF IInv, KeysAreKeys
  <1>14. WatchedOrTold'
    <2>1. ASSUME NEW m \in Tasks \ shared, Live(m)', task'[m].signer # ""
          PROVE  \/ keys[task[m].slot].key = task[m].signer
                 \/ keys[task[m].slot].key = "" /\ ~relays'[task[m].slot].run
      <3>1. Live(m)
        BY <1>7, <2>1 DEF Live
      <3>2. relays'[task[m].slot].run = relays[task[m].slot].run
        <4>1. CASE m = n
          BY <1>3, <1>5, <1>6, <4>1
        <4>2. CASE m # n
          BY <1>6, <1>10, <3>1, <4>2 DEF Live
        <4>. QED  BY <4>1, <4>2
      <3>. QED  BY <1>9, <2>1, <3>1, <3>2 DEF IInv, WatchedOrTold
    <2>. QED  BY <1>2, <1>9, <2>1 DEF WatchedOrTold
  <1>. QED  BY <1>8, <1>11, <1>12, <1>13, <1>14 DEF IInv

\* A task ends, and lets go of its slot.
LEMMA TaskEndsKeeps ==
    ASSUME IInv, NEW n \in Tasks, TaskEnds(n)
    PROVE  IInv'
  <1>. DEFINE i == task[n].slot
              r == [relays[i] EXCEPT !.state = "stopped", !.handle = 0, !.auth = "none"]
  <1>1. i \in Slot /\ task[n].at = "teardown" /\ relays[i] \in RelayState
    BY TaskHasSlot DEF IInv, TypeOK, TaskEnds
  <1>2. /\ relays' = [relays EXCEPT ![i] = r] /\ task' = [task EXCEPT ![n] = NoTask]
        /\ shared' = shared \ {n} /\ UNCHANGED <<pc, req, taken, keys, where>>
    BY DEF TaskEnds
  <1>3. r \in RelayState
    BY <1>1, Nothing DEF RelayState, Auth
  <1>4. i = task[n].slot
    OBVIOUS
  <1>. HIDE DEF i, r
  <1>5. /\ relays' \in [Slot -> RelayState]
        /\ \A j \in Slot : j # i => relays'[j] = relays[j]
    BY <1>1, <1>2, <1>3 DEF IInv, TypeOK
  <1>6. /\ task' \in [Tasks -> TaskState \cup {NoTask}] /\ task'[n] = NoTask
        /\ \A m \in Tasks : m # n => task'[m] = task[m]
    BY <1>2 DEF IInv, TypeOK
  <1>7. TypeOK'
    BY <1>2, <1>5, <1>6 DEF IInv, TypeOK
  <1>8. ASSUME NEW m \in Tasks \ shared', task'[m].at # "none"
        PROVE  /\ m # n /\ m \in Tasks \ shared /\ task'[m] = task[m] /\ task[m].slot \in Slot
               /\ relays'[task[m].slot] = relays[task[m].slot]
    <2>1. m # n /\ m \in Tasks \ shared /\ task'[m] = task[m]
      BY <1>2, <1>6, <1>8, Nothing
    <2>2. task[m].slot \in Slot /\ task[m].slot # i
      BY <1>4, <1>8, <2>1, TaskHasSlot DEF IInv, TasksAreKnown
    <2>. QED  BY <1>5, <2>1, <2>2
  <1>9. TasksAreKnown'
    <2>1. ASSUME NEW m \in Tasks \ shared', task'[m].at # "none", NEW p \in Tasks,
                 task'[p].slot = task'[m].slot
          PROVE  p = m
      <3>1. CASE p = n
        BY <1>6, <1>8, <2>1, <3>1, Nothing
      <3>2. CASE p # n
        BY <1>6, <1>8, <2>1, <3>2 DEF IInv, TasksAreKnown
      <3>. QED  BY <3>1, <3>2
    <2>. QED  BY <1>8, <2>1 DEF IInv, TasksAreKnown
  <1>10. SlotIsFree'
    <2>1. \A m \in Tasks : task[m] = NoTask => task'[m] = NoTask
      BY <1>6
    <2>2. ASSUME NEW m \in Tasks \ shared', Live(m)'
          PROVE  m \in Tasks \ shared /\ Live(m) /\ task'[m].slot = task[m].slot
      BY <1>8, <2>2 DEF Live
    <2>. QED  BY <1>2, <2>1, <2>2 DEF IInv, SlotIsFree
  <1>11. KeysAreKeys'
    BY <1>2 DEF IInv, KeysAreKeys
  <1>12. WatchedOrTold'
    <2>1. ASSUME NEW m \in Tasks \ shared', Live(m)', task'[m].signer # ""
          PROVE  \/ keys'[task'[m].slot].key = task'[m].signer
                 \/ keys'[task'[m].slot].key = "" /\ ~relays'[task'[m].slot].run
      <3>1. task'[m].at # "none"
        BY <2>1 DEF Live
      <3>2. /\ m \in Tasks \ shared /\ task'[m] = task[m]
            /\ relays'[task[m].slot] = relays[task[m].slot]
        BY <1>8, <2>1, <3>1
      <3>. QED  BY <1>2, <2>1, <3>2 DEF IInv, WatchedOrTold, Live
    <2>. QED  BY <2>1 DEF WatchedOrTold
  <1>. QED  BY <1>7, <1>9, <1>10, <1>11, <1>12 DEF IInv

\* Every step of a relay task.
LEMMA TaskKeeps ==
    ASSUME IInv, NEW n \in Tasks, Task(n)
    PROVE  IInv'
  <1>1. ASSUME NEW ok \in BOOLEAN, TaskConnects(n, ok) PROVE IInv'
    <2>1. Live(n)
      BY <1>1 DEF TaskConnects, Live
    <2>2. \/ GoesOn(n, "error", "teardown") \/ GoesOn(n, "running", "loop")
          \/ GoesOn(n, "authenticating", "auth")
      BY <1>1 DEF TaskConnects
    <2>. QED  BY <2>1, <2>2, TaskGoesOn
  <1>2. ASSUME NEW ok \in BOOLEAN, TaskAuthenticates(n, ok) PROVE IInv'
    <2>1. Live(n)
      BY <1>2 DEF TaskAuthenticates, Live
    <2>2. GoesOn(n, "error", "teardown") \/ GoesOn(n, "running", "loop")
      BY <1>2 DEF TaskAuthenticates
    <2>. QED  BY <2>1, <2>2, TaskGoesOn
  <1>3. CASE TaskLeavesLoop(n)
    <2>1. Live(n) /\ GoesOn(n, relays[task[n].slot].state, "teardown")
      BY <1>3 DEF TaskLeavesLoop, Live
    <2>2. relays[task[n].slot].state \in
              {"idle", "connecting", "authenticating", "running", "stopped", "error"}
      BY <2>1, TaskHasSlot DEF Live, IInv, TypeOK, RelayState
    <2>. QED  BY <2>1, <2>2, TaskGoesOn
  <1>. QED  BY <1>1, <1>2, <1>3, TaskEndsKeeps DEF Task

-----------------------------------------------------------------------------
(* The daemon *)

\* A slot that some task has to itself: its handle is that of a task that has
\* not ended.
Held(i) == \E n \in Tasks \ shared : task[n].at # "none" /\ task[n].slot = i
LEMMA HeldIsKnown ==
    ASSUME IInv, NEW i \in Slot, Held(i)
    PROVE  relays[i].handle # 0 /\ task[relays[i].handle].at # "none"
  <1>1. PICK n \in Tasks \ shared : task[n].at # "none" /\ task[n].slot = i
    BY DEF Held
  <1>2. relays[i].handle = n /\ n # 0
    BY <1>1, TaskHasSlot DEF IInv, TasksAreKnown
  <1>. QED  BY <1>1, <1>2

\* Steps that leave the tasks alone: what they may do to a slot that is held.
LEMMA SlotsAreKept ==
    ASSUME IInv, UNCHANGED <<task, where, shared>>,
           pc' \in {"top", "check", "read", "find", "start", "down"},
           req' \in RequestState, taken' \in 0 .. MaxRequests,
           relays' \in [Slot -> RelayState], keys' \in [Slot -> KeyState],
           \A i \in Slot : Held(i) =>
               /\ relays'[i].state = relays[i].state /\ relays'[i].handle = relays[i].handle
               /\ \/ keys'[i].key = keys[i].key /\ (relays'[i].run => relays[i].run)
                  \/ keys'[i].key = "" /\ ~relays'[i].run,
           SlotIsFree', KeysAreKeys'
    PROVE  IInv'
  <1>1. TypeOK'
    BY DEF IInv, TypeOK
  <1>2. ASSUME NEW n \in Tasks \ shared, task[n].at # "none"
        PROVE  task[n].slot \in Slot /\ Held(task[n].slot)
    BY <1>2, TaskHasSlot DEF IInv, Held
  <1>3. TasksAreKnown'
    <2>1. ASSUME NEW n \in Tasks \ shared, task[n].at # "none"
          PROVE  /\ relays'[task[n].slot].state = relays[task[n].slot].state
                 /\ relays'[task[n].slot].handle = relays[task[n].slot].handle
      BY <1>2, <2>1
    <2>2. ASSUME NEW n \in Tasks \ shared, task[n].at # "none"
          PROVE  /\ task'[n].at = "connect" => relays'[task'[n].slot].state = "connecting"
                 /\ task'[n].at = "auth" => relays'[task'[n].slot].state = "authenticating"
                 /\ task'[n].at = "loop" => relays'[task'[n].slot].state = "running"
                 /\ relays'[task'[n].slot].handle = n
                 /\ \A m \in Tasks : task'[m].slot = task'[n].slot => m = n
      BY <2>1, <2>2 DEF IInv, TasksAreKnown
    <2>. QED  BY <2>2 DEF TasksAreKnown
  <1>4. ASSUME NEW n \in Tasks \ shared, NEW i, i = task[n].slot, Live(n), task[n].signer # ""
        PROVE  keys'[i].key = task[n].signer \/ (keys'[i].key = "" /\ ~relays'[i].run)
    <2>1. keys[i].key = task[n].signer \/ (keys[i].key = "" /\ ~relays[i].run)
      BY <1>4 DEF IInv, WatchedOrTold
    <2>2. i \in Slot /\ Held(i)
      BY <1>2, <1>4 DEF Live
    <2>. QED  BY <1>4, <2>1, <2>2
  <1>5. WatchedOrTold'
    BY <1>4 DEF WatchedOrTold, Live
  <1>. QED  BY <1>1, <1>3, <1>5 DEF IInv

\* The top of a pass: what has ended is cleaned up, which is never a slot whose
\* task has not.
LEMMA LoopTopKeeps ==
    ASSUME IInv, NEW over \in BOOLEAN, LoopTop(over)
    PROVE  IInv'
  <1>1. /\ relays' = [i \in Slot |-> CleanedRelay(relays[i])]
        /\ keys' = [i \in Slot |-> IF over THEN Due(CleanedKey(relays[i], keys[i]))
                                   ELSE CleanedKey(relays[i], keys[i])]
        /\ pc' = IF \E i \in Slot : keys'[i].due THEN "check" ELSE "read"
        /\ UNCHANGED <<req, taken, task, where, shared>>
    BY DEF LoopTop
  <1>2. ASSUME NEW i \in Slot
        PROVE  /\ CleanedRelay(relays[i]) \in RelayState /\ CleanedKey(relays[i], keys[i]) \in KeyState
               /\ Held(i) => /\ CleanedRelay(relays[i]) = relays[i]
                             /\ CleanedKey(relays[i], keys[i]) = keys[i]
               /\ CleanedKey(relays[i], keys[i]).due \/ CleanedKey(relays[i], keys[i]).ending =>
                     CleanedKey(relays[i], keys[i]).key # ""
    <2>1. relays[i] \in RelayState /\ keys[i] \in KeyState
      BY DEF IInv, TypeOK
    <2>2. [Idle EXCEPT !.run = relays[i].run] \in RelayState
      BY <2>1, Nothing DEF RelayState
    <2>3. Held(i) => ~Finished(relays[i])
      BY HeldIsKnown DEF Finished
    <2>4. keys[i].due \/ keys[i].ending => keys[i].key # ""
      BY DEF IInv, KeysAreKeys
    <2>. QED  BY <2>1, <2>2, <2>3, <2>4, Nothing DEF CleanedRelay, CleanedKey
  <1>3. ASSUME NEW i \in Slot
        PROVE  /\ relays'[i] \in RelayState /\ keys'[i] \in KeyState
               /\ Held(i) => relays'[i] = relays[i] /\ keys'[i].key = keys[i].key
               /\ keys'[i].due \/ keys'[i].ending => keys'[i].key # ""
    <2>. DEFINE k == CleanedKey(relays[i], keys[i])
    <2>1. /\ k \in KeyState /\ (Held(i) => k = keys[i])
          /\ k.due \/ k.ending => k.key # ""
      BY <1>2
    <2>2. keys'[i] = IF over THEN Due(k) ELSE k
      BY <1>1
    <2>3. relays'[i] = CleanedRelay(relays[i])
      BY <1>1
    <2>. HIDE DEF k
    <2>. QED  BY <1>2, <2>1, <2>2, <2>3, DueIsKey
  <1>4. relays' \in [Slot -> RelayState] /\ keys' \in [Slot -> KeyState]
    <2>1. relays' = [i \in Slot |-> relays'[i]] /\ keys' = [i \in Slot |-> keys'[i]]
      BY <1>1
    <2>. QED  BY <1>3, <2>1
  <1>5. pc' \in {"check", "read"} /\ (pc' = "check" => \E i \in Slot : keys'[i].due)
    BY <1>1
  <1>6. KeysAreKeys' /\ SlotIsFree'
    BY <1>1, <1>3, <1>5 DEF IInv, KeysAreKeys, SlotIsFree
  <1>7. req' \in RequestState /\ taken' \in 0 .. MaxRequests
    BY <1>1 DEF IInv, TypeOK
  <1>. QED  BY <1>1, <1>3, <1>4, <1>5, <1>6, <1>7, SlotsAreKept

\* What a pass of checks does to each slot: it may tell the sessions of the key
\* it looks at to end, if that has been withdrawn.
LEMMA CheckStep ==
    ASSUME IInv, NEW kept, NEW finds, NEW second, NEW located,
           CheckClientKeys(kept, finds, second, located)
    PROVE  /\ UNCHANGED <<req, taken, task, where, shared>> /\ pc' = "read"
           /\ relays' \in [Slot -> RelayState] /\ keys' \in [Slot -> KeyState]
           /\ \A i \in Slot :
                /\ relays'[i].state = relays[i].state /\ relays'[i].handle = relays[i].handle
                /\ relays'[i].run => relays[i].run
                /\ keys'[i].key = keys[i].key
                /\ keys'[i].due \/ keys'[i].ending => keys'[i].key # ""
                /\ keys'[i].ending /\ ~keys[i].ending =>
                      keys[i].key \in Key /\ where[keys[i].key] \in {"r", "d"}
  <1>. DEFINE d     == FirstDue
              found == CheckKey(where[keys[d].key], kept, finds, second, located)
              Now(j) == Checked(keys[j], found)
              Hit(j) == keys[j].key = keys[d].key
  <1>1. d \in Slot /\ keys[d].key # ""
    <2>1. \E i \in Slot : keys[i].due
      BY DEF IInv, KeysAreKeys, CheckClientKeys
    <2>. QED  BY <2>1, FirstDueIsDue DEF IInv, KeysAreKeys
  <1>2. /\ keys' = [j \in Slot |-> IF Hit(j) THEN Now(j) ELSE keys[j]]
        /\ relays' = [j \in Slot |-> IF Hit(j) /\ Now(j).ending /\ ~keys[j].ending
                                     THEN [relays[j] EXCEPT !.run = FALSE] ELSE relays[j]]
        /\ UNCHANGED <<req, taken, task, where, shared>> /\ pc' = "read"
    BY DEF CheckClientKeys, SignedWith
  <1>3. found \in {"revoked", "deleted"} => where[keys[d].key] \in {"r", "d"}
    BY CheckKeyIsSound
  <1>4. ASSUME NEW j \in Slot
        PROVE  /\ Now(j) \in KeyState /\ Now(j).key = keys[j].key /\ ~Now(j).due
               /\ Now(j).ending => keys[j].ending \/ found \in {"revoked", "deleted"}
    BY CheckedIsKey DEF IInv, TypeOK
  <1>. HIDE DEF d, found, Now
  <1>5. ASSUME NEW j \in Slot
        PROVE  /\ relays'[j] \in RelayState /\ keys'[j] \in KeyState
               /\ relays'[j].state = relays[j].state /\ relays'[j].handle = relays[j].handle
               /\ relays'[j].run => relays[j].run
    <2>1. relays[j] \in RelayState /\ keys[j] \in KeyState
      BY DEF IInv, TypeOK
    <2>2. keys'[j] \in KeyState
      BY <1>2, <1>4, <2>1
    <2>3. relays'[j] = relays[j] \/ relays'[j] = [relays[j] EXCEPT !.run = FALSE]
      BY <1>2
    <2>. QED  BY <2>1, <2>2, <2>3 DEF RelayState
  <1>6. ASSUME NEW j \in Slot
        PROVE  /\ keys'[j].key = keys[j].key
               /\ keys'[j].due \/ keys'[j].ending => keys'[j].key # ""
               /\ keys'[j].ending /\ ~keys[j].ending =>
                     keys[j].key \in Key /\ where[keys[j].key] \in {"r", "d"}
    <2>0. keys[j].due \/ keys[j].ending => keys[j].key # ""
      BY DEF IInv, KeysAreKeys
    <2>1. CASE Hit(j)
      <3>1. keys'[j] = Now(j)
        BY <1>2, <2>1
      <3>2. keys[j].key \in Key
        BY <1>1, <2>1 DEF IInv, TypeOK, KeyState, MaybeKey
      <3>. QED  BY <1>1, <1>3, <1>4, <2>1, <3>1, <3>2
    <2>2. CASE ~Hit(j)
      <3>1. keys'[j] = keys[j]
        BY <1>2, <2>2
      <3>. QED  BY <2>0, <3>1
    <2>. QED  BY <2>1, <2>2
  <1>7. relays' \in [Slot -> RelayState] /\ keys' \in [Slot -> KeyState]
    <2>1. relays' = [i \in Slot |-> relays'[i]] /\ keys' = [i \in Slot |-> keys'[i]]
      BY <1>2
    <2>. QED  BY <1>5, <2>1
  <1>. QED  BY <1>2, <1>5, <1>6, <1>7

\* A pass of checks.
LEMMA CheckClientKeysKeeps ==
    ASSUME IInv, NEW kept, NEW finds, NEW second, NEW located,
           CheckClientKeys(kept, finds, second, located)
    PROVE  IInv'
  <1>1. KeysAreKeys' /\ SlotIsFree'
    BY CheckStep DEF IInv, KeysAreKeys, SlotIsFree
  <1>2. req' \in RequestState /\ taken' \in 0 .. MaxRequests
    BY CheckStep DEF IInv, TypeOK
  <1>. QED  BY <1>1, <1>2, CheckStep, SlotsAreKept

\* Steps that only take the pass further, or the daemon up.
LEMMA PassGoesOn ==
    ASSUME IInv, ReadNothing \/ Begin
    PROVE  IInv'
  <1>1. pc' = "top" /\ UNCHANGED <<req, taken, relays, task, keys, where, shared>>
    BY DEF ReadNothing, Begin
  <1>2. TypeOK'
    BY <1>1 DEF IInv, TypeOK
  <1>. QED  BY <1>1, <1>2 DEF IInv, TasksAreKnown, SlotIsFree, KeysAreKeys, WatchedOrTold, Live

\* A request is let through, with the key it is to be watched under, or refused.
LEMMA ReadRequestKeeps ==
    ASSUME IInv, NEW q \in Request, NEW fetched, NEW https, NEW own,
           ReadRequest(q, fetched, https, own)
    PROVE  IInv'
  <1>1. UNCHANGED <<relays, task, keys, where, shared>> /\ taken < MaxRequests
    BY DEF ReadRequest
  <1>2. PICK verdict : \E looked, ad :
          /\ verdict = IF EnrollmentFields(q) # "lookup" THEN EnrollmentFields(q)
                       ELSE EnrollmentVerdict(q, looked, ad)
          /\ \/ /\ pc' = "find" /\ taken' = taken + 1
                /\ req' = [q |-> q, key |-> CheckClientSigningKey(q, verdict).key,
                           slot |-> 0, auth |-> "none"]
             \/ pc' = "top" /\ UNCHANGED <<req, taken>>
    BY DEF ReadRequest
  <1>3. CheckClientSigningKey(q, verdict).key \in MaybeKey
    BY <1>2, VerdictIsKnown
  <1>4. Slots \in Nat /\ MaxRequests \in Nat /\ taken \in 0 .. MaxRequests
    BY EspSessionsAssumption DEF IInv, TypeOK
  <1>5. req' \in RequestState /\ (pc' = "find" => req'.q = q)
    <2>1. CASE UNCHANGED req /\ pc' = "top"
      BY <2>1 DEF IInv, TypeOK
    <2>2. CASE req' = [q |-> q, key |-> CheckClientSigningKey(q, verdict).key,
                       slot |-> 0, auth |-> "none"]
      <3>. DEFINE k == CheckClientSigningKey(q, verdict).key
      <3>1. k \in MaybeKey /\ req' = [q |-> q, key |-> k, slot |-> 0, auth |-> "none"]
        BY <1>3, <2>2
      <3>. HIDE DEF k
      <3>2. 0 \in 0 .. Slots
        BY <1>4
      <3>. QED  BY <3>1, <3>2 DEF RequestState, Auth
    <2>. QED  BY <1>2, <2>1, <2>2
  <1>6. taken' \in 0 .. MaxRequests
    BY <1>1, <1>2, <1>4
  <1>7. pc' \in {"find", "top"}
    BY <1>2
  <1>8. SlotIsFree' /\ KeysAreKeys'
    <2>1. pc' = "find" => taken' \in Tasks /\ taken' > taken
      BY <1>1, <1>2, <1>4 DEF Tasks
    <2>2. \A n \in Tasks : n > taken' => n > taken
      BY <1>2, <1>4 DEF Tasks
    <2>. QED  BY <1>1, <1>5, <1>7, <2>1, <2>2 DEF IInv, SlotIsFree, KeysAreKeys
  <1>9. relays' \in [Slot -> RelayState] /\ keys' \in [Slot -> KeyState]
    BY <1>1 DEF IInv, TypeOK
  <1>. QED  BY <1>1, <1>5, <1>6, <1>7, <1>8, <1>9, SlotsAreKept

\* noports_relay_is_running forgets a task only after it has ended.
LEMMA ResetIsARelay ==
    ASSUME IInv, NEW i \in Slot, NEW deleted
    PROVE  /\ Reset(relays[i], deleted) \in RelayState
           /\ Held(i) => Reset(relays[i], deleted) = relays[i]
  <1>1. relays[i] \in RelayState
    BY DEF IInv, TypeOK
  <1>2. [relays[i] EXCEPT !.state = "stopped", !.handle = 0] \in RelayState
    BY <1>1, Nothing DEF RelayState
  <1>3. Held(i) => relays[i].handle # 0 /\ task[relays[i].handle].at # "none"
    BY HeldIsKnown
  <1>. QED  BY <1>1, <1>2, <1>3 DEF Reset

\* A slot is found for the request, or it ends.
LEMMA FindSlotKeeps ==
    ASSUME IInv, NEW deleted, NEW signs, NEW memory, FindSlot(deleted, signs, memory)
    PROVE  IInv'
  <1>. DEFINE rs == [i \in Slot |-> Reset(relays[i], deleted)]
              slot == FindFreeRelaySlot(rs)
  <1>1. /\ relays' = [i \in Slot |-> IF slot = 0 \/ i <= slot THEN rs[i] ELSE relays[i]]
        /\ \/ /\ slot # 0 /\ pc' = "start"
              /\ req' = [req EXCEPT !.slot = slot, !.auth = RelayAuth(req.q, signs)]
           \/ pc' = "top" /\ req' = NoRequest
        /\ UNCHANGED <<taken, task, keys, where, shared>> /\ pc = "find"
    BY DEF FindSlot
  <1>2. \A i \in Slot : relays'[i] \in {relays[i], Reset(relays[i], deleted)}
    BY <1>1
  <1>3. slot # 0 => slot \in Slot /\ ~IsRunning(Reset(relays[slot], deleted))
    <2>1. slot # 0 => slot \in Slot /\ ~IsRunning(rs[slot])
      BY FoundSlotIsFree
    <2>. QED  BY <2>1
  <1>. HIDE DEF slot, rs
  <1>4. relays' \in [Slot -> RelayState] /\ \A i \in Slot : Held(i) => relays'[i] = relays[i]
    <2>1. relays' = [i \in Slot |-> relays'[i]]
      BY <1>1
    <2>2. \A i \in Slot : relays[i] \in RelayState
      BY DEF IInv, TypeOK
    <2>. QED  BY <1>2, <2>1, <2>2, ResetIsARelay
  <1>5. ASSUME slot # 0 PROVE slot \in Slot /\ \A n \in Tasks \ shared : Live(n) => task[n].slot # slot
    <2>1. ASSUME NEW n \in Tasks \ shared, Live(n), task[n].slot = slot PROVE FALSE
      <3>1. Reset(relays[slot], deleted) = relays[slot]
        BY <1>3, <1>5, <2>1, ResetIsARelay DEF Live, Held
      <3>2. IsRunning(relays[slot])
        BY <2>1 DEF IInv, TasksAreKnown, Live, IsRunning
      <3>. QED  BY <1>3, <1>5, <3>1, <3>2
    <2>. QED  BY <1>3, <1>5, <2>1
  <1>6. req' \in RequestState /\ (pc' = "start" => req'.q = req.q /\ req'.slot = slot /\ slot # 0)
    <2>1. CASE pc' = "top" /\ req' = NoRequest
      BY <2>1, Nothing
    <2>2. CASE /\ slot # 0
               /\ req' = [req EXCEPT !.slot = slot, !.auth = RelayAuth(req.q, signs)]
      <3>1. RelayAuth(req.q, signs) \in Auth
        BY DEF RelayAuth, Auth
      <3>2. slot \in 0 .. Slots
        BY <1>5, <2>2, EspSessionsAssumption DEF Slot
      <3>3. req \in RequestState
        BY DEF IInv, TypeOK
      <3>. QED  BY <2>2, <3>1, <3>2, <3>3 DEF RequestState
    <2>. QED  BY <1>1, <2>1, <2>2
  <1>7. req.q \in Request
    BY <1>1 DEF IInv, SlotIsFree
  <1>8. pc' \in {"start", "top"}
    BY <1>1
  <1>9. SlotIsFree'
    BY <1>1, <1>5, <1>6, <1>7, <1>8 DEF IInv, SlotIsFree, Live
  <1>10. KeysAreKeys' /\ keys' \in [Slot -> KeyState] /\ taken' \in 0 .. MaxRequests
    BY <1>1, <1>8 DEF IInv, TypeOK, KeysAreKeys
  <1>. QED  BY <1>1, <1>4, <1>6, <1>8, <1>9, <1>10, SlotsAreKept

\* The relay of a request starts, or cannot: its slot's key is the request's
\* before anything of its task can be seen, and a task that is in the slot
\* still has it to itself no more.
LEMMA StartRelayKeeps ==
    ASSUME IInv, NEW outcome \in {"no task", "no heap", "runs"}, StartRelay(outcome)
    PROVE  IInv'
  <1>. DEFINE i == req.slot
              n == taken
              s == [relays[i] EXCEPT !.state = "idle", !.run = TRUE, !.id = req.q.id, !.auth = req.auth]
              new == [slot |-> i, at |-> "connect", signer |-> req.key]
  <1>1. /\ i \in Slot /\ relays[i] \in RelayState /\ keys[i] \in KeyState
        /\ req \in RequestState /\ req.q \in Request /\ req.key \in MaybeKey
        /\ n \in Tasks /\ task[n] = NoTask
    BY DEF StartRelay, IInv, SlotIsFree, TypeOK, RequestState
  <1>2. s \in RelayState /\ new \in TaskState /\ n \in 0 .. MaxRequests
    BY <1>1, TaskHasSlot DEF RelayState, RequestState, TaskState, IInv
  <1>3. new.slot = i /\ new.at = "connect" /\ new.signer = req.key
    OBVIOUS
  <1>4. PICK r \in RelayState, t \in {NoTask, new}, k \in KeyState :
          /\ relays' = [relays EXCEPT ![i] = r] /\ task' = [task EXCEPT ![n] = t]
          /\ keys' = [keys EXCEPT ![i] = k]
          /\ t = new => /\ r.state = "connecting" /\ r.handle = n
                        /\ (req.key # "" => k.key = req.key)
          /\ k.due \/ k.ending => k.key # ""
    <2>. DEFINE stored == StoredKey(keys[i], req.key)
    <2>1. /\ stored \in KeyState /\ (req.key # "" => stored.key = req.key)
          /\ (stored.due \/ stored.ending => stored.key # "")
      <3>1. CASE req.key = ""
        BY <1>1, <3>1 DEF StoredKey, IInv, KeysAreKeys
      <3>2. CASE req.key # ""
        <4>1. stored = [NoKey EXCEPT !.key = req.key]
          BY <3>2 DEF StoredKey
        <4>. QED  BY <1>1, <3>2, <4>1, Nothing DEF KeyState
      <3>. QED  BY <3>1, <3>2
    <2>2. /\ keys = [keys EXCEPT ![i] = keys[i]] /\ (keys[i].due \/ keys[i].ending => keys[i].key # "")
          /\ task = [task EXCEPT ![n] = NoTask]
      BY <1>1 DEF IInv, TypeOK, KeysAreKeys
    <2>3. CASE outcome = "no task"
      <3>1. relays' = [relays EXCEPT ![i] = s] /\ task' = task /\ keys' = keys
        BY <2>3 DEF StartRelay
      <3>2. NoTask # new
        BY <1>3, Nothing
      <3>. HIDE DEF i, n, s, new, stored
      <3>. QED  BY <1>1, <1>2, <2>2, <3>1, <3>2
    <2>4. CASE outcome = "no heap"
      <3>. DEFINE r == [s EXCEPT !.state = "error", !.handle = n]
      <3>1. /\ relays' = [relays EXCEPT ![i] = r] /\ task' = task
            /\ keys' = [keys EXCEPT ![i] = stored]
        BY <2>4 DEF StartRelay
      <3>2. NoTask # new
        BY <1>3, Nothing
      <3>. HIDE DEF i, n, s, new, stored
      <3>3. r \in RelayState
        BY <1>2 DEF RelayState
      <3>. HIDE DEF r
      <3>. QED  BY <2>1, <2>2, <3>1, <3>2, <3>3
    <2>5. CASE outcome = "runs"
      <3>. DEFINE r == [s EXCEPT !.state = "connecting", !.handle = n]
      <3>1. /\ relays' = [relays EXCEPT ![i] = r] /\ task' = [task EXCEPT ![n] = new]
            /\ keys' = [keys EXCEPT ![i] = stored]
        BY <2>5 DEF StartRelay
      <3>. HIDE DEF i, n, s, new, stored
      <3>2. r \in RelayState /\ r.state = "connecting" /\ r.handle = n
        BY <1>2 DEF RelayState
      <3>. HIDE DEF r
      <3>. QED  BY <2>1, <3>1, <3>2
    <2>. QED  BY <2>3, <2>4, <2>5
  <1>5. /\ TasksIn(i) \subseteq shared' /\ shared \subseteq shared' /\ shared' \subseteq Tasks
        /\ shared' \subseteq shared \cup TasksIn(i) \cup {n}
        /\ pc' = "top" /\ req' = NoRequest /\ UNCHANGED <<taken, where>>
        /\ n \notin shared' => TasksIn(i) = {} \/ task' = task
    BY <1>1 DEF StartRelay, TasksIn, IInv, TypeOK
  <1>. HIDE DEF s, new
  <1>6. /\ relays' \in [Slot -> RelayState] /\ relays'[i] = r
        /\ \A j \in Slot : j # i => relays'[j] = relays[j]
    BY <1>1, <1>4 DEF IInv, TypeOK
  <1>7. /\ task' \in [Tasks -> TaskState \cup {NoTask}] /\ task'[n] = t
        /\ \A m \in Tasks : m # n => task'[m] = task[m]
    BY <1>1, <1>2, <1>4 DEF IInv, TypeOK
  <1>8. /\ keys' \in [Slot -> KeyState] /\ keys'[i] = k
        /\ \A j \in Slot : j # i => keys'[j] = keys[j]
    BY <1>1, <1>4 DEF IInv, TypeOK
  <1>9. TypeOK'
    BY <1>5, <1>6, <1>7, <1>8, Nothing DEF IInv, TypeOK
  <1>. HIDE DEF i, n
  \* Of the tasks that have their slot to themselves afterwards, the new one is in
  \* the slot, and no other.
  <1>10. ASSUME NEW m \in Tasks \ shared', task'[m].at # "none", m # n
         PROVE  /\ m \in Tasks \ shared /\ task'[m] = task[m] /\ task[m].at # "none"
                /\ task[m].slot \in Slot /\ task[m].slot # i
    <2>1. m \in Tasks \ shared /\ task'[m] = task[m] /\ m \notin TasksIn(i)
      BY <1>5, <1>7, <1>10
    <2>. QED  BY <1>10, <2>1, TaskHasSlot DEF IInv, TasksIn
  <1>11. ASSUME n \notin shared', task'[n].at # "none"
         PROVE  t = new /\ TasksIn(i) = {}
    <2>1. t = new
      BY <1>4, <1>7, <1>11, Nothing
    <2>2. task'[n] # task[n]
      BY <1>1, <1>7, <1>11, Nothing
    <2>. QED  BY <1>5, <1>11, <2>1, <2>2
  <1>12. TasksAreKnown'
    <2>1. ASSUME NEW m \in Tasks \ shared', task'[m].at # "none"
          PROVE  /\ task'[m].at = "connect" => relays'[task'[m].slot].state = "connecting"
                 /\ task'[m].at = "auth" => relays'[task'[m].slot].state = "authenticating"
                 /\ task'[m].at = "loop" => relays'[task'[m].slot].state = "running"
                 /\ relays'[task'[m].slot].handle = m
                 /\ \A p \in Tasks : task'[p].slot = task'[m].slot => p = m
      <3>1. CASE m = n
        <4>1. t = new /\ TasksIn(i) = {}
          BY <1>11, <2>1, <3>1
        <4>2. task'[m].slot = i /\ task'[m].at = "connect"
          BY <1>3, <1>7, <3>1, <4>1
        <4>3. ASSUME NEW p \in Tasks, p # n PROVE task'[p].slot # i
          BY <1>7, <4>1, <4>3 DEF TasksIn
        <4>. QED  BY <1>4, <1>6, <3>1, <4>1, <4>2, <4>3
      <3>2. CASE m # n
        <4>1. /\ m \in Tasks \ shared /\ task'[m] = task[m] /\ task[m].at # "none"
              /\ relays'[task[m].slot] = relays[task[m].slot] /\ task[m].slot # i
              /\ task[m].slot \in Slot
          BY <1>6, <1>10, <2>1, <3>2
        <4>2. ASSUME NEW p \in Tasks, task'[p].slot = task[m].slot PROVE p = m
          <5>1. CASE p = n
            <6>1. task'[p].slot = i \/ task'[p].slot \notin Slot
              BY <1>3, <1>4, <1>7, <5>1, Nothing
            <6>. QED  BY <4>1, <4>2, <6>1
          <5>2. CASE p # n
            <6>1. task[p].slot = task[m].slot
              BY <1>7, <4>2, <5>2
            <6>. QED  BY <4>1, <6>1 DEF IInv, TasksAreKnown
          <5>. QED  BY <5>1, <5>2
        <4>3. /\ task[m].at = "connect" => relays[task[m].slot].state = "connecting"
              /\ task[m].at = "auth" => relays[task[m].slot].state = "authenticating"
              /\ task[m].at = "loop" => relays[task[m].slot].state = "running"
              /\ relays[task[m].slot].handle = m
          BY <4>1 DEF IInv, TasksAreKnown
        <4>. QED  BY <4>1, <4>2, <4>3
      <3>. QED  BY <3>1, <3>2
    <2>. QED  BY <2>1 DEF TasksAreKnown
  <1>13. SlotIsFree'
    <2>1. \A m \in Tasks : m > taken => m # n /\ task[m] = NoTask
      <3>1. \A m \in Tasks : m > taken => task[m] = NoTask
        BY DEF IInv, SlotIsFree
      <3>2. \A m \in Tasks : m > taken => m # taken
        BY LaterIsAnother DEF IInv, TypeOK
      <3>. QED  BY <3>1, <3>2 DEF n
    <2>. QED  BY <1>5, <1>7, <2>1 DEF SlotIsFree
  <1>14. KeysAreKeys'
    <2>1. \A j \in Slot : keys'[j].due \/ keys'[j].ending => keys'[j].key # ""
      BY <1>4, <1>8 DEF IInv, KeysAreKeys
    <2>. QED  BY <1>5, <2>1 DEF KeysAreKeys
  <1>15. WatchedOrTold'
    <2>1. ASSUME NEW m \in Tasks \ shared', Live(m)', task'[m].signer # ""
          PROVE  \/ keys'[task'[m].slot].key = task'[m].signer
                 \/ keys'[task'[m].slot].key = "" /\ ~relays'[task'[m].slot].run
      <3>1. CASE m = n
        <4>1. t = new
          BY <1>11, <2>1, <3>1 DEF Live
        <4>. QED  BY <1>3, <1>4, <1>7, <1>8, <2>1, <3>1, <4>1
      <3>2. CASE m # n
        <4>1. task'[m].at # "none"
          BY <2>1 DEF Live
        <4>2. /\ m \in Tasks \ shared /\ task'[m] = task[m]
              /\ task[m].slot \in Slot /\ task[m].slot # i
          BY <1>10, <2>1, <3>2, <4>1
        <4>3. keys'[task[m].slot] = keys[task[m].slot] /\ relays'[task[m].slot] = relays[task[m].slot]
          BY <1>6, <1>8, <4>2
        <4>. QED  BY <2>1, <4>2, <4>3 DEF IInv, WatchedOrTold, Live
      <3>. QED  BY <3>1, <3>2
    <2>. QED  BY <2>1 DEF WatchedOrTold
  <1>. QED  BY <1>9, <1>12, <1>13, <1>14, <1>15 DEF IInv

\* stop() forgets the keys, and tells every session to end.
LEMMA StopKeeps ==
    ASSUME IInv, NEW deleted, Stop(deleted)
    PROVE  IInv'
  <1>. DEFINE R(i) == Reset(relays[i], deleted)
  <1>1. /\ relays' = [i \in Slot |-> IF IsRunning(R(i)) THEN [R(i) EXCEPT !.run = FALSE] ELSE R(i)]
        /\ keys' = [i \in Slot |-> NoKey] /\ pc' = "down"
        /\ UNCHANGED <<req, taken, task, where, shared>>
    BY DEF Stop
  <1>2. ASSUME NEW i \in Slot
        PROVE  /\ relays'[i] \in RelayState
               /\ Held(i) => /\ relays'[i].state = relays[i].state
                             /\ relays'[i].handle = relays[i].handle
                             /\ IsRunning(relays[i]) => ~relays'[i].run
    <2>1. R(i) \in RelayState /\ (Held(i) => R(i) = relays[i])
      BY ResetIsARelay
    <2>2. relays'[i] = IF IsRunning(R(i)) THEN [R(i) EXCEPT !.run = FALSE] ELSE R(i)
      BY <1>1
    <2>. HIDE DEF R
    <2>. QED  BY <2>1, <2>2 DEF RelayState
  <1>. HIDE DEF R
  <1>3. relays' \in [Slot -> RelayState] /\ keys' \in [Slot -> KeyState]
    <2>1. relays' = [i \in Slot |-> relays'[i]]
      BY <1>1
    <2>. QED  BY <1>1, <1>2, <2>1, Nothing
  <1>4. TypeOK'
    BY <1>1, <1>3 DEF IInv, TypeOK
  <1>5. ASSUME NEW n \in Tasks \ shared, task[n].at # "none"
        PROVE  task[n].slot \in Slot /\ Held(task[n].slot)
    BY <1>5, TaskHasSlot DEF IInv, Held
  <1>6. TasksAreKnown'
    <2>1. ASSUME NEW n \in Tasks \ shared, task[n].at # "none"
          PROVE  /\ relays'[task[n].slot].state = relays[task[n].slot].state
                 /\ relays'[task[n].slot].handle = relays[task[n].slot].handle
      BY <1>2, <1>5, <2>1
    <2>. QED  BY <1>1, <2>1 DEF IInv, TasksAreKnown
  <1>7. SlotIsFree' /\ KeysAreKeys'
    BY <1>1, Nothing DEF IInv, SlotIsFree, KeysAreKeys
  <1>8. WatchedOrTold'
    <2>1. ASSUME NEW n \in Tasks \ shared, Live(n)
          PROVE  keys'[task[n].slot].key = "" /\ ~relays'[task[n].slot].run
      <3>1. IsRunning(relays[task[n].slot])
        BY <2>1 DEF IInv, TasksAreKnown, Live, IsRunning
      <3>2. task[n].slot \in Slot /\ Held(task[n].slot)
        BY <1>5, <2>1 DEF Live
      <3>. QED  BY <1>1, <1>2, <3>1, <3>2, Nothing
    <2>. QED  BY <1>1, <2>1 DEF WatchedOrTold, Live
  <1>. QED  BY <1>4, <1>6, <1>7, <1>8 DEF IInv

\* The device crashes, and begins again.
LEMMA CrashKeeps ==
    ASSUME IInv, Crash
    PROVE  IInv'
  <1>1. /\ pc' = "top" /\ req' = NoRequest /\ shared' = {} /\ UNCHANGED <<taken, where>>
        /\ relays' = [i \in Slot |-> Idle] /\ keys' = [i \in Slot |-> NoKey]
        /\ task' = [n \in Tasks |-> NoTask]
    BY DEF Crash
  <1>2. TypeOK'
    BY <1>1, Nothing DEF IInv, TypeOK
  <1>3. /\ \A n \in Tasks : task'[n] = NoTask
        /\ \A i \in Slot : keys'[i] = NoKey
    BY <1>1
  <1>. QED  BY <1>1, <1>2, <1>3, Nothing DEF IInv, TasksAreKnown, SlotIsFree, KeysAreKeys, WatchedOrTold, Live

\* An enrollment is withdrawn.
LEMMA KeyMovesKeeps ==
    ASSUME IInv, NEW k \in Key, NEW to \in {"gone", "r", "d"}, KeyMoves(k, to)
    PROVE  IInv'
  <1>1. where' \in [Key -> {"a", "r", "d", "gone"}]
        /\ UNCHANGED <<pc, req, taken, relays, task, keys, shared>>
    BY DEF IInv, TypeOK, KeyMoves
  <1>2. TypeOK'
    BY <1>1 DEF IInv, TypeOK
  <1>. QED  BY <1>1, <1>2 DEF IInv, TasksAreKnown, SlotIsFree, KeysAreKeys, WatchedOrTold, Live

-----------------------------------------------------------------------------
(* Which sessions are told to end *)

\* A key is marked withdrawn by the re-check that finds it so, and by nothing
\* else: whatever was marked before was marked for the same key.
MarkedOnlyByCheck ==
    \A i \in Slot : keys'[i].ending =>
        /\ keys'[i].key = keys[i].key
        /\ keys[i].ending \/ (keys[i].key \in Key /\ where[keys[i].key] \in {"r", "d"})

\* Every step marks keys only so.
LEMMA EveryStepMarksOnlyByCheck ==
    ASSUME IInv, Next
    PROVE  MarkedOnlyByCheck
  <1>1. CASE UNCHANGED keys
    BY <1>1 DEF MarkedOnlyByCheck
  <1>2. ASSUME NEW over \in BOOLEAN, LoopTop(over) PROVE MarkedOnlyByCheck
    <2>1. ASSUME NEW i \in Slot, keys'[i].ending
          PROVE  keys'[i].key = keys[i].key /\ keys[i].ending
      <3>. DEFINE k == CleanedKey(relays[i], keys[i])
      <3>1. keys'[i] = IF over THEN Due(k) ELSE k
        BY <1>2 DEF LoopTop
      <3>2. k \in KeyState /\ (k = keys[i] \/ ~k.ending)
        BY Nothing DEF CleanedKey, IInv, TypeOK
      <3>. HIDE DEF k
      <3>3. Due(k).key = k.key /\ Due(k).ending = k.ending
        BY <3>2, DueIsKey
      <3>4. keys'[i].key = k.key /\ keys'[i].ending = k.ending
        BY <3>1, <3>3
      <3>. QED  BY <2>1, <3>2, <3>4
    <2>. QED  BY <2>1 DEF MarkedOnlyByCheck
  <1>3. ASSUME NEW kept \in Answer, NEW second \in Answer, NEW finds \in BOOLEAN,
               NEW located \in BOOLEAN, CheckClientKeys(kept, finds, second, located)
        PROVE  MarkedOnlyByCheck
    BY <1>3, CheckStep DEF MarkedOnlyByCheck
  <1>4. ASSUME NEW outcome \in {"no task", "no heap", "runs"}, StartRelay(outcome)
        PROVE  MarkedOnlyByCheck
    <2>1. keys' = keys \/ keys' = [keys EXCEPT ![req.slot] = StoredKey(keys[req.slot], req.key)]
      BY <1>4 DEF StartRelay
    <2>2. \A k \in KeyState : StoredKey(k, req.key) = k \/ ~StoredKey(k, req.key).ending
      BY DEF StoredKey, NoKey
    <2>3. keys \in [Slot -> KeyState]
      BY DEF IInv, TypeOK
    <2>4. ASSUME NEW i \in Slot PROVE keys'[i] = keys[i] \/ ~keys'[i].ending
      <3>1. keys'[i] = keys[i] \/ keys'[i] = StoredKey(keys[i], req.key)
        BY <2>1, <2>3
      <3>2. keys[i] \in KeyState
        BY <2>3
      <3>. QED  BY <2>2, <3>1, <3>2
    <2>. QED  BY <2>4 DEF MarkedOnlyByCheck
  <1>5. ASSUME Crash \/ \E deleted \in BOOLEAN : Stop(deleted) PROVE MarkedOnlyByCheck
    <2>1. keys' = [i \in Slot |-> NoKey]
      BY <1>5 DEF Crash, Stop
    <2>. QED  BY <2>1, Nothing DEF MarkedOnlyByCheck
  <1>6. ASSUME NEW n \in Tasks, Task(n) PROVE UNCHANGED keys
    BY <1>6 DEF Task, TaskConnects, TaskAuthenticates, TaskLeavesLoop, TaskEnds, GoesOn
  <1>7. ASSUME NEW q \in Request, NEW fetched \in BOOLEAN, NEW https \in Answer, NEW own \in Answer,
               ReadRequest(q, fetched, https, own)
        PROVE  UNCHANGED keys
    BY <1>7 DEF ReadRequest
  <1>8. ASSUME NEW deleted \in BOOLEAN, NEW signs \in BOOLEAN, NEW memory \in BOOLEAN,
               FindSlot(deleted, signs, memory)
        PROVE  UNCHANGED keys
    BY <1>8 DEF FindSlot
  <1>9. ReadNothing \/ Begin => UNCHANGED keys
    BY DEF ReadNothing, Begin
  <1>10. ASSUME NEW k \in Key, NEW to \in {"gone", "r", "d"}, KeyMoves(k, to) PROVE UNCHANGED keys
    BY <1>10 DEF KeyMoves
  <1>. QED  BY <1>1, <1>2, <1>3, <1>4, <1>5, <1>6, <1>7, <1>8, <1>9, <1>10 DEF Next, Daemon

\* A key that is marked withdrawn has been.
MarkedIsWithdrawn ==
    \A i \in Slot : keys[i].ending => keys[i].key \in Key /\ where[keys[i].key] \in {"r", "d"}

\* It stays so, as no enrollment is taken back.
LEMMA StaysWithdrawn ==
    ASSUME IInv, Next, MarkedIsWithdrawn
    PROVE  MarkedIsWithdrawn'
  <1>1. MarkedOnlyByCheck
    BY EveryStepMarksOnlyByCheck
  <1>2. ASSUME NEW k \in Key, where[k] \in {"r", "d"} PROVE where'[k] \in {"r", "d"}
    <2>1. CASE UNCHANGED where
      BY <1>2, <2>1
    <2>2. ASSUME NEW j \in Key, NEW to \in {"gone", "r", "d"}, KeyMoves(j, to)
          PROVE  where'[k] \in {"r", "d"}
      <3>1. where[j] \in {"r", "d"} => to \in {"r", "d"}
        BY <2>2, WithdrawnAssumption DEF KeyMoves
      <3>. QED  BY <1>2, <2>2, <3>1 DEF KeyMoves, IInv, TypeOK
    <2>3. (\E j \in Key, to \in {"gone", "r", "d"} : KeyMoves(j, to)) \/ UNCHANGED where
      <3>1. ASSUME Daemon PROVE UNCHANGED where
        <4>1. ASSUME NEW over \in BOOLEAN, LoopTop(over) PROVE UNCHANGED where
          BY <4>1 DEF LoopTop
        <4>2. ASSUME NEW kept \in Answer, NEW second \in Answer, NEW finds \in BOOLEAN,
                     NEW located \in BOOLEAN, CheckClientKeys(kept, finds, second, located)
              PROVE  UNCHANGED where
          BY <4>2 DEF CheckClientKeys
        <4>3. ASSUME NEW q \in Request, NEW fetched \in BOOLEAN, NEW https \in Answer,
                     NEW own \in Answer, ReadRequest(q, fetched, https, own)
              PROVE  UNCHANGED where
          BY <4>3 DEF ReadRequest
        <4>4. ASSUME NEW deleted \in BOOLEAN, NEW signs \in BOOLEAN, NEW memory \in BOOLEAN,
                     FindSlot(deleted, signs, memory)
              PROVE  UNCHANGED where
          BY <4>4 DEF FindSlot
        <4>5. ASSUME NEW outcome \in {"no task", "no heap", "runs"}, StartRelay(outcome)
              PROVE  UNCHANGED where
          BY <4>5 DEF StartRelay
        <4>6. ReadNothing => UNCHANGED where
          BY DEF ReadNothing
        <4>. QED  BY <3>1, <4>1, <4>2, <4>3, <4>4, <4>5, <4>6 DEF Daemon
      <3>2. (\E n \in Tasks : Task(n)) => UNCHANGED where
        BY DEF Task, TaskConnects, TaskAuthenticates, TaskLeavesLoop, TaskEnds, GoesOn
      <3>3. (\E deleted \in BOOLEAN : Stop(deleted)) \/ Begin \/ Crash => UNCHANGED where
        BY DEF Stop, Begin, Crash
      <3>. QED  BY <3>1, <3>2, <3>3 DEF Next
    <2>. QED  BY <2>1, <2>2, <2>3
  <1>. QED  BY <1>1, <1>2 DEF MarkedOnlyByCheck, MarkedIsWithdrawn

-----------------------------------------------------------------------------
(* Theorems *)

\* The inductive invariant holds in every state of every behaviour.
THEOREM Invariance == Spec => []IInv
  <1>1. Init => IInv
    <2>. SUFFICES ASSUME Init PROVE IInv
      OBVIOUS
    <2>1. TypeOK
      <3>1. 0 \in 0 .. MaxRequests
        BY EspSessionsAssumption
      <3>. QED  BY <3>1, Nothing DEF Init, TypeOK, MaybeKey
    <2>2. pc = "top" /\ (\A n \in Tasks : task[n] = NoTask) /\ \A i \in Slot : keys[i] = NoKey
      BY DEF Init
    <2>. QED  BY <2>1, <2>2, Nothing DEF IInv, TasksAreKnown, SlotIsFree, KeysAreKeys, WatchedOrTold, Live
  <1>2. IInv /\ [Next]_vars => IInv'
    <2>. SUFFICES ASSUME IInv, [Next]_vars PROVE IInv'
      OBVIOUS
    <2>1. CASE UNCHANGED vars
      <3>1. UNCHANGED <<pc, req, taken, relays, task, keys, where, shared>>
        BY <2>1 DEF vars
      <3>2. TypeOK'
        BY <3>1 DEF IInv, TypeOK
      <3>. QED  BY <3>1, <3>2 DEF IInv, TasksAreKnown, SlotIsFree, KeysAreKeys, WatchedOrTold, Live
    <2>2. CASE Next
      BY <2>2, TaskKeeps, LoopTopKeeps, CheckClientKeysKeeps, PassGoesOn, ReadRequestKeeps,
         FindSlotKeeps, StartRelayKeeps, StopKeeps, CrashKeeps, KeyMovesKeeps DEF Next, Daemon
    <2>. QED  BY <2>1, <2>2
  <1>. QED  BY <1>1, <1>2, PTL DEF Spec

\* While the daemon is up, every session that was signed and has its slot to
\* itself is watched under the key that signed it, whatever its slot was used for
\* before.
THEOREM SignedSessionsAreWatched == Spec => []SignedIsWatched
  <1>1. IInv => SignedIsWatched
    BY DEF IInv, WatchedOrTold, SignedIsWatched
  <1>. QED  BY <1>1, Invariance, PTL

\* A session that has its slot to itself and runs keeps it so: the daemon takes
\* no slot of a task that is not already tearing down.  Only a task that finds
\* such a one in its slot as it starts is left to what that does.
LiveSlotsAreKept == \A n \in Tasks \ shared : Live(n) => n \notin shared'
THEOREM LiveSessionsKeepTheirSlot == Spec => [][LiveSlotsAreKept]_vars
  <1>1. IInv /\ [Next]_vars => [LiveSlotsAreKept]_vars
    <2>. SUFFICES ASSUME IInv, Next PROVE LiveSlotsAreKept
      BY DEF vars
    <2>1. ASSUME NEW outcome \in {"no task", "no heap", "runs"}, StartRelay(outcome)
          PROVE  LiveSlotsAreKept
      <3>1. shared' \subseteq shared \cup TasksIn(req.slot) \cup {taken}
        BY <2>1 DEF StartRelay
      <3>2. task[taken] = NoTask /\ \A n \in Tasks \ shared : Live(n) => task[n].slot # req.slot
        BY <2>1 DEF StartRelay, IInv, SlotIsFree
      <3>. QED  BY <3>1, <3>2, Nothing DEF LiveSlotsAreKept, TasksIn, Live
    <2>2. ASSUME NEW n \in Tasks, Task(n) PROVE shared' \subseteq shared
      BY <2>2 DEF Task, TaskConnects, TaskAuthenticates, TaskLeavesLoop, TaskEnds, GoesOn
    <2>3. ASSUME NEW over \in BOOLEAN, LoopTop(over) PROVE shared' \subseteq shared
      BY <2>3 DEF LoopTop
    <2>4. ASSUME NEW kept \in Answer, NEW second \in Answer, NEW finds \in BOOLEAN,
                 NEW located \in BOOLEAN, CheckClientKeys(kept, finds, second, located)
          PROVE  shared' \subseteq shared
      BY <2>4 DEF CheckClientKeys
    <2>5. ASSUME NEW q \in Request, NEW fetched \in BOOLEAN, NEW https \in Answer, NEW own \in Answer,
                 ReadRequest(q, fetched, https, own)
          PROVE  shared' \subseteq shared
      BY <2>5 DEF ReadRequest
    <2>6. ASSUME NEW deleted \in BOOLEAN, NEW signs \in BOOLEAN, NEW memory \in BOOLEAN,
                 FindSlot(deleted, signs, memory)
          PROVE  shared' \subseteq shared
      BY <2>6 DEF FindSlot
    <2>7. ASSUME ReadNothing \/ Begin \/ Crash \/ \E deleted \in BOOLEAN : Stop(deleted)
          PROVE  shared' \subseteq shared
      BY <2>7 DEF ReadNothing, Begin, Crash, Stop
    <2>8. ASSUME NEW k \in Key, NEW to \in {"gone", "r", "d"}, KeyMoves(k, to)
          PROVE  shared' \subseteq shared
      BY <2>8 DEF KeyMoves
    <2>9. shared' \subseteq shared => LiveSlotsAreKept
      BY DEF LiveSlotsAreKept
    <2>. QED  BY <2>1, <2>2, <2>3, <2>4, <2>5, <2>6, <2>7, <2>8, <2>9 DEF Next, Daemon
  <1>. QED  BY <1>1, Invariance, PTL DEF Spec

\* The re-check that tells a signed session to end does so because the session's
\* own key is, at that moment, withdrawn: wherever keys may go, and whatever the
\* atServers answer.
ToldToEndBecauseWithdrawn ==
    \A n \in Tasks \ shared :
        /\ Live(n) /\ task[n].signer # ""
        /\ ~keys[task[n].slot].ending /\ keys'[task[n].slot].ending
        => where[task[n].signer] \in {"r", "d"}
THEOREM SessionsAreToldForAReason == Spec => [][ToldToEndBecauseWithdrawn]_vars
  <1>1. IInv /\ [Next]_vars => [ToldToEndBecauseWithdrawn]_vars
    <2>. SUFFICES ASSUME IInv, Next PROVE ToldToEndBecauseWithdrawn
      BY DEF vars
    <2>1. MarkedOnlyByCheck
      BY EveryStepMarksOnlyByCheck
    <2>2. ASSUME NEW n \in Tasks \ shared, Live(n), task[n].signer # ""
          PROVE  /\ task[n].slot \in Slot
                 /\ keys[task[n].slot].key = task[n].signer \/ keys[task[n].slot].key = ""
      BY <2>2, TaskHasSlot DEF IInv, WatchedOrTold, Live
    <2>. QED  BY <2>1, <2>2, KeyAssumption DEF MarkedOnlyByCheck, ToldToEndBecauseWithdrawn
  <1>. QED  BY <1>1, Invariance, PTL DEF Spec

\* As withdrawn keys stay withdrawn, no session is ever found told to end whose
\* key is still good.
THEOREM SignedSessionsEndOnlyIfWithdrawn == Spec => []SignedEndsOnlyIfWithdrawn
  <1>1. Init => MarkedIsWithdrawn
    <2>1. Init => \A i \in Slot : keys[i] = NoKey
      BY DEF Init
    <2>. QED  BY <2>1, Nothing DEF MarkedIsWithdrawn
  <1>2. IInv /\ MarkedIsWithdrawn /\ [Next]_vars => MarkedIsWithdrawn'
    <2>1. IInv /\ MarkedIsWithdrawn /\ Next => MarkedIsWithdrawn'
      BY StaysWithdrawn
    <2>2. MarkedIsWithdrawn /\ UNCHANGED vars => MarkedIsWithdrawn'
      BY DEF vars, MarkedIsWithdrawn
    <2>. QED  BY <2>1, <2>2
  <1>3. IInv /\ MarkedIsWithdrawn => SignedEndsOnlyIfWithdrawn
    <2>1. ASSUME IInv, NEW n \in Tasks, Live(n) PROVE task[n].slot \in Slot
      BY <2>1, TaskHasSlot DEF IInv, Live
    <2>. QED  BY <2>1, KeyAssumption DEF IInv, WatchedOrTold, MarkedIsWithdrawn, SignedEndsOnlyIfWithdrawn
  <1>. QED  BY <1>1, <1>2, <1>3, Invariance, PTL DEF Spec
=============================================================================
