--------------------------- MODULE CSessionsProofs ---------------------------
(***************************************************************************)
(* Proofs about CSessions for any requests, keys, pids and limits.          *)
(***************************************************************************)
EXTENDS CSessions, SequenceTheorems, FiniteSetTheorems, WellFoundedInduction, TLAPS

-----------------------------------------------------------------------------
(* The inductive invariant *)

\* The srv that was just forked, which no list holds yet.
Fresh(p) == pc = "forked" /\ hand.pid = p

\* What a child is tells what it may be doing, and for whom.  A check that found
\* its key withdrawn found it where it is kept once it has been.
Sound(r, gone) ==
    /\ r.kind = "free" => r = NoProc
    /\ r.kind = "srv" => r.own \in STRING \X MaybeKey
    /\ r.kind = "check" => \E k \in Key : r.own = <<k>>
    /\ r.kind = "check" /\ r.st = "run" => r.at \in {"a", "r", "d", "d?"}
    /\ r.kind = "check" /\ EndsSessions(r.at) => r.own[1] \in gone
ProcessIsSound(p) ==
    /\ Sound(proc[p], withdrawn)
    /\ proc[p].kind = "lookup" => proc[p].st = "run" /\ pc = "lookup" /\ hand.pid = p
ProcessesAreSound == \A p \in Pid : ProcessIsSound(p)
WithdrawnIsKnown == \A k \in Key : where[k] \in {"r", "d"} => k \in withdrawn

\* The request in hand, and the process that was forked for it.
InHand ==
    /\ pc = "lookup" => \E q \in Request :
          /\ hand.req = {q} /\ q.enroll.key \in Key
          /\ hand.pid \in Pid /\ proc[hand.pid].kind = "lookup"
    /\ pc = "forked" => \E q \in Request :
          /\ hand.req = {q} /\ MayStart(q, Policy[q.from])
          /\ hand.pid \in Pid /\ proc[hand.pid].kind = "srv"
          /\ proc[hand.pid].own = <<q.id, hand.key>>

TurnIsThere == IF pc = "recheck" THEN turn \in 1 .. Len(sessions) ELSE turn = 1

\* The pids on each list are those of the processes the list is about.
SessionsAreSrvs ==
    \A i \in DOMAIN sessions :
        LET p == sessions[i].pid
        IN  /\ proc[p].kind = "srv" /\ proc[p].own = <<sessions[i].id, sessions[i].key>>
            /\ ~Fresh(p)
ListedOnce == \A i, j \in DOMAIN sessions : sessions[i].pid = sessions[j].pid => i = j
SignedAreListed ==
    \A p \in Pid : proc[p].kind = "srv" /\ proc[p].own[2] # NoKey /\ ~Fresh(p)
                     => \E i \in DOMAIN sessions : sessions[i].pid = p
ChecksAreWorkers == \A c \in checks : proc[c.pid].kind = "check" /\ proc[c.pid].own = <<c.key>>
WorkersAreChecks == \A p \in Pid : proc[p].kind = "check" => \E c \in checks : c.pid = p
OneCheckEach == \A c, d \in checks : c.pid = d.pid \/ c.key = d.key => c = d
StartsAreSrvs == \A s \in starts : proc[s.pid].kind = "srv" /\ ~Fresh(s.pid)
Links ==
    /\ SessionsAreSrvs /\ ListedOnce /\ SignedAreListed
    /\ ChecksAreWorkers /\ WorkersAreChecks /\ OneCheckEach
    /\ StartsAreSrvs

WithinLimits ==
    /\ IsFiniteSet(checks) /\ Cardinality(checks) <= MaxChecks
    /\ \A c \in checks : ChecksOfAtSign(checks, c.key) <= MaxChecksPerAtSign

IInv ==
    /\ TypeOK /\ ProcessesAreSound /\ WithdrawnIsKnown /\ InHand /\ TurnIsThere
    /\ Links /\ WithinLimits
    /\ StartsAreWatched /\ EndedOnlyIfWithdrawn /\ NoStraySignal

-----------------------------------------------------------------------------
(* Processes *)

\* The kernel gives a forked child a pid nobody has.
LEMMA NextPidIsFree ==
    ASSUME NEW pr, FreePids(pr) # {}
    PROVE  NextPid(pr) \in Pid /\ pr[NextPid(pr)].kind = "free"
  <1>. DEFINE S == FreePids(pr)
              R == {x \in Nat \X Nat : x[1] < x[2]}
  <1>1. IsWellFoundedOn(R, Nat)
    BY NatLessThanWellFounded, Zenon DEF OpToRel
  <1>. HIDE DEF R
  <1>2. S \in SUBSET Nat
    BY LimitAssumption DEF FreePids
  <1>3. PICK m \in S : \A n \in S : ~ (<<n, m>> \in R)
    BY <1>1, <1>2, WFMin
  <1>4. ASSUME NEW n \in S PROVE m <= n
    <2>1. SUFFICES ASSUME n < m PROVE FALSE
      BY <1>2
    <2>2. <<n, m>> \in R
      BY <1>2, <2>1 DEF R
    <2>. QED  BY <1>3, <2>2
  <1>5. NextPid(pr) \in FreePids(pr)
    BY <1>4 DEF NextPid
  <1>. QED  BY <1>5 DEF FreePids

\* The processes there are.
LEMMA NoProcIs ==
    /\ NoProc \in Process /\ NoProc.kind = "free" /\ NoProc.st = "" /\ NoProc.at = ""
  BY DEF NoProc, Process, Own

LEMMA SrvIs ==
    ASSUME NEW id \in STRING, NEW k \in MaybeKey, NEW at \in {"starting", "ready"}
    PROVE  LET s == Srv(id, k, at)
           IN  s \in Process /\ s.kind = "srv" /\ s.own = <<id, k>> /\ s.st = "run" /\ s.at = at
  <1>1. <<id, k>> \in Own
    BY DEF Own
  <1>. QED  BY <1>1 DEF Srv, Process

LEMMA WorkerIs ==
    ASSUME NEW kind \in {"check", "lookup"}, NEW k \in Key
    PROVE  LET w == Worker(kind, k)
           IN  w \in Process /\ w.kind = kind /\ w.own = <<k>> /\ w.st = "run" /\ w.at = "a"
  <1>1. <<k>> \in Own
    BY DEF Own
  <1>. QED  BY <1>1 DEF Worker, Process

\* A process that moves on, or ends, is the same process.
MovedTo(r, st, at) == [r EXCEPT !.st = st, !.at = at]
LEMMA MovedToIs ==
    ASSUME NEW r \in Process, NEW st \in {"run", "term", "dead"},
           NEW at \in {"", "starting", "ready", "a", "r", "d", "d?"} \cup Outcome
    PROVE  LET m == MovedTo(r, st, at)
           IN  m \in Process /\ m.kind = r.kind /\ m.own = r.own /\ m.st = st /\ m.at = at
  BY DEF MovedTo, Process

\* A signal stops a process that runs.
LEMMA KilledIs ==
    ASSUME NEW pr \in [Pid -> Process], NEW p \in Pid
    PROVE  Killed(pr, p)[p] = IF pr[p].st = "run" THEN MovedTo(pr[p], "term", "") ELSE pr[p]
  BY DEF Killed, MovedTo, Process

-----------------------------------------------------------------------------
(* Steps after which every pid is still that of the same process *)

SamePids == \A p \in Pid : proc'[p].kind = proc[p].kind /\ proc'[p].own = proc[p].own
SameSessions ==
    /\ DOMAIN sessions' = DOMAIN sessions
    /\ \A i \in DOMAIN sessions :
          /\ sessions'[i].id = sessions[i].id /\ sessions'[i].key = sessions[i].key
          /\ sessions'[i].pid = sessions[i].pid

\* The facts of the type invariant that the lists' links need.
ListsTyped ==
    /\ \A i \in DOMAIN sessions : sessions[i].pid \in Pid
    /\ \A c \in checks : c.pid \in Pid
    /\ \A s \in starts : s.pid \in Pid

LEMMA TypedLists == TypeOK => ListsTyped
  <1>. SUFFICES ASSUME TypeOK PROVE ListsTyped
    OBVIOUS
  <1>1. \A i \in DOMAIN sessions : sessions[i] \in Session
    BY ElementOfSeq DEF TypeOK
  <1>. QED  BY <1>1 DEF TypeOK, ListsTyped, Session

LEMMA LinksStay ==
    ASSUME ListsTyped, Links, SamePids, SameSessions, \A p \in Pid : Fresh(p)' = Fresh(p),
           \A c \in checks' : \E d \in checks : c.pid = d.pid /\ c.key = d.key,
           \A d \in checks : \E c \in checks' : c.pid = d.pid,
           OneCheckEach',
           \A s \in starts' : \E r \in starts : s.pid = r.pid
    PROVE  Links'
  <1>1. SessionsAreSrvs' /\ ListedOnce'
    BY DEF Links, SessionsAreSrvs, ListedOnce, SamePids, SameSessions, ListsTyped
  <1>2. SignedAreListed'
    BY DEF Links, SignedAreListed, SamePids, SameSessions
  <1>3. ChecksAreWorkers'
    <2>. SUFFICES ASSUME NEW c \in checks'
                  PROVE  proc'[c.pid].kind = "check" /\ proc'[c.pid].own = <<c.key>>
      BY DEF ChecksAreWorkers
    <2>1. PICK d \in checks : c.pid = d.pid /\ c.key = d.key
      OBVIOUS
    <2>2. proc[d.pid].kind = "check" /\ proc[d.pid].own = <<d.key>> /\ d.pid \in Pid
      BY DEF Links, ChecksAreWorkers, ListsTyped
    <2>3. proc'[d.pid].kind = "check" /\ proc'[d.pid].own = proc[d.pid].own
      BY <2>2 DEF SamePids
    <2>. QED  BY <2>1, <2>2, <2>3
  <1>4. WorkersAreChecks'
    BY DEF Links, WorkersAreChecks, SamePids
  <1>5. StartsAreSrvs'
    BY DEF Links, StartsAreSrvs, SamePids, ListsTyped
  <1>. QED  BY <1>1, <1>2, <1>3, <1>4, <1>5 DEF Links

-----------------------------------------------------------------------------
(* The processes move on their own *)

\* A srv or a check gets further, or ends.
LEMMA OneMoves ==
    ASSUME IInv, NEW p \in Pid, NEW st \in {"run", "dead"},
           NEW at \in {"", "ready", "a", "r", "d", "d?"} \cup Outcome,
           proc' = [proc EXCEPT ![p] = MovedTo(proc[p], st, at)],
           proc[p].kind \in {"srv", "check"},
           proc[p].kind = "check" /\ st = "run" => at \in {"a", "r", "d", "d?"},
           proc[p].kind = "check" /\ EndsSessions(at) => proc[p].own[1] \in withdrawn,
           UNCHANGED <<pc, hand, todo, sessions, checks, starts, turn, nextDue, world, stray>>
    PROVE  IInv'
  <1>. DEFINE m == MovedTo(proc[p], st, at)
  <1>0. /\ pc' = pc /\ hand' = hand /\ todo' = todo /\ sessions' = sessions /\ checks' = checks
        /\ starts' = starts /\ withdrawn' = withdrawn /\ where' = where
    BY DEF world
  <1>1. proc \in [Pid -> Process] /\ proc[p] \in Process /\ at # "starting"
    BY DEF IInv, TypeOK, Outcome
  <1>2. m \in Process /\ m.kind = proc[p].kind /\ m.own = proc[p].own /\ m.st = st /\ m.at = at
    <2>1. /\ st \in {"run", "term", "dead"}
          /\ at \in {"", "starting", "ready", "a", "r", "d", "d?"} \cup Outcome
      OBVIOUS
    <2>2. proc[p] \in Process
      BY <1>1
    <2>. QED  BY <2>1, <2>2 DEF MovedTo, Process
  <1>. HIDE DEF m
  <1>3. proc' \in [Pid -> Process] /\ \A r \in Pid : proc'[r] = IF r = p THEN m ELSE proc[r]
    BY <1>1, <1>2 DEF m
  <1>4. TypeOK'
    BY <1>3 DEF IInv, TypeOK, world
  <1>5. ProcessesAreSound'
    <2>. SUFFICES ASSUME NEW r \in Pid PROVE ProcessIsSound(r)'
      BY DEF ProcessesAreSound
    <2>1. ProcessIsSound(r)
      BY DEF IInv, ProcessesAreSound
    <2>2. CASE r = p
      <3>1. Sound(m, withdrawn)
        BY <1>2, <2>1, <2>2 DEF ProcessIsSound, Sound
      <3>. QED  BY <1>0, <1>2, <1>3, <2>2, <3>1 DEF ProcessIsSound
    <2>3. CASE r # p
      <3>1. proc'[r] = proc[r]
        BY <1>3, <2>3
      <3>. QED  BY <1>0, <2>1, <3>1 DEF ProcessIsSound
    <2>. QED  BY <2>2, <2>3
  <1>6. SamePids
    BY <1>2, <1>3 DEF SamePids
  <1>7. InHand'
    <2>1. CASE pc = "lookup"
      BY <1>6, <2>1 DEF IInv, InHand, SamePids
    <2>2. CASE pc = "forked"
      BY <1>6, <2>2 DEF IInv, InHand, SamePids
    <2>. QED  BY <2>1, <2>2 DEF InHand
  <1>8. Links'
    <2>1. ListsTyped /\ Links /\ OneCheckEach
      BY TypedLists DEF IInv, Links
    <2>2. SameSessions /\ OneCheckEach'
      BY <2>1 DEF SameSessions, OneCheckEach
    <2>3. \A r \in Pid : Fresh(r)' = Fresh(r)
      BY DEF Fresh
    <2>. QED  BY <1>6, <2>1, <2>2, <2>3, LinksStay
  <1>9. StartsAreWatched'
    <2>. SUFFICES ASSUME NEW r \in Pid, proc'[r].kind = "srv", proc'[r].at = "starting",
                         proc'[r].st = "run"
                  PROVE  (pc' = "forked" /\ hand'.pid = r) \/ \E s \in starts' : s.pid = r
      BY DEF StartsAreWatched
    <2>1. proc'[r] = proc[r]
      BY <1>1, <1>2, <1>3
    <2>. QED  BY <1>0, <2>1 DEF IInv, StartsAreWatched
  <1>10. WithdrawnIsKnown' /\ TurnIsThere' /\ EndedOnlyIfWithdrawn' /\ NoStraySignal'
    BY DEF IInv, WithdrawnIsKnown, TurnIsThere, EndedOnlyIfWithdrawn, NoStraySignal, world
  <1>11. WithinLimits'
    BY DEF IInv, WithinLimits, ChecksOfAtSign
  <1>. QED  BY <1>4, <1>5, <1>7, <1>8, <1>9, <1>10, <1>11 DEF IInv

LEMMA SrvReadyKeeps == ASSUME IInv, NEW p \in Pid, SrvReady(p) PROVE IInv'
  <1>1. proc' = [proc EXCEPT ![p] = MovedTo(proc[p], "run", "ready")]
    BY DEF SrvReady, MovedTo, IInv, TypeOK, Process
  <1>. QED  BY <1>1, OneMoves DEF SrvReady, EndsSessions

LEMMA ExitKeeps == ASSUME IInv, NEW p \in Pid, Exit(p) PROVE IInv'
  <1>. DEFINE at == IF proc[p].kind = "check" THEN "unknown" ELSE ""
  <1>1. proc' = [proc EXCEPT ![p] = MovedTo(proc[p], "dead", at)]
    BY DEF Exit, MovedTo, IInv, TypeOK, Process
  <1>2. at \in {"", "unknown"}
    OBVIOUS
  <1>3. "unknown" \in Outcome /\ ~EndsSessions(at)
    BY <1>2 DEF Outcome, EndsSessions
  <1>. HIDE DEF at
  <1>. QED  BY <1>1, <1>2, <1>3, OneMoves DEF Exit

\* A GET of a check: it says "withdrawn" only of a key whose record is where
\* withdrawn keys are.
LEMMA KeyCheckGetKeeps == ASSUME IInv, NEW p \in Pid, NEW ok \in BOOLEAN, KeyCheckGet(p, ok) PROVE IInv'
  <1>. DEFINE k == proc[p].own[1]
  <1>1. proc[p].kind = "check" /\ proc[p].st = "run" /\ proc[p].at \in {"a", "r", "d", "d?"}
    BY DEF KeyCheckGet, IInv, ProcessesAreSound, ProcessIsSound, Sound
  <1>2. k \in Key
    <2>1. PICK key \in Key : proc[p].own = <<key>>
      BY <1>1 DEF IInv, ProcessesAreSound, ProcessIsSound, Sound
    <2>. QED  BY <2>1
  <1>3. where[k] \in {"r", "d"} => k \in withdrawn
    BY <1>2 DEF IInv, WithdrawnIsKnown
  <1>. HIDE DEF k
  <1>. DEFINE a == proc[p].at
              found == ok /\ where[k] = (IF a = "d?" THEN "d" ELSE a)
              To(st, at) == proc' = [proc EXCEPT ![p] = MovedTo(proc[p], st, at)]
  <1>0. proc \in [Pid -> Process]
    BY DEF IInv, TypeOK
  <1>4. ASSUME NEW at PROVE [proc EXCEPT ![p].st = "dead", ![p].at = at]
                              = [proc EXCEPT ![p] = MovedTo(proc[p], "dead", at)]
    BY <1>0 DEF MovedTo, Process
  <1>5. ASSUME NEW at PROVE [proc EXCEPT ![p].at = at]
                              = [proc EXCEPT ![p] = MovedTo(proc[p], "run", at)]
    BY <1>0, <1>1 DEF MovedTo, Process
  <1>6. CASE a = "a"
    <2>1. To("dead", "published") \/ To("run", "r") \/ To("dead", "unknown")
      BY <1>4, <1>5, <1>6 DEF KeyCheckGet
    <2>. QED  BY <1>1, <2>1, OneMoves DEF KeyCheckGet, EndsSessions, Outcome
  <1>7. CASE a = "r"
    <2>1. \/ To("dead", "revoked") /\ where[k] = "r"
          \/ To("run", "d") \/ To("run", "d?")
      BY <1>4, <1>5, <1>7 DEF KeyCheckGet, k
    <2>2. CASE To("dead", "revoked") /\ where[k] = "r"
      <3>1. k \in withdrawn
        BY <1>3, <2>2
      <3>. QED  BY <1>1, <2>2, <3>1, OneMoves DEF KeyCheckGet, Outcome, k
    <2>3. CASE To("run", "d") \/ To("run", "d?")
      BY <1>1, <2>3, OneMoves DEF KeyCheckGet, EndsSessions
    <2>. QED  BY <2>1, <2>2, <2>3
  <1>8. CASE a \in {"d", "d?"}
    <2>1. \/ To("dead", "deleted") /\ where[k] = "d"
          \/ To("dead", "missing") \/ To("dead", "unknown")
      BY <1>4, <1>8 DEF KeyCheckGet, k
    <2>2. CASE To("dead", "deleted") /\ where[k] = "d"
      <3>1. k \in withdrawn
        BY <1>3, <2>2
      <3>. QED  BY <1>1, <2>2, <3>1, OneMoves DEF KeyCheckGet, Outcome, k
    <2>3. CASE To("dead", "missing") \/ To("dead", "unknown")
      BY <1>1, <2>3, OneMoves DEF KeyCheckGet, EndsSessions, Outcome
    <2>. QED  BY <2>1, <2>2, <2>3
  <1>. QED  BY <1>1, <1>6, <1>7, <1>8

-----------------------------------------------------------------------------
(* Keys move, and time passes *)

\* What was withdrawn at some time stays so.
LEMMA SoundForMore ==
    ASSUME NEW r, NEW S, NEW T, Sound(r, S), S \subseteq T
    PROVE  Sound(r, T)
  BY DEF Sound

\* Lists and processes that stay as they are stay linked as they are.
LEMMA LinksAreTheSame ==
    ASSUME Links, pc' = pc, hand' = hand, proc' = proc, sessions' = sessions, checks' = checks,
           starts' = starts
    PROVE  Links'
  <1>1. ListedOnce' /\ OneCheckEach'
    BY DEF Links, ListedOnce, OneCheckEach
  <1>2. ChecksAreWorkers' /\ WorkersAreChecks'
    BY DEF Links, ChecksAreWorkers, WorkersAreChecks
  <1>3. SessionsAreSrvs'
    BY DEF Links, SessionsAreSrvs, Fresh
  <1>4. SignedAreListed'
    BY DEF Links, SignedAreListed, Fresh
  <1>5. StartsAreSrvs'
    BY DEF Links, StartsAreSrvs, Fresh
  <1>. QED  BY <1>1, <1>2, <1>3, <1>4, <1>5 DEF Links

LEMMA KeyMovesKeeps ==
    ASSUME IInv, NEW k \in Key, NEW to \in {"a", "r", "d", "gone"}, KeyMoves(k, to)
    PROVE  IInv'
  <1>0. /\ pc' = pc /\ hand' = hand /\ todo' = todo /\ proc' = proc /\ sessions' = sessions
        /\ checks' = checks /\ starts' = starts /\ turn' = turn /\ nextDue' = nextDue
        /\ stray' = stray
    BY DEF KeyMoves, child
  <1>1. withdrawn \subseteq withdrawn' /\ withdrawn' \subseteq Key
    BY DEF KeyMoves, IInv, TypeOK
  <1>2. where' \in [Key -> {"a", "r", "d", "gone"}]
    BY DEF KeyMoves, IInv, TypeOK
  <1>3. moves' \in 0 .. MaxMoves
    BY LimitAssumption DEF KeyMoves, IInv, TypeOK
  <1>4. TypeOK'
    BY <1>0, <1>1, <1>2, <1>3 DEF IInv, TypeOK
  <1>5. ProcessesAreSound'
    <2>. SUFFICES ASSUME NEW p \in Pid PROVE ProcessIsSound(p)'
      BY DEF ProcessesAreSound
    <2>1. ProcessIsSound(p)
      BY DEF IInv, ProcessesAreSound
    <2>2. Sound(proc[p], withdrawn')
      BY <1>1, <2>1, SoundForMore DEF ProcessIsSound
    <2>. QED  BY <1>0, <2>1, <2>2 DEF ProcessIsSound
  <1>6. WithdrawnIsKnown'
    BY <1>1 DEF KeyMoves, IInv, TypeOK, WithdrawnIsKnown
  <1>7. EndedOnlyIfWithdrawn'
    BY <1>0, <1>1 DEF IInv, EndedOnlyIfWithdrawn
  <1>8. InHand' /\ TurnIsThere' /\ NoStraySignal'
    BY <1>0 DEF IInv, InHand, TurnIsThere, NoStraySignal
  <1>9. Links'
    BY <1>0, LinksAreTheSame DEF IInv
  <1>10. WithinLimits' /\ StartsAreWatched'
    BY <1>0 DEF IInv, WithinLimits, ChecksOfAtSign, StartsAreWatched
  <1>. QED  BY <1>4, <1>5, <1>6, <1>7, <1>8, <1>9, <1>10 DEF IInv

\* The images of a finite set are no more than its elements.
LEMMA ImagesAreNoMore ==
    ASSUME NEW S, NEW T, NEW f, IsFiniteSet(S), f \in [S -> T], \A y \in T : \E x \in S : f[x] = y
    PROVE  IsFiniteSet(T) /\ Cardinality(T) <= Cardinality(S)
  <1>1. f \in Surjection(S, T)
    BY DEF Surjection
  <1>. QED  BY <1>1, FS_Surjection

Check == [key : Key, pid : Pid, age : 0 .. Overrun + 1]
Aged(c) == [c EXCEPT !.age = IF @ <= Overrun THEN @ + 1 ELSE @]

LEMMA AgedIs ==
    ASSUME NEW c \in Check
    PROVE  Aged(c) \in Check /\ Aged(c).key = c.key /\ Aged(c).pid = c.pid
  <1>. DEFINE n == IF c.age <= Overrun THEN c.age + 1 ELSE c.age
  <1>1. c.age \in 0 .. Overrun + 1 /\ Overrun \in Nat
    BY LimitAssumption DEF Check
  <1>2. n \in 0 .. Overrun + 1
    BY <1>1
  <1>3. Aged(c) = [c EXCEPT !.age = n]
    BY DEF Aged
  <1>. HIDE DEF n
  <1>. QED  BY <1>2, <1>3 DEF Check

LEMMA TickKeeps == ASSUME IInv, Tick PROVE IInv'
  <1>0. /\ pc' = pc /\ hand' = hand /\ todo' = todo /\ proc' = proc /\ sessions' = sessions
        /\ turn' = turn /\ stray' = stray /\ where' = where /\ moves' = moves
        /\ withdrawn' = withdrawn
    BY DEF Tick, world
  <1>1. checks \subseteq Check /\ checks' = {Aged(c) : c \in checks}
    BY DEF Tick, Aged, IInv, TypeOK, Check
  <1>2. /\ checks' \subseteq Check
        /\ \A c \in checks' : \E d \in checks : c = Aged(d) /\ c.pid = d.pid /\ c.key = d.key
        /\ \A d \in checks : Aged(d) \in checks' /\ Aged(d).pid = d.pid /\ Aged(d).key = d.key
    BY <1>1, AgedIs
  <1>3. /\ starts' \subseteq [pid : Pid, age : 0 .. StartTimeout]
        /\ \A s \in starts' : \E r \in starts : s.pid = r.pid
        /\ \A r \in starts : \E s \in starts' : s.pid = r.pid
    <2>. DEFINE Start == [pid : Pid, age : 0 .. StartTimeout]
                Old(s) == [s EXCEPT !.age = IF @ < StartTimeout THEN @ + 1 ELSE @]
    <2>1. starts \subseteq Start /\ starts' = {Old(s) : s \in starts}
      BY DEF Tick, IInv, TypeOK
    <2>2. ASSUME NEW s \in Start PROVE Old(s) \in Start /\ Old(s).pid = s.pid
      <3>. DEFINE n == IF s.age < StartTimeout THEN s.age + 1 ELSE s.age
      <3>1. n \in 0 .. StartTimeout
        BY LimitAssumption
      <3>2. Old(s) = [s EXCEPT !.age = n]
        OBVIOUS
      <3>. HIDE DEF n, Old
      <3>. QED  BY <3>1, <3>2
    <2>. HIDE DEF Old, Start
    <2>3. starts' \subseteq Start /\ \A s \in starts' : \E r \in starts : s.pid = r.pid
      BY <2>1, <2>2
    <2>4. \A r \in starts : \E s \in starts' : s.pid = r.pid
      BY <2>1, <2>2
    <2>. QED  BY <2>3, <2>4 DEF Start
  <1>4. nextDue' \in 0 .. Unset
    <2>1. Unset \in Nat
      BY LimitAssumption DEF Unset
    <2>2. nextDue \in 0 .. Unset
      BY DEF IInv, TypeOK
    <2>3. nextDue' = IF nextDue \in {0, Unset} THEN nextDue ELSE nextDue - 1
      BY DEF Tick
    <2>. QED  BY <2>1, <2>2, <2>3
  <1>5. TypeOK'
    BY <1>0, <1>2, <1>3, <1>4 DEF IInv, TypeOK, Check
  <1>6. ProcessesAreSound' /\ WithdrawnIsKnown' /\ InHand' /\ TurnIsThere'
    BY <1>0 DEF IInv, ProcessesAreSound, ProcessIsSound, WithdrawnIsKnown, InHand, TurnIsThere
  <1>7. Links'
    <2>1. ListsTyped /\ Links
      BY TypedLists DEF IInv
    <2>2. OneCheckEach
      BY <2>1 DEF Links
    <2>3. OneCheckEach'
      <3>. SUFFICES ASSUME NEW c \in checks', NEW d \in checks', c.pid = d.pid \/ c.key = d.key
                    PROVE  c = d
        BY DEF OneCheckEach
      <3>1. PICK a \in checks : c = Aged(a) /\ c.pid = a.pid /\ c.key = a.key
        BY <1>2
      <3>2. PICK b \in checks : d = Aged(b) /\ d.pid = b.pid /\ d.key = b.key
        BY <1>2
      <3>3. a = b
        BY <2>2, <3>1, <3>2 DEF OneCheckEach
      <3>. QED  BY <3>1, <3>2, <3>3
    <2>4. SamePids /\ SameSessions /\ \A r \in Pid : Fresh(r)' = Fresh(r)
      BY <1>0 DEF SamePids, SameSessions, Fresh
    <2>5. /\ \A c \in checks' : \E d \in checks : c.pid = d.pid /\ c.key = d.key
          /\ \A d \in checks : \E c \in checks' : c.pid = d.pid
      BY <1>2
    <2>. QED  BY <1>3, <2>1, <2>3, <2>4, <2>5, LinksStay
  <1>8. WithinLimits'
    <2>1. /\ IsFiniteSet(checks) /\ Cardinality(checks) <= MaxChecks
          /\ \A c \in checks : ChecksOfAtSign(checks, c.key) <= MaxChecksPerAtSign
          /\ MaxChecks \in Nat /\ MaxChecksPerAtSign \in Nat
      BY LimitAssumption DEF IInv, WithinLimits
    <2>2. IsFiniteSet(checks') /\ Cardinality(checks') <= Cardinality(checks)
      <3>. DEFINE f == [c \in checks |-> Aged(c)]
      <3>1. f \in [checks -> checks'] /\ \A y \in checks' : \E x \in checks : f[x] = y
        BY <1>1
      <3>. HIDE DEF f
      <3>. QED  BY <2>1, <3>1, ImagesAreNoMore
    <2>3. Cardinality(checks') \in Nat /\ Cardinality(checks) \in Nat
      BY <2>1, <2>2, FS_CardinalityType
    <2>4. ASSUME NEW c \in checks' PROVE ChecksOfAtSign(checks', c.key) <= MaxChecksPerAtSign
      <3>1. PICK a \in checks : c.key = a.key
        BY <1>2
      <3>. DEFINE S == {d \in checks : OwnerOf[d.key] = OwnerOf[a.key]}
                  T == {d \in checks' : OwnerOf[d.key] = OwnerOf[a.key]}
                  f == [d \in S |-> Aged(d)]
      <3>2. IsFiniteSet(S)
        BY <2>1, FS_Subset
      <3>3. f \in [S -> T] /\ \A y \in T : \E x \in S : f[x] = y
        BY <1>2
      <3>4. Cardinality(S) <= MaxChecksPerAtSign
        BY <2>1 DEF ChecksOfAtSign
      <3>. HIDE DEF f, S, T
      <3>5. IsFiniteSet(T) /\ Cardinality(T) <= Cardinality(S)
        BY <3>2, <3>3, ImagesAreNoMore
      <3>6. Cardinality(T) \in Nat /\ Cardinality(S) \in Nat
        BY <3>2, <3>5, FS_CardinalityType
      <3>7. Cardinality(T) <= MaxChecksPerAtSign
        BY <2>1, <3>4, <3>5, <3>6
      <3>. QED  BY <3>1, <3>7 DEF ChecksOfAtSign, T
    <2>5. Cardinality(checks') <= MaxChecks
      BY <2>1, <2>2, <2>3
    <2>. QED  BY <2>2, <2>4, <2>5 DEF WithinLimits
  <1>9. StartsAreWatched'
    BY <1>0, <1>3 DEF IInv, StartsAreWatched
  <1>10. EndedOnlyIfWithdrawn' /\ NoStraySignal'
    BY <1>0 DEF IInv, EndedOnlyIfWithdrawn, NoStraySignal
  <1>. QED  BY <1>5, <1>6, <1>7, <1>8, <1>9, <1>10 DEF IInv

-----------------------------------------------------------------------------
(* Signals *)

\* The process p when the pids of K were signalled: it is still the same, and if
\* it runs it got none.
Signalled(K, p) == IF p \in K THEN Killed(proc, p)[p] ELSE proc[p]
LEMMA SignalledIs ==
    ASSUME IInv, pc # "lookup", NEW K, NEW p \in Pid
    PROVE  LET r == Signalled(K, p)
           IN  /\ r \in Process /\ r.kind = proc[p].kind /\ r.own = proc[p].own
               /\ Sound(r, withdrawn) /\ r.kind # "lookup"
               /\ r.st = "run" => p \notin K /\ r = proc[p]
  <1>. DEFINE s == Signalled(K, p)
  <1>0. proc \in [Pid -> Process]
    BY DEF IInv, TypeOK
  <1>1. proc[p] \in Process /\ Sound(proc[p], withdrawn) /\ proc[p].kind # "lookup"
    BY <1>0 DEF IInv, ProcessesAreSound, ProcessIsSound
  <1>2. Killed(proc, p)[p] = IF proc[p].st = "run" THEN MovedTo(proc[p], "term", "") ELSE proc[p]
    BY <1>0, KilledIs
  <1>3. CASE p \notin K \/ proc[p].st # "run"
    <2>1. s = proc[p] /\ (s.st = "run" => p \notin K)
      BY <1>2, <1>3 DEF Signalled
    <2>. HIDE DEF s
    <2>2. /\ s \in Process /\ s.kind = proc[p].kind /\ s.own = proc[p].own
          /\ Sound(s, withdrawn) /\ s.kind # "lookup"
      BY <1>1, <2>1
    <2>. QED  BY <2>1, <2>2 DEF s
  <1>4. CASE p \in K /\ proc[p].st = "run"
    <2>. DEFINE m == MovedTo(proc[p], "term", "")
    <2>1. s = m
      BY <1>2, <1>4 DEF Signalled
    <2>2. m \in Process /\ m.kind = proc[p].kind /\ m.own = proc[p].own /\ m.st = "term" /\ m.at = ""
      <3>1. /\ "term" \in {"run", "term", "dead"}
            /\ "" \in {"", "starting", "ready", "a", "r", "d", "d?"} \cup Outcome
        OBVIOUS
      <3>2. proc[p] \in Process
        BY <1>1
      <3>. QED  BY <3>1, <3>2, MovedToIs, ZenonT(30)
    <2>3. proc[p].kind # "free"
      BY <1>1, <1>4, NoProcIs DEF Sound
    <2>. HIDE DEF m, s
    <2>4. Sound(m, withdrawn)
      BY <1>1, <2>2, <2>3 DEF Sound, EndsSessions
    <2>5. /\ s \in Process /\ s.kind = proc[p].kind /\ s.own = proc[p].own
          /\ Sound(s, withdrawn) /\ s.kind # "lookup" /\ s.st # "run"
      BY <1>1, <2>1, <2>2, <2>4
    <2>. QED  BY <2>5 DEF s
  <1>. QED  BY <1>3, <1>4

LEMMA SomeAreKilled ==
    ASSUME IInv, pc # "lookup", NEW K,
           proc' = [p \in Pid |-> IF p \in K THEN Killed(proc, p)[p] ELSE proc[p]]
    PROVE  /\ proc' \in [Pid -> Process] /\ SamePids
           /\ \A p \in Pid : Sound(proc'[p], withdrawn) /\ proc'[p].kind # "lookup"
           /\ \A p \in Pid : proc'[p].st = "run" => p \notin K /\ proc'[p] = proc[p]
  <1>1. proc' = [p \in Pid |-> Signalled(K, p)]
    BY DEF Signalled
  <1>. QED  BY <1>1, SignalledIs DEF SamePids

\* Late starts: their pids are those of the srv they are about.
LEMMA SrvStartsPollKeeps == ASSUME IInv, SrvStartsPoll PROVE IInv'
  <1>0. /\ pc = "reap" /\ pc' = "tick" /\ hand' = hand /\ todo' = todo /\ sessions' = sessions
        /\ checks' = checks /\ turn' = turn /\ nextDue' = nextDue /\ where' = where
        /\ moves' = moves /\ withdrawn' = withdrawn
    BY DEF SrvStartsPoll, world
  <1>. DEFINE K == {p \in Pid : \E s \in LateStarts : s.pid = p}
  <1>1. proc' = [p \in Pid |-> IF p \in K THEN Killed(proc, p)[p] ELSE proc[p]]
    BY DEF SrvStartsPoll
  <1>2. /\ proc' \in [Pid -> Process] /\ SamePids
        /\ \A p \in Pid : Sound(proc'[p], withdrawn) /\ proc'[p].kind # "lookup"
        /\ \A p \in Pid : proc'[p].st = "run" => p \notin K /\ proc'[p] = proc[p]
    BY <1>0, <1>1, SomeAreKilled
  <1>3. starts' \subseteq starts /\ \A s \in starts \ starts' : StartSettled(s.pid) \/ s \in LateStarts
    BY DEF SrvStartsPoll
  <1>4. ListsTyped /\ Links
    BY TypedLists DEF IInv
  <1>5. NoStraySignal'
    BY <1>4 DEF SrvStartsPoll, LateStarts, Links, StartsAreSrvs, IInv, NoStraySignal
  <1>6. TypeOK'
    <2>1. stray' \in BOOLEAN
      BY DEF SrvStartsPoll
    <2>2. starts' \subseteq [pid : Pid, age : 0 .. StartTimeout]
      BY <1>3 DEF IInv, TypeOK
    <2>. QED  BY <1>0, <1>2, <2>1, <2>2 DEF IInv, TypeOK
  <1>7. ProcessesAreSound'
    BY <1>0, <1>2 DEF ProcessesAreSound, ProcessIsSound
  <1>8. Links'
    <2>1. SameSessions /\ OneCheckEach' /\ \A r \in Pid : Fresh(r)' = Fresh(r)
      BY <1>0, <1>4 DEF SameSessions, Links, OneCheckEach, Fresh
    <2>. QED  BY <1>0, <1>2, <1>3, <1>4, <2>1, LinksStay
  <1>9. StartsAreWatched'
    <2>. SUFFICES ASSUME NEW p \in Pid, proc'[p].kind = "srv", proc'[p].at = "starting",
                         proc'[p].st = "run"
                  PROVE  \E s \in starts' : s.pid = p
      BY DEF StartsAreWatched
    <2>1. p \notin K /\ proc'[p] = proc[p]
      BY <1>2
    <2>2. PICK s \in starts : s.pid = p
      BY <1>0, <2>1 DEF IInv, StartsAreWatched
    <2>3. ~StartSettled(p)
      BY <2>1 DEF StartSettled
    <2>. QED  BY <1>3, <2>1, <2>2, <2>3
  <1>10. WithdrawnIsKnown' /\ InHand' /\ TurnIsThere' /\ EndedOnlyIfWithdrawn'
    BY <1>0 DEF IInv, WithdrawnIsKnown, InHand, TurnIsThere, EndedOnlyIfWithdrawn
  <1>11. WithinLimits'
    BY <1>0 DEF IInv, WithinLimits, ChecksOfAtSign
  <1>. QED  BY <1>5, <1>6, <1>7, <1>8, <1>9, <1>10, <1>11 DEF IInv

LEMMA FunctionsAreSequences ==
    ASSUME NEW S, NEW n \in Nat, NEW s \in [1 .. n -> S]
    PROVE  s \in Seq(S) /\ Len(s) = n
  <1>1. s \in UNION {[1 .. m -> S] : m \in Nat}
    OBVIOUS
  <1>2. s \in Seq(S)
    BY <1>1, SeqDef
  <1>3. DOMAIN s = 1 .. n /\ DOMAIN s = 1 .. Len(s) /\ Len(s) \in Nat
    BY <1>2, LenProperties
  <1>. QED  BY <1>2, <1>3

\* Sessions of which only the marks change are the same sessions.
LEMMA Remarked ==
    ASSUME TypeOK, NEW ss, ss = [i \in DOMAIN sessions |-> ss[i]],
           \A i \in DOMAIN sessions : \E due, ending \in BOOLEAN :
               ss[i] = [sessions[i] EXCEPT !.due = due, !.ending = ending]
    PROVE  /\ ss \in Seq(Session) /\ Len(ss) = Len(sessions) /\ DOMAIN ss = DOMAIN sessions
           /\ \A i \in DOMAIN sessions : /\ ss[i].id = sessions[i].id /\ ss[i].key = sessions[i].key
                                         /\ ss[i].pid = sessions[i].pid
  <1>1. /\ sessions \in Seq(Session) /\ Len(sessions) \in Nat
        /\ DOMAIN sessions = 1 .. Len(sessions)
    BY LenProperties DEF TypeOK
  <1>2. \A i \in DOMAIN sessions : sessions[i] \in Session
    BY <1>1, ElementOfSeq
  <1>3. \A i \in DOMAIN sessions : /\ ss[i] \in Session
                                   /\ ss[i].id = sessions[i].id /\ ss[i].key = sessions[i].key
                                   /\ ss[i].pid = sessions[i].pid
    <2>. SUFFICES ASSUME NEW i \in DOMAIN sessions
                  PROVE  /\ ss[i] \in Session
                         /\ ss[i].id = sessions[i].id /\ ss[i].key = sessions[i].key
                         /\ ss[i].pid = sessions[i].pid
      OBVIOUS
    <2>1. PICK due, ending \in BOOLEAN :
              ss[i] = [sessions[i] EXCEPT !.due = due, !.ending = ending]
      OBVIOUS
    <2>2. sessions[i] \in Session
      BY <1>2
    <2>. QED  BY <2>1, <2>2 DEF Session
  <1>4. ss \in [1 .. Len(sessions) -> Session]
    BY <1>1, <1>3
  <1>5. ss \in Seq(Session) /\ Len(ss) = Len(sessions)
    BY <1>1, <1>4, FunctionsAreSequences
  <1>. QED  BY <1>1, <1>3, <1>4, <1>5

LEMMA ClientSessionsTickKeeps == ASSUME IInv, ClientSessionsTick PROVE IInv'
  <1>0. /\ pc = "tick" /\ pc' \in {"read", "recheck"} /\ hand' = hand /\ todo' = todo
        /\ checks' = checks /\ starts' = starts /\ turn' = turn /\ where' = where
        /\ moves' = moves /\ withdrawn' = withdrawn
        /\ pc' = "recheck" => sessions # <<>>
    BY DEF ClientSessionsTick, world
  <1>1. TypeOK /\ ListsTyped /\ Links
    BY TypedLists DEF IInv
  <1>2. /\ proc' \in [Pid -> Process] /\ SamePids
        /\ \A p \in Pid : Sound(proc'[p], withdrawn) /\ proc'[p].kind # "lookup"
        /\ \A p \in Pid : proc'[p].st = "run" => proc'[p] = proc[p]
    <2>1. CASE Interval = 0
      <3>1. proc' = proc
        BY <2>1 DEF ClientSessionsTick
      <3>. QED  BY <1>0, <3>1 DEF SamePids, IInv, TypeOK, ProcessesAreSound, ProcessIsSound
    <2>2. CASE Interval # 0
      <3>. DEFINE K == {p \in Pid : \E c \in {c \in checks : c.age > Overrun} : c.pid = p}
      <3>1. proc' = [p \in Pid |-> IF p \in K THEN Killed(proc, p)[p] ELSE proc[p]]
        BY <2>2 DEF ClientSessionsTick
      <3>. HIDE DEF K
      <3>. QED  BY <1>0, <3>1, SomeAreKilled
    <2>. QED  BY <2>1, <2>2
  <1>3. /\ sessions' \in Seq(Session) /\ Len(sessions') = Len(sessions) /\ SameSessions
        /\ \A i \in DOMAIN sessions : sessions'[i].ending = sessions[i].ending
    <2>0. \A i \in DOMAIN sessions : sessions[i] \in Session
      BY <1>1, ElementOfSeq DEF TypeOK
    <2>1. \/ sessions' = sessions
          \/ sessions' = [i \in DOMAIN sessions |->
                            IF nextDue = 0 THEN [sessions[i] EXCEPT !.due = TRUE] ELSE sessions[i]]
      BY DEF ClientSessionsTick
    <2>2. CASE sessions' = sessions
      BY <1>1, <2>2 DEF TypeOK, SameSessions
    <2>3. CASE sessions' = [i \in DOMAIN sessions |->
                            IF nextDue = 0 THEN [sessions[i] EXCEPT !.due = TRUE] ELSE sessions[i]]
      <3>1. sessions' = [i \in DOMAIN sessions |-> sessions'[i]]
        BY <2>3
      <3>2. ASSUME NEW i \in DOMAIN sessions
            PROVE  /\ \E due, ending \in BOOLEAN :
                         sessions'[i] = [sessions[i] EXCEPT !.due = due, !.ending = ending]
                   /\ sessions'[i].ending = sessions[i].ending
        <4>. DEFINE s == sessions[i]
                    d == IF nextDue = 0 THEN TRUE ELSE s.due
        <4>1. s \in Session
          BY <2>0
        <4>2. sessions'[i] = [s EXCEPT !.due = d, !.ending = s.ending]
          BY <2>3, <4>1 DEF Session
        <4>3. d \in BOOLEAN /\ s.ending \in BOOLEAN
          BY <4>1 DEF Session
        <4>4. [s EXCEPT !.due = d, !.ending = s.ending].ending = s.ending
          BY <4>1 DEF Session
        <4>. HIDE DEF d
        <4>. QED  BY <4>2, <4>3, <4>4
      <3>. QED  BY <1>1, <3>1, <3>2, Remarked DEF SameSessions
    <2>. QED  BY <2>1, <2>2, <2>3
  <1>4. NoStraySignal'
    <2>1. ASSUME NEW c \in checks PROVE ~Strays(proc, c.pid, <<c.key>>)
      BY <1>1 DEF Links, ChecksAreWorkers, Strays
    <2>. QED  BY <2>1 DEF ClientSessionsTick, IInv, NoStraySignal
  <1>5. TypeOK'
    <2>1. stray' \in BOOLEAN
      BY <1>1 DEF ClientSessionsTick, TypeOK
    <2>2. nextDue' \in 0 .. Unset
      BY <1>1, LimitAssumption DEF ClientSessionsTick, TypeOK, Unset
    <2>. QED  BY <1>0, <1>1, <1>2, <1>3, <2>1, <2>2 DEF TypeOK
  <1>6. ProcessesAreSound'
    BY <1>0, <1>2 DEF ProcessesAreSound, ProcessIsSound
  <1>7. Links'
    <2>1. OneCheckEach' /\ \A r \in Pid : Fresh(r)' = Fresh(r)
      BY <1>0, <1>1 DEF Links, OneCheckEach, Fresh
    <2>. QED  BY <1>0, <1>1, <1>2, <1>3, <2>1, LinksStay
  <1>8. StartsAreWatched'
    BY <1>0, <1>2 DEF IInv, StartsAreWatched
  <1>9. EndedOnlyIfWithdrawn'
    BY <1>0, <1>3 DEF IInv, EndedOnlyIfWithdrawn, SameSessions
  <1>10. TurnIsThere'
    <2>1. CASE pc' # "recheck"
      BY <1>0, <1>3, <2>1 DEF IInv, TurnIsThere
    <2>2. CASE pc' = "recheck"
      <3>1. Len(sessions) \in Nat \ {0}
        BY <1>0, <1>1, <2>2, EmptySeq DEF TypeOK
      <3>2. turn \in 1 .. Len(sessions)
        BY <1>0, <3>1 DEF IInv, TurnIsThere
      <3>. QED  BY <1>0, <1>3, <2>2, <3>2 DEF TurnIsThere
    <2>. QED  BY <2>1, <2>2
  <1>11. WithdrawnIsKnown' /\ InHand'
    BY <1>0 DEF IInv, WithdrawnIsKnown, InHand
  <1>12. WithinLimits'
    BY <1>0 DEF IInv, WithinLimits, ChecksOfAtSign
  <1>. QED  BY <1>4, <1>5, <1>6, <1>7, <1>8, <1>9, <1>10, <1>11, <1>12 DEF IInv

-----------------------------------------------------------------------------
(* A check is started *)

\* A pid that is free, or that of a lookup, is on no list.
LEMMA OthersAreUnlisted ==
    ASSUME Links, NEW p, proc[p].kind \in {"free", "lookup"}
    PROVE  /\ \A i \in DOMAIN sessions : sessions[i].pid # p
           /\ \A c \in checks : c.pid # p
           /\ \A s \in starts : s.pid # p
  BY DEF Links, SessionsAreSrvs, ChecksAreWorkers, StartsAreSrvs

\* clear_due changes marks only.
LEMMA ClearDueIs ==
    ASSUME TypeOK, NEW k
    PROVE  LET ss == ClearDue(k)
           IN  /\ ss \in Seq(Session) /\ Len(ss) = Len(sessions) /\ DOMAIN ss = DOMAIN sessions
               /\ \A i \in DOMAIN sessions :
                     /\ ss[i].id = sessions[i].id /\ ss[i].key = sessions[i].key
                     /\ ss[i].pid = sessions[i].pid /\ ss[i].ending = sessions[i].ending
  <1>. DEFINE ss == ClearDue(k)
  <1>1. ss = [i \in DOMAIN sessions |-> ss[i]]
    BY DEF ClearDue
  <1>2. ASSUME NEW i \in DOMAIN sessions
        PROVE  /\ \E due, ending \in BOOLEAN :
                     ss[i] = [sessions[i] EXCEPT !.due = due, !.ending = ending]
               /\ ss[i].ending = sessions[i].ending
    <2>. DEFINE s == sessions[i]
                d == IF s.key = k THEN FALSE ELSE s.due
    <2>1. s \in Session
      BY ElementOfSeq DEF TypeOK
    <2>2. ss[i] = [s EXCEPT !.due = d, !.ending = s.ending]
      BY <2>1 DEF Session, ClearDue
    <2>3. d \in BOOLEAN /\ s.ending \in BOOLEAN
      BY <2>1 DEF Session
    <2>4. [s EXCEPT !.due = d, !.ending = s.ending].ending = s.ending
      BY <2>1 DEF Session
    <2>. HIDE DEF d, ss
    <2>. QED  BY <2>2, <2>3, <2>4
  <1>. HIDE DEF ss
  <1>3. /\ ss \in Seq(Session) /\ Len(ss) = Len(sessions) /\ DOMAIN ss = DOMAIN sessions
        /\ \A i \in DOMAIN sessions : /\ ss[i].id = sessions[i].id /\ ss[i].key = sessions[i].key
                                      /\ ss[i].pid = sessions[i].pid
    BY <1>1, <1>2, Remarked
  <1>. QED  BY <1>2, <1>3 DEF ss

\* One more check of a key that has none, within the limits, is within them.
LEMMA OneMoreCheck ==
    ASSUME WithinLimits, checks \subseteq Check, NEW c,
           Cardinality(checks) < MaxChecks, ChecksOfAtSign(checks, c.key) < MaxChecksPerAtSign,
           checks' = checks \cup {c}
    PROVE  WithinLimits'
  <1>1. /\ IsFiniteSet(checks) /\ Cardinality(checks) \in Nat
        /\ MaxChecks \in Nat /\ MaxChecksPerAtSign \in Nat
    BY LimitAssumption, FS_CardinalityType DEF WithinLimits
  <1>2. IsFiniteSet(checks') /\ Cardinality(checks') <= MaxChecks
    BY <1>1, FS_AddElement
  <1>3. ASSUME NEW d \in checks' PROVE ChecksOfAtSign(checks', d.key) <= MaxChecksPerAtSign
    <2>. DEFINE S == {e \in checks : OwnerOf[e.key] = OwnerOf[d.key]}
                T == {e \in checks' : OwnerOf[e.key] = OwnerOf[d.key]}
    <2>1. IsFiniteSet(S)
      BY <1>1, FS_Subset
    <2>2. Cardinality(S) \in Nat
      BY <2>1, FS_CardinalityType
    <2>3. CASE OwnerOf[c.key] # OwnerOf[d.key]
      <3>1. T = S /\ d \in checks
        BY <2>3
      <3>2. Cardinality(S) <= MaxChecksPerAtSign
        BY <3>1 DEF WithinLimits, ChecksOfAtSign
      <3>. QED  BY <3>1, <3>2 DEF ChecksOfAtSign
    <2>4. CASE OwnerOf[c.key] = OwnerOf[d.key]
      <3>1. T = S \cup {c}
        BY <2>4
      <3>2. Cardinality(S) < MaxChecksPerAtSign
        BY <2>4 DEF ChecksOfAtSign
      <3>. HIDE DEF S, T
      <3>3. Cardinality(T) <= Cardinality(S) + 1
        <4>1. Cardinality(S \cup {c}) = IF c \in S THEN Cardinality(S) ELSE Cardinality(S) + 1
          BY <2>1, FS_AddElement
        <4>. QED  BY <2>2, <3>1, <4>1
      <3>4. Cardinality(T) \in Nat
        BY <2>1, <3>1, FS_AddElement, FS_CardinalityType
      <3>5. Cardinality(T) <= MaxChecksPerAtSign
        BY <1>1, <2>2, <3>2, <3>3, <3>4
      <3>. QED  BY <3>5 DEF ChecksOfAtSign, T
    <2>. QED  BY <2>3, <2>4
  <1>. QED  BY <1>2, <1>3 DEF WithinLimits

LEMMA StartKeyCheckKeeps == ASSUME IInv, StartKeyCheck PROVE IInv'
  <1>0. /\ pc = "recheck" /\ pc' \in {"read", "recheck"} /\ hand' = hand /\ todo' = todo
        /\ starts' = starts /\ nextDue' = nextDue /\ where' = where
        /\ moves' = moves /\ withdrawn' = withdrawn /\ stray' = stray
    BY DEF StartKeyCheck, world
  <1>1. TypeOK /\ ListsTyped /\ Links /\ sessions \in Seq(Session) /\ Len(sessions) \in Nat
    BY TypedLists DEF IInv, TypeOK
  <1>2. turn \in 1 .. Len(sessions) /\ DOMAIN sessions = 1 .. Len(sessions)
    BY <1>0, <1>1, LenProperties DEF IInv, TurnIsThere
  <1>. DEFINE k == sessions[turn].key
              n == NextPid(proc)
              c == [key |-> k, pid |-> n, age |-> 0]
              w == Worker("check", k)
  <1>3. k \in Key
    <2>1. sessions[turn] \in Session
      BY <1>1, <1>2, ElementOfSeq
    <2>. QED  BY <2>1 DEF Session
  <1>4. /\ sessions' \in Seq(Session) /\ Len(sessions') = Len(sessions) /\ SameSessions
        /\ \A i \in DOMAIN sessions : sessions'[i].ending = sessions[i].ending
    <2>1. sessions' = sessions \/ sessions' = ClearDue(k)
      BY DEF StartKeyCheck, Consider
    <2>2. CASE sessions' = sessions
      BY <1>1, <2>2 DEF SameSessions
    <2>3. CASE sessions' = ClearDue(k)
      BY <1>1, <2>3, ClearDueIs DEF SameSessions
    <2>. QED  BY <2>1, <2>2, <2>3
  <1>5. IF pc' = "recheck" THEN turn' \in 1 .. Len(sessions') ELSE turn' = 1
    BY <1>0, <1>1, <1>2, <1>4 DEF StartKeyCheck
  <1>6. turn' \in Nat \ {0}
    BY <1>2 DEF StartKeyCheck
  <1>7. InHand' /\ WithdrawnIsKnown' /\ NoStraySignal' /\ TurnIsThere'
    BY <1>0, <1>5 DEF IInv, InHand, WithdrawnIsKnown, NoStraySignal, TurnIsThere
  <1>8. EndedOnlyIfWithdrawn'
    BY <1>0, <1>4 DEF IInv, EndedOnlyIfWithdrawn, SameSessions
  <1>9. \/ proc' = proc /\ checks' = checks
        \/ /\ Cardinality(checks) < MaxChecks /\ ChecksOfAtSign(checks, k) < MaxChecksPerAtSign
           /\ ~IsBeingChecked(k) /\ FreePids(proc) # {}
           /\ checks' = checks \cup {c} /\ proc' = [proc EXCEPT ![n] = w]
    <2>1. Cardinality(checks) \in Nat /\ MaxChecks \in Nat /\ MaxChecksPerAtSign \in Nat
      BY LimitAssumption, FS_CardinalityType DEF IInv, WithinLimits
    <2>2. ChecksOfAtSign(checks, k) \in Nat
      <3>1. IsFiniteSet({d \in checks : OwnerOf[d.key] = OwnerOf[k]})
        BY FS_Subset DEF IInv, WithinLimits
      <3>. QED  BY <3>1, FS_CardinalityType DEF ChecksOfAtSign
    <2>. QED  BY <2>1, <2>2 DEF StartKeyCheck, Consider
  <1>10. CASE proc' = proc /\ checks' = checks
    <2>1. TypeOK'
      BY <1>0, <1>1, <1>4, <1>6, <1>10 DEF TypeOK
    <2>2. ProcessesAreSound'
      BY <1>0, <1>10 DEF IInv, ProcessesAreSound, ProcessIsSound
    <2>3. Links'
      <3>1. SamePids /\ OneCheckEach' /\ \A r \in Pid : Fresh(r)' = Fresh(r)
        BY <1>0, <1>1, <1>10 DEF SamePids, Links, OneCheckEach, Fresh
      <3>. QED  BY <1>0, <1>1, <1>4, <1>10, <3>1, LinksStay
    <2>4. WithinLimits' /\ StartsAreWatched'
      BY <1>0, <1>10 DEF IInv, WithinLimits, ChecksOfAtSign, StartsAreWatched
    <2>. QED  BY <1>7, <1>8, <2>1, <2>2, <2>3, <2>4 DEF IInv
  <1>11. CASE /\ Cardinality(checks) < MaxChecks /\ ChecksOfAtSign(checks, k) < MaxChecksPerAtSign
              /\ ~IsBeingChecked(k) /\ FreePids(proc) # {}
              /\ checks' = checks \cup {c} /\ proc' = [proc EXCEPT ![n] = w]
    <2>0. n \in Pid /\ proc[n].kind = "free"
      BY <1>11, NextPidIsFree
    <2>. HIDE DEF n, k
    <2>1. w \in Process /\ w.kind = "check" /\ w.own = <<k>> /\ w.st = "run" /\ w.at = "a"
      BY <1>3, WorkerIs
    <2>. HIDE DEF w
    <2>2. proc' \in [Pid -> Process] /\ \A p \in Pid : proc'[p] = IF p = n THEN w ELSE proc[p]
      BY <1>1, <1>11, <2>0, <2>1 DEF TypeOK
    <2>3. c \in Check /\ c.key = k /\ c.pid = n
      <3>1. 0 \in 0 .. Overrun + 1
        BY LimitAssumption
      <3>. QED  BY <1>3, <2>0, <3>1 DEF Check
    <2>. HIDE DEF c
    <2>4. TypeOK'
      BY <1>0, <1>1, <1>4, <1>6, <1>11, <2>2, <2>3 DEF TypeOK, Check
    <2>5. ProcessesAreSound'
      <3>. SUFFICES ASSUME NEW p \in Pid PROVE ProcessIsSound(p)'
        BY DEF ProcessesAreSound
      <3>1. CASE p = n
        <4>1. Sound(w, withdrawn)
          BY <1>3, <2>1 DEF Sound, EndsSessions
        <4>. QED  BY <1>0, <2>1, <2>2, <3>1, <4>1 DEF ProcessIsSound
      <3>2. CASE p # n
        <4>1. proc'[p] = proc[p]
          BY <2>2, <3>2
        <4>. QED  BY <1>0, <4>1 DEF IInv, ProcessesAreSound, ProcessIsSound
      <3>. QED  BY <3>1, <3>2
    <2>6. /\ \A i \in DOMAIN sessions : sessions[i].pid # n
          /\ \A d \in checks : d.pid # n
          /\ \A s \in starts : s.pid # n
      BY <1>1, <2>0, OthersAreUnlisted
    <2>7. Links'
      <3>0. ListedOnce'
        BY <1>1, <1>4 DEF Links, ListedOnce, SameSessions
      <3>1. SessionsAreSrvs'
        <4>0. DOMAIN sessions' = DOMAIN sessions /\ \A p : ~Fresh(p)'
          BY <1>0, <1>4 DEF SameSessions, Fresh
        <4>. SUFFICES ASSUME NEW i \in DOMAIN sessions
                      PROVE  /\ proc'[sessions'[i].pid].kind = "srv"
                             /\ proc'[sessions'[i].pid].own = <<sessions'[i].id, sessions'[i].key>>
          BY <4>0 DEF SessionsAreSrvs
        <4>1. sessions[i].pid \in Pid /\ proc'[sessions[i].pid] = proc[sessions[i].pid]
          BY <1>1, <2>2, <2>6 DEF ListsTyped
        <4>2. /\ sessions'[i].id = sessions[i].id /\ sessions'[i].key = sessions[i].key
              /\ sessions'[i].pid = sessions[i].pid
          BY <1>4 DEF SameSessions
        <4>. QED  BY <1>1, <4>1, <4>2 DEF Links, SessionsAreSrvs
      <3>2. SignedAreListed'
        <4>. SUFFICES ASSUME NEW p \in Pid, proc'[p].kind = "srv", proc'[p].own[2] # NoKey,
                             ~Fresh(p)'
                      PROVE  \E i \in DOMAIN sessions' : sessions'[i].pid = p
          BY DEF SignedAreListed
        <4>1. proc'[p] = proc[p] /\ ~Fresh(p)
          BY <1>0, <2>1, <2>2 DEF Fresh
        <4>2. PICK i \in DOMAIN sessions : sessions[i].pid = p
          BY <1>1, <4>1 DEF Links, SignedAreListed
        <4>. QED  BY <1>4, <4>2 DEF SameSessions
      <3>3. ChecksAreWorkers'
        <4>. SUFFICES ASSUME NEW d \in checks'
                      PROVE  proc'[d.pid].kind = "check" /\ proc'[d.pid].own = <<d.key>>
          BY DEF ChecksAreWorkers
        <4>1. CASE d = c
          BY <2>0, <2>1, <2>2, <2>3, <4>1
        <4>2. CASE d \in checks
          <5>1. d.pid \in Pid /\ d.pid # n
            BY <1>1, <2>6, <4>2 DEF ListsTyped
          <5>2. proc'[d.pid] = proc[d.pid]
            BY <2>2, <5>1
          <5>. QED  BY <1>1, <4>2, <5>2 DEF Links, ChecksAreWorkers
        <4>. QED  BY <1>11, <4>1, <4>2
      <3>4. WorkersAreChecks'
        BY <1>1, <1>11, <2>2, <2>3 DEF Links, WorkersAreChecks
      <3>5. OneCheckEach'
        <4>1. \A d \in checks : d.key # k
          BY <1>11 DEF IsBeingChecked
        <4>. QED  BY <1>1, <1>11, <2>3, <2>6, <4>1 DEF Links, OneCheckEach
      <3>6. StartsAreSrvs'
        BY <1>0, <1>1, <2>2, <2>6 DEF Links, StartsAreSrvs, ListsTyped, Fresh
      <3>. QED  BY <3>0, <3>1, <3>2, <3>3, <3>4, <3>5, <3>6 DEF Links
    <2>8. WithinLimits'
      <3>1. checks \subseteq Check /\ WithinLimits
        BY DEF IInv, TypeOK, Check
      <3>. QED  BY <1>11, <2>3, <3>1, OneMoreCheck
    <2>9. StartsAreWatched'
      BY <1>0, <2>1, <2>2 DEF IInv, StartsAreWatched
    <2>. QED  BY <1>7, <1>8, <2>4, <2>5, <2>7, <2>8, <2>9 DEF IInv
  <1>. QED  BY <1>9, <1>10, <1>11

-----------------------------------------------------------------------------
(* A child is reaped *)

\* remove_session: what is left are the other sessions, each once.
LEMMA RemoveSessionIs ==
    ASSUME NEW ss \in Seq(Session), NEW i \in DOMAIN ss
    PROVE  LET t      == RemoveSession(ss, i)
               Src(j) == IF j = i THEN Len(ss) ELSE j
           IN  /\ t \in Seq(Session) /\ Len(t) = Len(ss) - 1
               /\ \A j \in DOMAIN t : Src(j) \in DOMAIN ss /\ Src(j) # i /\ t[j] = ss[Src(j)]
               /\ \A j, m \in DOMAIN t : Src(j) = Src(m) => j = m
               /\ \A m \in DOMAIN ss : m # i => \E j \in DOMAIN t : Src(j) = m
  <1>. DEFINE n == Len(ss)
              t == RemoveSession(ss, i)
              e == [ss EXCEPT ![i] = ss[n]]
  <1>1. n \in Nat /\ DOMAIN ss = 1 .. n /\ i \in 1 .. n /\ n \in 1 .. n
    BY LenProperties
  <1>2. \A j \in 1 .. n : ss[j] \in Session
    BY <1>1, ElementOfSeq
  <1>3. \A j \in 1 .. n : e[j] = IF j = i THEN ss[n] ELSE ss[j]
    BY <1>1
  <1>4. \A j \in 1 .. n - 1 : e[j] \in Session
    BY <1>1, <1>2, <1>3
  <1>5. n - 1 \in Int /\ 1 \in Int
    BY <1>1
  <1>. HIDE DEF e, n
  <1>6. /\ SubSeq(e, 1, n - 1) \in Seq(Session)
        /\ Len(SubSeq(e, 1, n - 1)) = IF 1 <= n - 1 THEN (n - 1) - 1 + 1 ELSE 0
        /\ \A j \in 1 .. (n - 1) - 1 + 1 : SubSeq(e, 1, n - 1)[j] = e[1 + j - 1]
    BY <1>4, <1>5, SubSeqProperties
  <1>7. t = SubSeq(e, 1, n - 1)
    BY DEF RemoveSession, e, n
  <1>. HIDE DEF t
  <1>8. t \in Seq(Session) /\ Len(t) = n - 1
    BY <1>1, <1>6, <1>7
  <1>9. DOMAIN t = 1 .. n - 1
    BY <1>8, LenProperties
  <1>10. \A j \in 1 .. n - 1 : t[j] = e[j]
    <2>. SUFFICES ASSUME NEW j \in 1 .. n - 1 PROVE t[j] = e[j]
      OBVIOUS
    <2>1. j \in 1 .. (n - 1) - 1 + 1 /\ 1 + j - 1 = j
      BY <1>1
    <2>. QED  BY <1>6, <1>7, <2>1
  <1>. DEFINE Src(j) == IF j = i THEN n ELSE j
  <1>11. \A j \in DOMAIN t : Src(j) \in DOMAIN ss /\ Src(j) # i /\ t[j] = ss[Src(j)]
    BY <1>1, <1>3, <1>9, <1>10
  <1>12. \A j, m \in DOMAIN t : Src(j) = Src(m) => j = m
    BY <1>1, <1>9
  <1>13. ASSUME NEW m \in DOMAIN ss, m # i PROVE \E j \in DOMAIN t : Src(j) = m
    <2>1. CASE m = n
      <3>1. i \in DOMAIN t /\ Src(i) = m
        BY <1>1, <1>9, <1>13, <2>1
      <3>. QED  BY <3>1
    <2>2. CASE m # n
      <3>1. m \in DOMAIN t /\ Src(m) = m
        BY <1>1, <1>9, <1>13, <2>2
      <3>. QED  BY <3>1
    <2>. QED  BY <2>1, <2>2
  <1>. QED  BY <1>8, <1>11, <1>12, <1>13 DEF t, n

\* Fewer checks are within the limits too.
LEMMA FewerChecks ==
    ASSUME WithinLimits, checks' \subseteq checks
    PROVE  WithinLimits'
  <1>1. /\ IsFiniteSet(checks) /\ Cardinality(checks) \in Nat /\ Cardinality(checks) <= MaxChecks
        /\ MaxChecks \in Nat /\ MaxChecksPerAtSign \in Nat
    BY LimitAssumption, FS_CardinalityType DEF WithinLimits
  <1>2. IsFiniteSet(checks') /\ Cardinality(checks') <= Cardinality(checks)
    BY <1>1, FS_Subset
  <1>3. Cardinality(checks') \in Nat
    BY <1>2, FS_CardinalityType
  <1>4. Cardinality(checks') <= MaxChecks
    BY <1>1, <1>2, <1>3
  <1>5. ASSUME NEW c \in checks' PROVE ChecksOfAtSign(checks', c.key) <= MaxChecksPerAtSign
    <2>. DEFINE S == {d \in checks : OwnerOf[d.key] = OwnerOf[c.key]}
                T == {d \in checks' : OwnerOf[d.key] = OwnerOf[c.key]}
    <2>1. IsFiniteSet(S) /\ T \subseteq S
      BY <1>1, FS_Subset
    <2>2. Cardinality(S) <= MaxChecksPerAtSign
      BY DEF WithinLimits, ChecksOfAtSign
    <2>. HIDE DEF S, T
    <2>3. IsFiniteSet(T) /\ Cardinality(T) <= Cardinality(S)
      BY <2>1, FS_Subset
    <2>4. Cardinality(S) \in Nat /\ Cardinality(T) \in Nat
      BY <2>1, <2>3, FS_CardinalityType
    <2>5. Cardinality(T) <= MaxChecksPerAtSign
      BY <1>1, <2>2, <2>3, <2>4
    <2>. QED  BY <2>5 DEF ChecksOfAtSign, T
  <1>. QED  BY <1>2, <1>4, <1>5 DEF WithinLimits

\* The pid p is free again and no list names it; the rest is as it was.
LEMMA LinksWithout ==
    ASSUME ListsTyped, Links, NEW p \in Pid,
           pc # "forked", pc' # "forked",
           proc'[p] = NoProc,
           \A r \in Pid : r # p => proc'[r].kind = proc[r].kind /\ proc'[r].own = proc[r].own,
           \A i \in DOMAIN sessions' : \E j \in DOMAIN sessions :
               /\ sessions[j].pid # p /\ sessions'[i].pid = sessions[j].pid
               /\ sessions'[i].id = sessions[j].id /\ sessions'[i].key = sessions[j].key,
           \A j \in DOMAIN sessions : sessions[j].pid # p =>
               \E i \in DOMAIN sessions' : sessions'[i].pid = sessions[j].pid,
           ListedOnce',
           checks' = {c \in checks : c.pid # p}, starts' = {s \in starts : s.pid # p}
    PROVE  Links'
  <1>0. \A r : ~Fresh(r) /\ ~Fresh(r)'
    BY DEF Fresh
  <1>1. SessionsAreSrvs'
    <2>. SUFFICES ASSUME NEW i \in DOMAIN sessions'
                  PROVE  /\ proc'[sessions'[i].pid].kind = "srv"
                         /\ proc'[sessions'[i].pid].own = <<sessions'[i].id, sessions'[i].key>>
      BY <1>0 DEF SessionsAreSrvs
    <2>1. PICK j \in DOMAIN sessions :
               /\ sessions[j].pid # p /\ sessions'[i].pid = sessions[j].pid
               /\ sessions'[i].id = sessions[j].id /\ sessions'[i].key = sessions[j].key
      OBVIOUS
    <2>2. /\ sessions[j].pid \in Pid /\ proc[sessions[j].pid].kind = "srv"
          /\ proc[sessions[j].pid].own = <<sessions[j].id, sessions[j].key>>
      BY DEF Links, SessionsAreSrvs, ListsTyped
    <2>. QED  BY <2>1, <2>2
  <1>2. SignedAreListed'
    <2>. SUFFICES ASSUME NEW r \in Pid, proc'[r].kind = "srv", proc'[r].own[2] # NoKey
                  PROVE  \E i \in DOMAIN sessions' : sessions'[i].pid = r
      BY DEF SignedAreListed
    <2>1. r # p
      BY NoProcIs
    <2>2. PICK j \in DOMAIN sessions : sessions[j].pid = r
      BY <1>0, <2>1 DEF Links, SignedAreListed
    <2>. QED  BY <2>1, <2>2
  <1>3. ChecksAreWorkers'
    <2>. SUFFICES ASSUME NEW c \in checks'
                  PROVE  proc'[c.pid].kind = "check" /\ proc'[c.pid].own = <<c.key>>
      BY DEF ChecksAreWorkers
    <2>1. c \in checks /\ c.pid # p /\ c.pid \in Pid
      BY DEF ListsTyped
    <2>. QED  BY <2>1 DEF Links, ChecksAreWorkers
  <1>4. WorkersAreChecks'
    <2>. SUFFICES ASSUME NEW r \in Pid, proc'[r].kind = "check"
                  PROVE  \E c \in checks' : c.pid = r
      BY DEF WorkersAreChecks
    <2>1. r # p
      BY NoProcIs
    <2>2. PICK c \in checks : c.pid = r
      BY <2>1 DEF Links, WorkersAreChecks
    <2>. QED  BY <2>1, <2>2
  <1>5. OneCheckEach'
    BY DEF Links, OneCheckEach
  <1>6. StartsAreSrvs'
    BY <1>0 DEF Links, StartsAreSrvs, ListsTyped
  <1>. QED  BY <1>1, <1>2, <1>3, <1>4, <1>5, <1>6 DEF Links

\* What is left to show when a child was reaped: what it makes of the sessions,
\* which child each other pid is, and that only withdrawn keys end sessions.
LEMMA Reaped ==
    ASSUME IInv, NEW p \in Pid, pc = "reap", UNCHANGED <<pc, hand, todo, turn, nextDue, world>>,
           NEW K, p \notin K,
           proc' = [r \in Pid |-> IF r = p THEN NoProc ELSE Signalled(K, r)],
           sessions' \in Seq(Session),
           \A i \in DOMAIN sessions' : \E j \in DOMAIN sessions :
               /\ sessions[j].pid # p /\ sessions'[i].pid = sessions[j].pid
               /\ sessions'[i].id = sessions[j].id /\ sessions'[i].key = sessions[j].key,
           \A j \in DOMAIN sessions : sessions[j].pid # p =>
               \E i \in DOMAIN sessions' : sessions'[i].pid = sessions[j].pid,
           ListedOnce', EndedOnlyIfWithdrawn', stray' = FALSE,
           checks' = {c \in checks : c.pid # p}, starts' = {s \in starts : s.pid # p}
    PROVE  IInv'
  <1>0. /\ pc' = pc /\ hand' = hand /\ todo' = todo /\ turn' = turn /\ nextDue' = nextDue
        /\ where' = where /\ moves' = moves /\ withdrawn' = withdrawn
    BY DEF world
  <1>1. TypeOK /\ ListsTyped /\ Links
    BY TypedLists DEF IInv
  <1>2. /\ proc'[p] = NoProc
        /\ \A r \in Pid : r # p => proc'[r] = Signalled(K, r)
    OBVIOUS
  <1>3. ASSUME NEW r \in Pid, r # p
        PROVE  /\ proc'[r] \in Process
               /\ proc'[r].kind = proc[r].kind /\ proc'[r].own = proc[r].own
               /\ Sound(proc'[r], withdrawn) /\ proc'[r].kind # "lookup"
               /\ proc'[r].st = "run" => proc'[r] = proc[r]
    BY <1>2, <1>3, SignalledIs
  <1>4. proc' \in [Pid -> Process]
    <2>1. \A r \in Pid : proc'[r] \in Process
      BY <1>2, <1>3, NoProcIs
    <2>. QED  BY <2>1
  <1>5. TypeOK'
    BY <1>0, <1>1, <1>4 DEF TypeOK
  <1>6. ProcessesAreSound'
    <2>. SUFFICES ASSUME NEW r \in Pid PROVE ProcessIsSound(r)'
      BY DEF ProcessesAreSound
    <2>1. CASE r = p
      <3>1. Sound(NoProc, withdrawn)
        BY NoProcIs DEF Sound
      <3>. QED  BY <1>0, <1>2, <2>1, <3>1, NoProcIs DEF ProcessIsSound
    <2>2. CASE r # p
      BY <1>0, <1>3, <2>2 DEF ProcessIsSound
    <2>. QED  BY <2>1, <2>2
  <1>7. Links'
    BY <1>0, <1>1, <1>2, <1>3, LinksWithout
  <1>8. WithinLimits'
    <2>1. WithinLimits /\ checks' \subseteq checks
      BY DEF IInv
    <2>. QED  BY <2>1, FewerChecks
  <1>9. StartsAreWatched'
    <2>. SUFFICES ASSUME NEW r \in Pid, proc'[r].kind = "srv", proc'[r].at = "starting",
                         proc'[r].st = "run"
                  PROVE  \E s \in starts' : s.pid = r
      BY DEF StartsAreWatched
    <2>1. r # p
      BY <1>2, NoProcIs
    <2>2. proc'[r] = proc[r]
      BY <1>3, <2>1
    <2>3. PICK s \in starts : s.pid = r
      BY <2>2 DEF IInv, StartsAreWatched
    <2>. QED  BY <2>1, <2>3
  <1>10. WithdrawnIsKnown' /\ InHand' /\ TurnIsThere' /\ NoStraySignal'
    BY <1>0 DEF IInv, WithdrawnIsKnown, InHand, TurnIsThere, NoStraySignal
  <1>. QED  BY <1>5, <1>6, <1>7, <1>8, <1>9, <1>10 DEF IInv

\* A srv that is on the list of sessions leaves it; a check ends the sessions of
\* its key, if it found it withdrawn; any other srv just goes.
LEMMA ReapChildKeeps == ASSUME IInv, NEW p \in Pid, ReapChild(p) PROVE IInv'
  <1>. DEFINE mine  == {i \in DOMAIN sessions : sessions[i].pid = p}
              check == IF mine = {} THEN {c \in checks : c.pid = p} ELSE {}
              ends  == {i \in DOMAIN sessions :
                          /\ check # {} /\ EndsSessions(proc[p].at)
                          /\ ~sessions[i].ending /\ sessions[i].key = proc[p].own[1]}
              K     == {r \in Pid : r # p /\ \E i \in ends : sessions[i].pid = r}
  <1>0. /\ pc = "reap" /\ UNCHANGED <<pc, hand, todo, turn, nextDue, world>>
        /\ starts' = {s \in starts : s.pid # p} /\ checks' = checks \ check
    BY DEF ReapChild, ReapOne
  <1>1. TypeOK /\ ListsTyped /\ Links /\ sessions \in Seq(Session)
    BY TypedLists DEF IInv, TypeOK
  <1>2. proc' = [r \in Pid |-> IF r = p THEN NoProc
                               ELSE IF \E i \in ends : sessions[i].pid = r
                                    THEN Killed(proc, r)[r] ELSE proc[r]]
    BY DEF ReapChild, ReapOne
  <1>3. proc' = [r \in Pid |-> IF r = p THEN NoProc ELSE Signalled(K, r)]
    BY <1>2 DEF Signalled
  <1>4. stray' = (stray \/ \E i \in ends :
                    Strays(proc, sessions[i].pid, <<sessions[i].id, sessions[i].key>>))
    BY DEF ReapChild, ReapOne
  <1>5. stray' = FALSE
    BY <1>1, <1>4 DEF IInv, NoStraySignal, Links, SessionsAreSrvs, Strays
  <1>6. sessions' = IF mine # {} THEN RemoveSession(sessions, CHOOSE i \in mine : TRUE)
                    ELSE [i \in DOMAIN sessions |->
                            IF i \in ends THEN [sessions[i] EXCEPT !.ending = TRUE]
                            ELSE sessions[i]]
    BY DEF ReapChild, ReapOne
  <1>7. p \notin K
    OBVIOUS
  <1>8. checks' = {c \in checks : c.pid # p}
    <2>1. CASE mine = {}
      BY <1>0, <2>1
    <2>2. CASE mine # {}
      <3>1. proc[p].kind = "srv"
        BY <1>1, <2>2 DEF Links, SessionsAreSrvs
      <3>2. \A c \in checks : c.pid # p
        BY <1>1, <3>1 DEF Links, ChecksAreWorkers
      <3>. QED  BY <1>0, <2>2, <3>2
    <2>. QED  BY <2>1, <2>2
  <1>9. CASE mine # {}
    <2>. DEFINE i == CHOOSE i \in mine : TRUE
                Src(j) == IF j = i THEN Len(sessions) ELSE j
    <2>1. i \in DOMAIN sessions /\ sessions[i].pid = p
      BY <1>9
    <2>2. sessions' = RemoveSession(sessions, i)
      BY <1>6, <1>9
    <2>. HIDE DEF i
    <2>3. /\ sessions' \in Seq(Session)
          /\ \A j \in DOMAIN sessions' : /\ Src(j) \in DOMAIN sessions /\ Src(j) # i
                                         /\ sessions'[j] = sessions[Src(j)]
          /\ \A j, m \in DOMAIN sessions' : Src(j) = Src(m) => j = m
          /\ \A m \in DOMAIN sessions : m # i => \E j \in DOMAIN sessions' : Src(j) = m
      <3>1. sessions \in Seq(Session) /\ i \in DOMAIN sessions
        BY <1>1, <2>1
      <3>. QED  BY <2>2, <3>1, RemoveSessionIs, ZenonT(30)
    <2>4. \A m \in DOMAIN sessions : sessions[m].pid = p => m = i
      BY <1>1, <2>1 DEF Links, ListedOnce
    <2>. HIDE DEF Src
    <2>5. \A m \in DOMAIN sessions' : \E j \in DOMAIN sessions :
              /\ sessions[j].pid # p /\ sessions'[m] = sessions[j]
      BY <2>3, <2>4
    <2>6. \A j \in DOMAIN sessions : sessions[j].pid # p =>
              \E m \in DOMAIN sessions' : sessions'[m].pid = sessions[j].pid
      <3>. SUFFICES ASSUME NEW j \in DOMAIN sessions, sessions[j].pid # p
                    PROVE  \E m \in DOMAIN sessions' : sessions'[m].pid = sessions[j].pid
        OBVIOUS
      <3>1. PICK m \in DOMAIN sessions' : Src(m) = j
        BY <2>1, <2>3
      <3>. QED  BY <2>3, <3>1
    <2>7. ListedOnce'
      BY <1>1, <2>3 DEF Links, ListedOnce
    <2>8. EndedOnlyIfWithdrawn'
      BY <1>0, <2>5 DEF IInv, EndedOnlyIfWithdrawn, world
    <2>9. \A m \in DOMAIN sessions' : \E j \in DOMAIN sessions :
              /\ sessions[j].pid # p /\ sessions'[m].pid = sessions[j].pid
              /\ sessions'[m].id = sessions[j].id /\ sessions'[m].key = sessions[j].key
      BY <2>5
    <2>. QED  BY <1>0, <1>3, <1>5, <1>7, <1>8, <2>3, <2>6, <2>7, <2>8, <2>9, Reaped
  <1>10. CASE mine = {}
    <2>0. sessions' = [i \in DOMAIN sessions |->
                         IF i \in ends THEN [sessions[i] EXCEPT !.ending = TRUE] ELSE sessions[i]]
      BY <1>6, <1>10
    <2>1. ASSUME NEW i \in ends PROVE sessions[i].key \in withdrawn
      <3>1. PICK c \in checks : c.pid = p
        BY <1>10
      <3>2. proc[p].kind = "check" /\ EndsSessions(proc[p].at)
        BY <1>1, <3>1 DEF Links, ChecksAreWorkers
      <3>3. proc[p].own[1] \in withdrawn
        BY <3>2 DEF IInv, ProcessesAreSound, ProcessIsSound, Sound
      <3>. QED  BY <3>3
    <2>. HIDE DEF ends
    <2>2. sessions' = [i \in DOMAIN sessions |-> sessions'[i]]
      BY <2>0
    <2>3. ASSUME NEW i \in DOMAIN sessions
          PROVE  /\ \E due, ending \in BOOLEAN :
                       sessions'[i] = [sessions[i] EXCEPT !.due = due, !.ending = ending]
                 /\ sessions'[i].ending => sessions[i].ending \/ i \in ends
      <3>. DEFINE s == sessions[i]
                  d == IF i \in ends THEN TRUE ELSE s.ending
      <3>1. s \in Session
        BY <1>1, ElementOfSeq
      <3>2. sessions'[i] = [s EXCEPT !.due = s.due, !.ending = d]
        BY <2>0, <3>1 DEF Session
      <3>3. d \in BOOLEAN /\ s.due \in BOOLEAN
        BY <3>1 DEF Session
      <3>4. [s EXCEPT !.due = s.due, !.ending = d].ending = d
        BY <3>1 DEF Session
      <3>5. d => s.ending \/ i \in ends
        OBVIOUS
      <3>. HIDE DEF d
      <3>. QED  BY <3>2, <3>3, <3>4, <3>5
    <2>4. /\ sessions' \in Seq(Session) /\ DOMAIN sessions' = DOMAIN sessions
          /\ \A i \in DOMAIN sessions :
                /\ sessions'[i].id = sessions[i].id /\ sessions'[i].key = sessions[i].key
                /\ sessions'[i].pid = sessions[i].pid
      BY <1>1, <2>2, <2>3, Remarked
    <2>5. \A i \in DOMAIN sessions : sessions[i].pid # p
      BY <1>10
    <2>6. ListedOnce'
      BY <1>1, <2>4 DEF Links, ListedOnce
    <2>7. EndedOnlyIfWithdrawn'
      BY <1>0, <2>1, <2>3, <2>4 DEF IInv, EndedOnlyIfWithdrawn, world
    <2>8. \A i \in DOMAIN sessions' : \E j \in DOMAIN sessions :
              /\ sessions[j].pid # p /\ sessions'[i].pid = sessions[j].pid
              /\ sessions'[i].id = sessions[j].id /\ sessions'[i].key = sessions[j].key
      BY <2>4, <2>5
    <2>9. \A j \in DOMAIN sessions : sessions[j].pid # p =>
              \E i \in DOMAIN sessions' : sessions'[i].pid = sessions[j].pid
      BY <2>4
    <2>. QED  BY <1>0, <1>3, <1>5, <1>7, <1>8, <2>4, <2>6, <2>7, <2>8, <2>9, Reaped
  <1>. QED  BY <1>9, <1>10

-----------------------------------------------------------------------------
(* A request is handled *)

\* Only the process that was forked just now is new, and only a lookup has ended:
\* the lists are about neither.
LEMMA LinksBeside ==
    ASSUME ListsTyped, Links, pc # "forked",
           sessions' = sessions, checks' = checks, starts' = starts,
           \A p \in Pid : proc[p].kind \in {"srv", "check"} => proc'[p] = proc[p] /\ ~Fresh(p)',
           \A p \in Pid : proc'[p].kind \in {"srv", "check"} => proc'[p] = proc[p] \/ Fresh(p)',
           \A p \in Pid : Fresh(p)' => proc'[p].kind = "srv"
    PROVE  Links'
  <1>0. \A r : ~Fresh(r)
    BY DEF Fresh
  <1>1. SessionsAreSrvs' /\ ListedOnce'
    <2>1. ASSUME NEW i \in DOMAIN sessions
          PROVE  /\ proc'[sessions[i].pid] = proc[sessions[i].pid]
                 /\ proc[sessions[i].pid].kind = "srv" /\ ~Fresh(sessions[i].pid)'
                 /\ proc[sessions[i].pid].own = <<sessions[i].id, sessions[i].key>>
      BY DEF Links, SessionsAreSrvs, ListsTyped
    <2>2. \A i \in DOMAIN sessions' : ~(pc' = "forked" /\ hand'.pid = sessions'[i].pid)
      BY <2>1 DEF Fresh
    <2>. QED  BY <2>1, <2>2 DEF SessionsAreSrvs, Links, ListedOnce, Fresh
  <1>2. SignedAreListed'
    <2>. SUFFICES ASSUME NEW r \in Pid, proc'[r].kind = "srv", proc'[r].own[2] # NoKey, ~Fresh(r)'
                  PROVE  \E i \in DOMAIN sessions' : sessions'[i].pid = r
      BY DEF SignedAreListed
    <2>1. proc'[r] = proc[r]
      OBVIOUS
    <2>. QED  BY <1>0, <2>1 DEF Links, SignedAreListed
  <1>3. ChecksAreWorkers'
    BY DEF Links, ChecksAreWorkers, ListsTyped
  <1>4. WorkersAreChecks'
    BY DEF Links, WorkersAreChecks
  <1>5. OneCheckEach'
    BY DEF Links, OneCheckEach
  <1>6. StartsAreSrvs'
    <2>1. ASSUME NEW s \in starts
          PROVE  proc'[s.pid].kind = "srv" /\ ~Fresh(s.pid)'
      BY DEF Links, StartsAreSrvs, ListsTyped
    <2>. QED  BY <2>1 DEF StartsAreSrvs, Fresh
  <1>. QED  BY <1>1, <1>2, <1>3, <1>4, <1>5, <1>6 DEF Links

\* The processes without the lookup that has ended, if there was one.
NoLookup(pr) ==
    /\ pr \in [Pid -> Process]
    /\ \A p \in Pid : /\ Sound(pr[p], withdrawn) /\ pr[p].kind # "lookup"
                      /\ proc[p].kind # "lookup" => pr[p] = proc[p]
                      /\ proc[p].kind = "lookup" => pr[p] = NoProc

\* What the handlers leave alone.
Handling ==
    /\ pc \in {"read", "lookup"} /\ todo' \subseteq todo
    /\ UNCHANGED <<sessions, checks, starts, turn, nextDue, world, stray>>

LEMMA HandlingKeeps ==
    ASSUME IInv, Handling, pc' # "recheck"
    PROVE  /\ WithdrawnIsKnown' /\ TurnIsThere' /\ WithinLimits'
           /\ EndedOnlyIfWithdrawn' /\ NoStraySignal'
           /\ sessions' = sessions /\ checks' = checks /\ starts' = starts
           /\ withdrawn' = withdrawn
  <1>1. /\ sessions' = sessions /\ checks' = checks /\ starts' = starts /\ turn' = turn
        /\ where' = where /\ withdrawn' = withdrawn /\ stray' = stray /\ pc # "recheck"
    BY DEF Handling, world
  <1>. QED  BY <1>1 DEF IInv, WithdrawnIsKnown, TurnIsThere, WithinLimits, ChecksOfAtSign,
                        EndedOnlyIfWithdrawn, NoStraySignal

LEMMA HandlingTyped ==
    ASSUME TypeOK, Handling, pc' \in {"reap", "lookup", "forked"},
           hand' \in [req : SUBSET Request, key : MaybeKey, pid : Pid \cup {0}],
           proc' \in [Pid -> Process]
    PROVE  TypeOK'
  <1>1. /\ sessions' = sessions /\ checks' = checks /\ starts' = starts /\ turn' = turn
        /\ where' = where /\ withdrawn' = withdrawn /\ stray' = stray /\ moves' = moves
        /\ nextDue' = nextDue /\ todo' \subseteq todo
    BY DEF Handling, world
  <1>. QED  BY <1>1 DEF TypeOK

\* A request is dropped.
LEMMA DoneKeeps ==
    ASSUME IInv, Handling, NEW pr, NoLookup(pr), Done(pr)
    PROVE  IInv'
  <1>0. pc' = "reap" /\ hand' = Empty /\ proc' = pr /\ pc # "forked"
    BY DEF Done, Handling
  <1>1. TypeOK /\ ListsTyped /\ Links
    BY TypedLists DEF IInv
  <1>2. hand' \in [req : SUBSET Request, key : MaybeKey, pid : Pid \cup {0}]
    BY <1>0 DEF Empty, MaybeKey
  <1>3. TypeOK'
    BY <1>0, <1>1, <1>2, HandlingTyped DEF NoLookup
  <1>4. /\ WithdrawnIsKnown' /\ TurnIsThere' /\ WithinLimits'
        /\ EndedOnlyIfWithdrawn' /\ NoStraySignal'
        /\ sessions' = sessions /\ checks' = checks /\ starts' = starts
        /\ withdrawn' = withdrawn
    BY <1>0, HandlingKeeps
  <1>5. ProcessesAreSound'
    BY <1>0, <1>4 DEF NoLookup, ProcessesAreSound, ProcessIsSound
  <1>6. \A p : ~Fresh(p)'
    BY <1>0 DEF Fresh
  <1>7. Links'
    <2>1. \A p \in Pid : proc[p].kind \in {"srv", "check"} => proc'[p] = proc[p] /\ ~Fresh(p)'
      BY <1>0, <1>6 DEF NoLookup
    <2>2. \A p \in Pid : proc'[p].kind \in {"srv", "check"} => proc'[p] = proc[p]
      BY <1>0, NoProcIs DEF NoLookup
    <2>. QED  BY <1>0, <1>1, <1>4, <1>6, <2>1, <2>2, LinksBeside
  <1>8. StartsAreWatched'
    <2>. SUFFICES ASSUME NEW r \in Pid, proc'[r].kind = "srv", proc'[r].at = "starting",
                         proc'[r].st = "run"
                  PROVE  \E s \in starts' : s.pid = r
      BY DEF StartsAreWatched
    <2>1. proc'[r] = proc[r]
      BY <1>0, NoProcIs DEF NoLookup
    <2>. QED  BY <1>0, <1>4, <2>1 DEF IInv, StartsAreWatched
  <1>9. InHand'
    BY <1>0 DEF InHand
  <1>. QED  BY <1>3, <1>4, <1>5, <1>7, <1>8, <1>9 DEF IInv

\* A request is dropped, or its srv forked.
LEMMA StartSessionKeeps ==
    ASSUME IInv, Handling, NEW pr, NoLookup(pr), NEW q \in Request, NEW k \in MaybeKey,
           NEW piped \in BOOLEAN, StartSession(q, k, pr, piped)
    PROVE  IInv'
  <1>1. CASE ~(MayStart(q, Policy[q.from]) /\ FreePids(pr) # {})
    BY <1>1, DoneKeeps DEF StartSession
  <1>2. CASE MayStart(q, Policy[q.from]) /\ FreePids(pr) # {}
    <2>. DEFINE n  == NextPid(pr)
                at == IF piped THEN "starting" ELSE "ready"
                s  == Srv(q.id, k, at)
    <2>0. /\ pc' = "forked" /\ hand' = [req |-> {q}, key |-> k, pid |-> n] /\ pc # "forked"
          /\ proc' = [pr EXCEPT ![n] = s]
      BY <1>2 DEF StartSession, Handling
    <2>1. n \in Pid /\ pr[n].kind = "free"
      BY <1>2, NextPidIsFree
    <2>. HIDE DEF n
    <2>2. s \in Process /\ s.kind = "srv" /\ s.own = <<q.id, k>>
      <3>1. q.id \in STRING
        BY KeyAssumption DEF AnyRequest
      <3>2. at \in {"starting", "ready"}
        OBVIOUS
      <3>. HIDE DEF at
      <3>. QED  BY <3>1, <3>2, SrvIs
    <2>. HIDE DEF s
    <2>3. TypeOK /\ ListsTyped /\ Links /\ pr \in [Pid -> Process]
      BY TypedLists DEF IInv, NoLookup
    <2>4. hand'.req = {q} /\ hand'.key = k /\ hand'.pid = n
      BY <2>0
    <2>5. proc' \in [Pid -> Process] /\ \A p \in Pid : proc'[p] = IF p = n THEN s ELSE pr[p]
      BY <2>0, <2>1, <2>2, <2>3
    <2>6. TypeOK'
      <3>1. hand' \in [req : SUBSET Request, key : MaybeKey, pid : Pid \cup {0}]
        BY <2>0, <2>1
      <3>. QED  BY <2>0, <2>3, <2>5, <3>1, HandlingTyped
    <2>7. /\ WithdrawnIsKnown' /\ TurnIsThere' /\ WithinLimits'
          /\ EndedOnlyIfWithdrawn' /\ NoStraySignal'
          /\ sessions' = sessions /\ checks' = checks /\ starts' = starts
          /\ withdrawn' = withdrawn
      BY <2>0, HandlingKeeps
    <2>8. ProcessesAreSound'
      <3>. SUFFICES ASSUME NEW p \in Pid PROVE ProcessIsSound(p)'
        BY DEF ProcessesAreSound
      <3>1. CASE p = n
        <4>1. q.id \in STRING
          BY KeyAssumption DEF AnyRequest
        <4>2. Sound(s, withdrawn)
          BY <2>2, <4>1 DEF Sound
        <4>. QED  BY <2>2, <2>5, <2>7, <3>1, <4>2 DEF ProcessIsSound
      <3>2. CASE p # n
        <4>1. proc'[p] = pr[p]
          BY <2>5, <3>2
        <4>. QED  BY <2>7, <4>1 DEF NoLookup, ProcessIsSound
      <3>. QED  BY <3>1, <3>2
    <2>9. InHand'
      <3>1. proc'[n].kind = "srv" /\ proc'[n].own = <<q.id, k>>
        BY <2>1, <2>2, <2>5
      <3>. QED  BY <1>2, <2>0, <2>1, <2>4, <3>1 DEF InHand
    <2>10. \A p : Fresh(p)' <=> p = n
      BY <2>0, <2>4 DEF Fresh
    <2>11. proc[n].kind \in {"free", "lookup"}
      BY <2>1 DEF NoLookup
    <2>12. \A p \in Pid : proc'[p].kind \in {"srv", "check"} => proc'[p] = proc[p] \/ p = n
      BY <2>5, NoProcIs DEF NoLookup
    <2>13. Links'
      <3>1. \A p \in Pid : proc[p].kind \in {"srv", "check"} => proc'[p] = proc[p] /\ ~Fresh(p)'
        BY <2>5, <2>10, <2>11 DEF NoLookup
      <3>2. \A p \in Pid : proc'[p].kind \in {"srv", "check"} => proc'[p] = proc[p] \/ Fresh(p)'
        BY <2>10, <2>12
      <3>3. \A p \in Pid : Fresh(p)' => proc'[p].kind = "srv"
        BY <2>1, <2>2, <2>5, <2>10
      <3>. QED  BY <2>0, <2>3, <2>7, <3>1, <3>2, <3>3, LinksBeside
    <2>14. StartsAreWatched'
      <3>. SUFFICES ASSUME NEW r \in Pid, proc'[r].kind = "srv", proc'[r].at = "starting",
                           proc'[r].st = "run"
                    PROVE  (pc' = "forked" /\ hand'.pid = r) \/ \E t \in starts' : t.pid = r
        BY DEF StartsAreWatched
      <3>1. CASE r = n
        BY <2>0, <2>4, <3>1
      <3>2. CASE r # n
        <4>1. proc'[r] = proc[r]
          BY <2>12, <3>2
        <4>. QED  BY <2>0, <2>7, <4>1 DEF IInv, StartsAreWatched
      <3>. QED  BY <3>1, <3>2
    <2>. QED  BY <2>6, <2>7, <2>8, <2>9, <2>13, <2>14 DEF IInv
  <1>. QED  BY <1>1, <1>2

LEMMA SettleKeeps ==
    ASSUME IInv, Handling, NEW pr, NoLookup(pr), NEW q \in Request, NEW result,
           result = "verified" => q.enroll.key \in Key,
           NEW piped \in BOOLEAN, Settle(q, result, pr, piped)
    PROVE  IInv'
  <1>1. NoKey \in MaybeKey /\ (result = "verified" => q.enroll.key \in MaybeKey)
    BY DEF MaybeKey
  <1>2. \/ Done(pr)
        \/ result = "verified" /\ StartSession(q, q.enroll.key, pr, piped)
        \/ StartSession(q, NoKey, pr, piped)
    BY DEF Settle
  <1>. QED  BY <1>1, <1>2, DoneKeeps, StartSessionKeeps

LEMMA HandleRequestKeeps ==
    ASSUME IInv, NEW q \in Request, NEW fetched \in BOOLEAN, NEW piped \in BOOLEAN,
           HandleRequest(q, fetched, piped)
    PROVE  IInv'
  <1>0. Handling /\ pc = "read"
    BY DEF HandleRequest, Handling
  <1>1. NoLookup(proc)
    BY <1>0 DEF NoLookup, IInv, TypeOK, ProcessesAreSound, ProcessIsSound
  <1>2. BeforeLookup(q) # "verified"
    BY DEF BeforeLookup
  <1>. DEFINE n == NextPid(proc)
              w == Worker("lookup", q.enroll.key)
  <1>3. \/ Done(proc)
        \/ Settle(q, BeforeLookup(q), proc, piped)
        \/ Settle(q, "unchecked", proc, piped)
        \/ /\ BeforeLookup(q) = "lookup" /\ FreePids(proc) # {} /\ pc' = "lookup"
           /\ hand' = [req |-> {q}, key |-> NoKey, pid |-> n]
           /\ proc' = [proc EXCEPT ![n] = w]
    BY DEF HandleRequest
  <1>4. CASE Done(proc)
    BY <1>0, <1>1, <1>4, DoneKeeps
  <1>5. CASE Settle(q, BeforeLookup(q), proc, piped)
    BY <1>0, <1>1, <1>2, <1>5, SettleKeeps
  <1>6. CASE Settle(q, "unchecked", proc, piped)
    <2>1. "unchecked" # "verified"
      OBVIOUS
    <2>. QED  BY <1>0, <1>1, <1>6, <2>1, SettleKeeps
  <1>7. CASE /\ BeforeLookup(q) = "lookup" /\ FreePids(proc) # {} /\ pc' = "lookup"
             /\ hand' = [req |-> {q}, key |-> NoKey, pid |-> n]
             /\ proc' = [proc EXCEPT ![n] = w]
    <2>1. n \in Pid /\ proc[n].kind = "free"
      BY <1>7, NextPidIsFree
    <2>2. q.enroll.key \in Key
      BY <1>7, KeyAssumption
    <2>3. w \in Process /\ w.kind = "lookup" /\ w.own = <<q.enroll.key>> /\ w.st = "run"
      BY <2>2, WorkerIs
    <2>. HIDE DEF n, w
    <2>4. hand'.req = {q} /\ hand'.key = NoKey /\ hand'.pid = n
      BY <1>7
    <2>5. TypeOK /\ ListsTyped /\ Links /\ proc \in [Pid -> Process]
      BY TypedLists DEF IInv, TypeOK
    <2>6. proc' \in [Pid -> Process] /\ \A p \in Pid : proc'[p] = IF p = n THEN w ELSE proc[p]
      BY <1>7, <2>1, <2>3, <2>5
    <2>7. TypeOK'
      <3>1. hand' \in [req : SUBSET Request, key : MaybeKey, pid : Pid \cup {0}]
        BY <1>7, <2>1 DEF MaybeKey
      <3>. QED  BY <1>0, <1>7, <2>5, <2>6, <3>1, HandlingTyped
    <2>8. /\ WithdrawnIsKnown' /\ TurnIsThere' /\ WithinLimits'
          /\ EndedOnlyIfWithdrawn' /\ NoStraySignal'
          /\ sessions' = sessions /\ checks' = checks /\ starts' = starts
          /\ withdrawn' = withdrawn
      BY <1>0, <1>7, HandlingKeeps
    <2>9. ProcessesAreSound'
      <3>. SUFFICES ASSUME NEW p \in Pid PROVE ProcessIsSound(p)'
        BY DEF ProcessesAreSound
      <3>1. CASE p = n
        <4>1. Sound(w, withdrawn)
          BY <2>3 DEF Sound
        <4>. QED  BY <1>7, <2>3, <2>4, <2>6, <2>8, <3>1, <4>1 DEF ProcessIsSound
      <3>2. CASE p # n
        <4>1. proc'[p] = proc[p]
          BY <2>6, <3>2
        <4>. QED  BY <1>1, <2>8, <4>1 DEF NoLookup, ProcessIsSound
      <3>. QED  BY <3>1, <3>2
    <2>10. InHand'
      <3>1. proc'[n].kind = "lookup"
        BY <2>1, <2>3, <2>6
      <3>. QED  BY <1>7, <2>1, <2>2, <2>4, <3>1 DEF InHand
    <2>11. \A p : ~Fresh(p)'
      BY <1>7 DEF Fresh
    <2>12. Links'
      <3>1. \A p \in Pid : proc[p].kind \in {"srv", "check"} => proc'[p] = proc[p]
        BY <2>1, <2>6
      <3>2. \A p \in Pid : proc'[p].kind \in {"srv", "check"} => proc'[p] = proc[p]
        BY <2>3, <2>6
      <3>. QED  BY <1>0, <2>5, <2>8, <2>11, <3>1, <3>2, LinksBeside
    <2>13. StartsAreWatched'
      <3>. SUFFICES ASSUME NEW r \in Pid, proc'[r].kind = "srv", proc'[r].at = "starting",
                           proc'[r].st = "run"
                    PROVE  \E t \in starts' : t.pid = r
        BY DEF StartsAreWatched
      <3>1. proc'[r] = proc[r]
        BY <2>3, <2>6
      <3>. QED  BY <1>0, <2>8, <3>1 DEF IInv, StartsAreWatched
    <2>. QED  BY <2>7, <2>8, <2>9, <2>10, <2>12, <2>13 DEF IInv
  <1>. QED  BY <1>3, <1>4, <1>5, <1>6, <1>7

LEMMA LookupEndsKeeps ==
    ASSUME IInv, NEW looked, NEW piped \in BOOLEAN, LookupEnds(looked, piped)
    PROVE  IInv'
  <1>0. Handling /\ pc = "lookup"
    BY DEF LookupEnds, Handling
  <1>1. PICK q \in Request : /\ hand.req = {q} /\ q.enroll.key \in Key
                             /\ hand.pid \in Pid /\ proc[hand.pid].kind = "lookup"
    BY <1>0 DEF IInv, InHand
  <1>. DEFINE pr == [proc EXCEPT ![hand.pid] = NoProc]
              result == AfterLookup(q, looked, Advert[q.enroll.key])
  <1>2. Settle(q, result, pr, piped)
    BY <1>1 DEF LookupEnds
  <1>. HIDE DEF result
  <1>3. proc \in [Pid -> Process]
    BY DEF IInv, TypeOK
  <1>4. pr \in [Pid -> Process] /\ \A p \in Pid : pr[p] = IF p = hand.pid THEN NoProc ELSE proc[p]
    BY <1>1, <1>3, NoProcIs
  <1>. HIDE DEF pr
  <1>5. NoLookup(pr)
    <2>1. Sound(NoProc, withdrawn)
      BY NoProcIs DEF Sound
    <2>2. \A p \in Pid : Sound(proc[p], withdrawn) /\ (proc[p].kind = "lookup" => p = hand.pid)
      BY DEF IInv, ProcessesAreSound, ProcessIsSound
    <2>. QED  BY <1>1, <1>4, <2>1, <2>2, NoProcIs DEF NoLookup
  <1>. QED  BY <1>0, <1>1, <1>2, <1>5, SettleKeeps

LEMMA ReadNothingKeeps == ASSUME IInv, ReadNothing PROVE IInv'
  <1>1. /\ pc = "read" /\ pc' = "reap" /\ hand' = hand /\ todo' = todo /\ proc' = proc
        /\ UNCHANGED <<sessions, checks, starts, turn, nextDue, world, stray>>
    BY DEF ReadNothing, child
  <1>2. Handling
    BY <1>1 DEF Handling
  <1>3. TypeOK /\ ListsTyped /\ Links
    BY TypedLists DEF IInv
  <1>4. TypeOK'
    BY <1>1, <1>2, <1>3, HandlingTyped DEF TypeOK
  <1>5. /\ WithdrawnIsKnown' /\ TurnIsThere' /\ WithinLimits'
        /\ EndedOnlyIfWithdrawn' /\ NoStraySignal'
        /\ sessions' = sessions /\ checks' = checks /\ starts' = starts
        /\ withdrawn' = withdrawn
    BY <1>1, <1>2, HandlingKeeps
  <1>6. ProcessesAreSound' /\ InHand' /\ StartsAreWatched'
    BY <1>1, <1>5 DEF IInv, ProcessesAreSound, ProcessIsSound, InHand, StartsAreWatched
  <1>7. \A p : ~Fresh(p)'
    BY <1>1 DEF Fresh
  <1>8. Links'
    BY <1>1, <1>3, <1>5, <1>7, LinksBeside
  <1>. QED  BY <1>4, <1>5, <1>6, <1>8 DEF IInv

\* The daemon finishes a start: a srv that already ended is reaped, any other goes
\* on the lists.
LEMMA FinishStartKeeps == ASSUME IInv, FinishStart PROVE IInv'
  <1>0. /\ pc = "forked" /\ pc' = "reap" /\ hand' = Empty /\ todo' = todo /\ checks' = checks
        /\ turn' = turn /\ nextDue' = nextDue /\ where' = where /\ moves' = moves
        /\ withdrawn' = withdrawn /\ stray' = stray
    BY DEF FinishStart, world
  <1>1. TypeOK /\ ListsTyped /\ Links /\ sessions \in Seq(Session) /\ proc \in [Pid -> Process]
    BY TypedLists DEF IInv, TypeOK
  <1>. DEFINE p == hand.pid
              k == hand.key
  <1>2. PICK q \in Request : /\ p \in Pid /\ proc[p].kind = "srv" /\ proc[p].own = <<q.id, k>>
    BY <1>0 DEF IInv, InHand
  <1>3. q.id \in STRING /\ k \in MaybeKey
    BY <1>1, KeyAssumption DEF AnyRequest, TypeOK
  <1>4. hand' \in [req : SUBSET Request, key : MaybeKey, pid : Pid \cup {0}]
    BY <1>0 DEF Empty, MaybeKey
  <1>5. (\A r : Fresh(r) <=> r = p) /\ \A r : ~Fresh(r)'
    BY <1>0 DEF Fresh
  <1>. HIDE DEF p, k
  <1>6. /\ \A i \in DOMAIN sessions : sessions[i].pid # p
        /\ \A c \in checks : c.pid # p
        /\ \A s \in starts : s.pid # p
    BY <1>1, <1>2, <1>5 DEF Links, SessionsAreSrvs, ChecksAreWorkers, StartsAreSrvs
  <1>7. InHand' /\ WithdrawnIsKnown' /\ TurnIsThere' /\ WithinLimits' /\ NoStraySignal'
    BY <1>0 DEF IInv, InHand, WithdrawnIsKnown, TurnIsThere, WithinLimits, ChecksOfAtSign,
                NoStraySignal
  <1>8. CASE proc[p].st = "dead"
    <2>1. proc' = [proc EXCEPT ![p] = NoProc] /\ starts' = starts /\ sessions' = sessions
      BY <1>8 DEF FinishStart, p
    <2>2. /\ proc' \in [Pid -> Process] /\ proc'[p] = NoProc
          /\ \A r \in Pid : r # p => proc'[r] = proc[r]
      BY <1>1, <1>2, <2>1, NoProcIs
    <2>3. TypeOK'
      BY <1>0, <1>1, <1>4, <2>1, <2>2 DEF TypeOK
    <2>4. ProcessesAreSound'
      <3>. SUFFICES ASSUME NEW r \in Pid PROVE ProcessIsSound(r)'
        BY DEF ProcessesAreSound
      <3>1. CASE r = p
        <4>1. Sound(NoProc, withdrawn)
          BY NoProcIs DEF Sound
        <4>. QED  BY <1>0, <2>2, <3>1, <4>1, NoProcIs DEF ProcessIsSound
      <3>2. CASE r # p
        BY <1>0, <2>2, <3>2 DEF IInv, ProcessesAreSound, ProcessIsSound
      <3>. QED  BY <3>1, <3>2
    <2>5. Links'
      <3>1. SessionsAreSrvs' /\ ListedOnce'
        <4>1. ASSUME NEW i \in DOMAIN sessions
              PROVE  /\ proc'[sessions[i].pid] = proc[sessions[i].pid]
                     /\ proc[sessions[i].pid].kind = "srv"
                     /\ proc[sessions[i].pid].own = <<sessions[i].id, sessions[i].key>>
          BY <1>1, <1>6, <2>2 DEF Links, SessionsAreSrvs, ListsTyped
        <4>2. SessionsAreSrvs'
          BY <1>5, <2>1, <4>1 DEF SessionsAreSrvs
        <4>. QED  BY <1>1, <2>1, <4>2 DEF Links, ListedOnce
      <3>2. SignedAreListed'
        BY <1>1, <1>5, <2>1, <2>2, NoProcIs DEF Links, SignedAreListed
      <3>3. ChecksAreWorkers'
        BY <1>0, <1>1, <1>6, <2>2 DEF Links, ChecksAreWorkers, ListsTyped
      <3>4. WorkersAreChecks' /\ OneCheckEach'
        BY <1>0, <1>1, <2>2, NoProcIs DEF Links, WorkersAreChecks, OneCheckEach
      <3>5. StartsAreSrvs'
        BY <1>1, <1>5, <1>6, <2>1, <2>2 DEF Links, StartsAreSrvs, ListsTyped
      <3>. QED  BY <3>1, <3>2, <3>3, <3>4, <3>5 DEF Links
    <2>6. StartsAreWatched'
      <3>. SUFFICES ASSUME NEW r \in Pid, proc'[r].kind = "srv", proc'[r].at = "starting",
                           proc'[r].st = "run"
                    PROVE  \E s \in starts' : s.pid = r
        BY DEF StartsAreWatched
      <3>1. r # p /\ proc'[r] = proc[r]
        BY <2>2, NoProcIs
      <3>. QED  BY <2>1, <3>1 DEF IInv, StartsAreWatched, p
    <2>7. EndedOnlyIfWithdrawn'
      BY <1>0, <2>1 DEF IInv, EndedOnlyIfWithdrawn
    <2>. QED  BY <1>7, <2>3, <2>4, <2>5, <2>6, <2>7 DEF IInv
  <1>9. CASE proc[p].st # "dead"
    <2>. DEFINE t == [pid |-> p, age |-> 0]
                e == [id |-> q.id, key |-> k, pid |-> p, ending |-> FALSE, due |-> FALSE]
    <2>1. /\ proc' = proc
          /\ starts' = IF proc[p].at # "starting" THEN starts ELSE starts \cup {t}
          /\ sessions' = IF k = NoKey THEN sessions ELSE Append(sessions, e)
      BY <1>2, <1>9 DEF FinishStart, p, k
    <2>2. t.pid = p /\ t \in [pid : Pid, age : 0 .. StartTimeout]
      <3>1. 0 \in 0 .. StartTimeout
        BY LimitAssumption
      <3>. QED  BY <1>2, <3>1
    <2>3. e.id = q.id /\ e.key = k /\ e.pid = p /\ ~e.ending /\ (k # NoKey => e \in Session)
      BY <1>2, <1>3 DEF Session, MaybeKey
    <2>. HIDE DEF t, e
    <2>4. /\ sessions' \in Seq(Session)
          /\ \A i \in DOMAIN sessions : i \in DOMAIN sessions' /\ sessions'[i] = sessions[i]
          /\ \A i \in DOMAIN sessions' : i \notin DOMAIN sessions
                => k # NoKey /\ sessions'[i] = e /\ i = Len(sessions) + 1
          /\ k # NoKey => \E i \in DOMAIN sessions' : sessions'[i] = e
      <3>1. CASE k = NoKey
        BY <1>1, <2>1, <3>1
      <3>2. CASE k # NoKey
        <4>1. /\ Append(sessions, e) \in Seq(Session)
              /\ Len(Append(sessions, e)) = Len(sessions) + 1
              /\ \A i \in 1 .. Len(sessions) : Append(sessions, e)[i] = sessions[i]
              /\ Append(sessions, e)[Len(sessions) + 1] = e
          BY <1>1, <2>3, <3>2, AppendProperties
        <4>2. sessions' = Append(sessions, e)
          BY <2>1, <3>2
        <4>3. Len(sessions) \in Nat /\ DOMAIN sessions = 1 .. Len(sessions)
          BY <1>1, LenProperties
        <4>4. DOMAIN sessions' = 1 .. Len(sessions) + 1
          BY <4>1, <4>2, LenProperties
        <4>5. Len(sessions) + 1 \in DOMAIN sessions'
          BY <4>3, <4>4
        <4>6. \A i \in DOMAIN sessions' : i \in DOMAIN sessions \/ i = Len(sessions) + 1
          BY <4>3, <4>4
        <4>7. \A i \in DOMAIN sessions : i \in DOMAIN sessions'
          BY <4>3, <4>4
        <4>. QED  BY <3>2, <4>1, <4>2, <4>3, <4>5, <4>6, <4>7
      <3>. QED  BY <3>1, <3>2
    <2>5. /\ starts' \subseteq [pid : Pid, age : 0 .. StartTimeout]
          /\ starts \subseteq starts' /\ \A s \in starts' : s \in starts \/ s.pid = p
          /\ proc[p].at = "starting" => \E s \in starts' : s.pid = p
      BY <1>1, <2>1, <2>2 DEF TypeOK
    <2>6. TypeOK'
      BY <1>0, <1>1, <1>4, <2>1, <2>4, <2>5 DEF TypeOK
    <2>7. ProcessesAreSound'
      BY <1>0, <2>1 DEF IInv, ProcessesAreSound, ProcessIsSound
    <2>8. Links'
      <3>1. SessionsAreSrvs'
        <4>. SUFFICES ASSUME NEW i \in DOMAIN sessions'
                      PROVE  /\ proc[sessions'[i].pid].kind = "srv"
                             /\ proc[sessions'[i].pid].own = <<sessions'[i].id, sessions'[i].key>>
          BY <1>5, <2>1 DEF SessionsAreSrvs
        <4>1. CASE i \in DOMAIN sessions
          BY <1>1, <2>4, <4>1 DEF Links, SessionsAreSrvs
        <4>2. CASE i \notin DOMAIN sessions
          BY <1>2, <2>3, <2>4, <4>2
        <4>. QED  BY <4>1, <4>2
      <3>2. ListedOnce'
        <4>. SUFFICES ASSUME NEW i \in DOMAIN sessions', NEW j \in DOMAIN sessions',
                             sessions'[i].pid = sessions'[j].pid
                      PROVE  i = j
          BY DEF ListedOnce
        <4>1. CASE i \in DOMAIN sessions /\ j \in DOMAIN sessions
          BY <1>1, <2>4, <4>1 DEF Links, ListedOnce
        <4>2. CASE i \notin DOMAIN sessions /\ j \notin DOMAIN sessions
          BY <2>4, <4>2
        <4>3. CASE i \in DOMAIN sessions /\ j \notin DOMAIN sessions
          BY <1>6, <2>3, <2>4, <4>3
        <4>4. CASE i \notin DOMAIN sessions /\ j \in DOMAIN sessions
          BY <1>6, <2>3, <2>4, <4>4
        <4>. QED  BY <4>1, <4>2, <4>3, <4>4
      <3>3. SignedAreListed'
        <4>. SUFFICES ASSUME NEW r \in Pid, proc[r].kind = "srv", proc[r].own[2] # NoKey
                      PROVE  \E i \in DOMAIN sessions' : sessions'[i].pid = r
          BY <2>1 DEF SignedAreListed
        <4>1. CASE r = p
          BY <1>2, <2>3, <2>4, <4>1
        <4>2. CASE r # p
          <5>1. PICK i \in DOMAIN sessions : sessions[i].pid = r
            BY <1>1, <1>5, <4>2 DEF Links, SignedAreListed
          <5>. QED  BY <2>4, <5>1
        <4>. QED  BY <4>1, <4>2
      <3>4. ChecksAreWorkers' /\ WorkersAreChecks' /\ OneCheckEach'
        BY <1>0, <1>1, <2>1 DEF Links, ChecksAreWorkers, WorkersAreChecks, OneCheckEach
      <3>5. StartsAreSrvs'
        BY <1>1, <1>2, <1>5, <2>1, <2>5 DEF Links, StartsAreSrvs
      <3>. QED  BY <3>1, <3>2, <3>3, <3>4, <3>5 DEF Links
    <2>9. StartsAreWatched'
      <3>. SUFFICES ASSUME NEW r \in Pid, proc[r].kind = "srv", proc[r].at = "starting",
                           proc[r].st = "run"
                    PROVE  \E s \in starts' : s.pid = r
        BY <2>1 DEF StartsAreWatched
      <3>1. CASE r = p
        BY <2>5, <3>1
      <3>2. CASE r # p
        BY <2>5, <3>2 DEF IInv, StartsAreWatched, p
      <3>. QED  BY <3>1, <3>2
    <2>10. EndedOnlyIfWithdrawn'
      BY <1>0, <2>3, <2>4 DEF IInv, EndedOnlyIfWithdrawn
    <2>. QED  BY <1>7, <2>6, <2>7, <2>8, <2>9, <2>10 DEF IInv
  <1>. QED  BY <1>8, <1>9

-----------------------------------------------------------------------------
(* The theorems *)

LEMMA InitIsSound == Init => IInv
  <1>. SUFFICES ASSUME Init PROVE IInv
    OBVIOUS
  <1>1. \A p \in Pid : proc[p] = NoProc /\ NoProc \in Process
    BY NoProcIs DEF Init
  <1>2. sessions \in Seq(Session) /\ DOMAIN sessions = {} /\ turn = 1
    BY EmptySeq DEF Init
  <1>3. TypeOK
    <2>1. hand \in [req : SUBSET Request, key : MaybeKey, pid : Pid \cup {0}]
      BY DEF Init, Empty, MaybeKey
    <2>2. proc \in [Pid -> Process]
      BY <1>1 DEF Init
    <2>3. nextDue \in 0 .. Unset /\ moves \in 0 .. MaxMoves
      BY LimitAssumption DEF Init, Unset
    <2>4. 1 \in Nat \ {0}
      OBVIOUS
    <2>. QED  BY <1>2, <2>1, <2>2, <2>3, <2>4 DEF Init, TypeOK
  <1>4. ProcessesAreSound
    BY <1>1, NoProcIs DEF ProcessesAreSound, ProcessIsSound, Sound
  <1>5. Links
    BY <1>1, <1>2, NoProcIs
       DEF Init, Links, SessionsAreSrvs, ListedOnce, SignedAreListed, ChecksAreWorkers,
           WorkersAreChecks, OneCheckEach, StartsAreSrvs
  <1>6. WithinLimits
    BY LimitAssumption, FS_EmptySet DEF Init, WithinLimits
  <1>7. WithdrawnIsKnown /\ InHand /\ TurnIsThere
    BY <1>2 DEF Init, WithdrawnIsKnown, InHand, TurnIsThere
  <1>8. StartsAreWatched
    BY <1>1, NoProcIs DEF StartsAreWatched
  <1>9. EndedOnlyIfWithdrawn /\ NoStraySignal
    BY <1>2 DEF Init, EndedOnlyIfWithdrawn, NoStraySignal
  <1>. QED  BY <1>3, <1>4, <1>5, <1>6, <1>7, <1>8, <1>9 DEF IInv

LEMMA StutterKeeps == ASSUME IInv, UNCHANGED vars PROVE IInv'
  <1>1. /\ pc' = pc /\ hand' = hand /\ todo' = todo /\ proc' = proc /\ sessions' = sessions
        /\ checks' = checks /\ starts' = starts /\ turn' = turn /\ nextDue' = nextDue
        /\ where' = where /\ moves' = moves /\ withdrawn' = withdrawn /\ stray' = stray
    BY DEF vars
  <1>2. TypeOK' /\ ProcessesAreSound' /\ WithdrawnIsKnown' /\ InHand' /\ TurnIsThere'
    BY <1>1 DEF IInv, TypeOK, ProcessesAreSound, ProcessIsSound, WithdrawnIsKnown, InHand,
                TurnIsThere
  <1>3. Links'
    BY <1>1, LinksAreTheSame DEF IInv
  <1>4. WithinLimits' /\ StartsAreWatched' /\ EndedOnlyIfWithdrawn' /\ NoStraySignal'
    BY <1>1 DEF IInv, WithinLimits, ChecksOfAtSign, StartsAreWatched, EndedOnlyIfWithdrawn,
                NoStraySignal
  <1>. QED  BY <1>2, <1>3, <1>4 DEF IInv

LEMMA StepKeeps == ASSUME IInv, [Next]_vars PROVE IInv'
  <1>1. CASE Loop
    BY <1>1, ReapChildKeeps, SrvStartsPollKeeps, ClientSessionsTickKeeps, StartKeyCheckKeeps,
       ReadNothingKeeps, LookupEndsKeeps, FinishStartKeeps DEF Loop
  <1>2. CASE \E q \in Request, fetched \in BOOLEAN, piped \in BOOLEAN :
                HandleRequest(q, fetched, piped)
    BY <1>2, HandleRequestKeeps
  <1>3. CASE \E p \in Pid : SrvReady(p) \/ Exit(p)
    BY <1>3, SrvReadyKeeps, ExitKeeps
  <1>4. CASE \E p \in Pid, ok \in BOOLEAN : KeyCheckGet(p, ok)
    BY <1>4, KeyCheckGetKeeps
  <1>5. CASE \E k \in Key, to \in {"a", "r", "d", "gone"} : KeyMoves(k, to)
    BY <1>5, KeyMovesKeeps
  <1>6. CASE Tick
    BY <1>6, TickKeeps
  <1>7. CASE UNCHANGED vars
    BY <1>7, StutterKeeps
  <1>. QED  BY <1>1, <1>2, <1>3, <1>4, <1>5, <1>6, <1>7 DEF Next

\* The inductive invariant of the daemon and its children.
THEOREM Invariance == Spec => []IInv
  BY InitIsSound, StepKeeps, PTL DEF Spec

\* A signal only ever reaches the process it was meant for (end_session, the overrun
\* of a check, srv_starts_poll), however fast the kernel reuses pids.
THEOREM SignalsDoNotStray == Spec => []NoStraySignal
  <1>1. IInv => NoStraySignal
    BY DEF IInv
  <1>. QED  BY <1>1, Invariance, PTL

\* A key check ends a session only when its key really was withdrawn at some time
\* (key_check_finished), whatever the atServer failed to answer.
THEOREM SessionsEndOnlyIfWithdrawn == Spec => []EndedOnlyIfWithdrawn
  <1>1. IInv => EndedOnlyIfWithdrawn
    BY DEF IInv
  <1>. QED  BY <1>1, Invariance, PTL

\* A srv that has not reported is one whose start is being watched, or that was
\* stopped already (run_srv_process, srv_starts_poll).
THEOREM StartsAreAlwaysWatched == Spec => []StartsAreWatched
  <1>1. IInv => StartsAreWatched
    BY DEF IInv
  <1>. QED  BY <1>1, Invariance, PTL

LEMMA WatchedIffSigned == IInv => SignedIffWatched
  <1>. SUFFICES ASSUME IInv, NEW p \in Pid
                PROVE  LET listed == {i \in DOMAIN sessions : sessions[i].pid = p}
                           signed == proc[p].kind = "srv" /\ proc[p].own[2] # NoKey
                           fresh  == pc = "forked" /\ hand.pid = p
                       IN  /\ Cardinality(listed) = (IF signed /\ ~fresh THEN 1 ELSE 0)
                           /\ \A i \in listed : <<sessions[i].id, sessions[i].key>> = proc[p].own
    BY DEF SignedIffWatched
  <1>. DEFINE listed == {i \in DOMAIN sessions : sessions[i].pid = p}
              signed == proc[p].kind = "srv" /\ proc[p].own[2] # NoKey
              fresh  == pc = "forked" /\ hand.pid = p
  <1>1. \A i \in listed : <<sessions[i].id, sessions[i].key>> = proc[p].own
    BY DEF IInv, Links, SessionsAreSrvs
  <1>2. Cardinality(listed) = (IF signed /\ ~fresh THEN 1 ELSE 0)
    <2>1. CASE signed /\ ~fresh
      <3>1. PICK i \in DOMAIN sessions : sessions[i].pid = p
        BY <2>1 DEF IInv, Links, SignedAreListed, Fresh
      <3>2. listed = {i}
        BY <3>1 DEF IInv, Links, ListedOnce
      <3>. QED  BY <2>1, <3>2, FS_Singleton
    <2>2. CASE ~(signed /\ ~fresh)
      <3>1. ASSUME NEW i \in listed PROVE FALSE
        <4>1. sessions[i].key # NoKey
          <5>1. sessions[i] \in Session
            BY ElementOfSeq DEF IInv, TypeOK
          <5>. QED  BY <5>1, KeyAssumption DEF Session
        <4>2. /\ proc[p].kind = "srv" /\ proc[p].own = <<sessions[i].id, sessions[i].key>>
              /\ ~fresh
          BY DEF IInv, Links, SessionsAreSrvs, Fresh
        <4>. QED  BY <2>2, <4>1, <4>2
      <3>2. listed = {}
        BY <3>1
      <3>. QED  BY <2>2, <3>2, FS_EmptySet
    <2>. QED  BY <2>1, <2>2
  <1>. QED  BY <1>1, <1>2

\* The sessions list is exactly the signed sessions that run, each listed once and
\* as itself (client_sessions_track, remove_session).
THEOREM SignedSessionsAreWatched == Spec => []SignedIffWatched
  BY WatchedIffSigned, Invariance, PTL

LEMMA CountedIfLinked == IInv => ChecksAreCounted
  <1>. SUFFICES ASSUME IInv PROVE ChecksAreCounted
    OBVIOUS
  <1>. DEFINE A == {<<c.pid, c.key>> : c \in checks}
              B == {<<p, proc[p].own[1]>> : p \in {r \in Pid : proc[r].kind = "check"}}
  <1>0. ListsTyped /\ Links
    BY TypedLists DEF IInv
  <1>1. ASSUME NEW c \in checks PROVE <<c.pid, c.key>> \in B
    <2>1. c.pid \in Pid /\ proc[c.pid].kind = "check" /\ proc[c.pid].own = <<c.key>>
      BY <1>0 DEF ListsTyped, Links, ChecksAreWorkers
    <2>2. proc[c.pid].own[1] = c.key
      BY <2>1
    <2>. QED  BY <2>1, <2>2
  <1>2. ASSUME NEW p \in Pid, proc[p].kind = "check" PROVE <<p, proc[p].own[1]>> \in A
    <2>1. PICK c \in checks : c.pid = p
      BY <1>0, <1>2 DEF Links, WorkersAreChecks
    <2>2. proc[p].own = <<c.key>>
      BY <1>0, <2>1 DEF Links, ChecksAreWorkers
    <2>. QED  BY <2>1, <2>2
  <1>3. A = B
    BY <1>1, <1>2
  <1>4. \A c, d \in checks : c.key = d.key => c = d
    BY <1>0 DEF Links, OneCheckEach
  <1>. QED  BY <1>3, <1>4 DEF IInv, WithinLimits, ChecksAreCounted

\* The checks that run are the ones counted, within both limits and one per key
\* (start_key_check, key_check_finished).
THEOREM ChecksAreAlwaysCounted == Spec => []ChecksAreCounted
  BY CountedIfLinked, Invariance, PTL

-----------------------------------------------------------------------------
(* The contract with srv *)

\* The timeout handed to srv, from a request's milliseconds.
LEMMA TimeoutIsCapped ==
    ASSUME NEW q \in Request
    PROVE  TimeoutSeconds(q) \in 1 .. MaxTimeoutSecs
  <1>. DEFINE M  == MaxTimeoutSecs
              ms == IF q.timeout > M * 1000 THEN M * 1000 ELSE q.timeout
  <1>1. q.timeout \in Int /\ M \in Nat /\ M >= 30
    BY KeyAssumption, TimeoutAssumption DEF AnyRequest
  <1>2. CASE q.kind = "ssh" \/ q.timeout <= 0
    BY <1>1, <1>2 DEF TimeoutSeconds
  <1>3. CASE ~(q.kind = "ssh" \/ q.timeout <= 0)
    <2>1. TimeoutSeconds(q) = (ms + 999) \div 1000
      BY <1>3 DEF TimeoutSeconds
    <2>2. q.timeout > 0
      BY <1>1, <1>3
    <2>3. ms \in Int /\ ms >= 1 /\ ms <= M * 1000
      BY <1>1, <2>2
    <2>. HIDE DEF ms, M
    <2>4. (ms + 999) \div 1000 \in 1 .. M
      BY <1>1, <2>3
    <2>. QED  BY <2>1, <2>4 DEF M
  <1>. QED  BY <1>2, <1>3

\* What run_srv_process builds for a request that may start, parse_srv_params
\* accepts and reads the same way.
LEMMA SrvAccepts ==
    ASSUME NEW q \in Request, RelayAuth(q) # "failed"
    PROVE  ParseSrvParams(RunSrvProcess(q)) /\ AuthMode(RunSrvProcess(q)) = RelayAuth(q)
  <1>1. q.auth \in BOOLEAN /\ q.nonces \in BOOLEAN /\ q.aesKey \in BOOLEAN /\ q.e2ee \in BOOLEAN
    BY KeyAssumption DEF AnyRequest
  <1>2. \/ ~q.auth /\ RelayAuth(q) = "none"
        \/ q.auth /\ RelayAuth(q) = "escr"
        \/ q.auth /\ RelayAuth(q) = "string"
    BY <1>1 DEF RelayAuth
  <1>. QED  BY <1>1, <1>2 DEF RunSrvProcess, ParseSrvParams, AuthMode

\* Whatever srv is forked with, srv's own parser accepts and reads as the relay
\* authentication the daemon chose, with a timeout that is positive and capped.
THEOREM SrvAlwaysAccepts == Spec => []SrvAcceptsWhatItIsGiven
  <1>1. IInv => SrvAcceptsWhatItIsGiven
    <2>. SUFFICES ASSUME IInv, pc = "forked", NEW r \in hand.req
                  PROVE  /\ ParseSrvParams(RunSrvProcess(r))
                         /\ AuthMode(RunSrvProcess(r)) = RelayAuth(r)
                         /\ TimeoutSeconds(r) \in 1 .. MaxTimeoutSecs
      BY DEF SrvAcceptsWhatItIsGiven
    <2>1. r \in Request /\ MayStart(r, Policy[r.from])
      BY DEF IInv, InHand
    <2>2. RelayAuth(r) # "failed"
      BY <2>1 DEF MayStart
    <2>. QED  BY <2>1, <2>2, TimeoutIsCapped, SrvAccepts
  <1>. QED  BY <1>1, Invariance, PTL

=============================================================================
