--------------------------- MODULE EspPolicyProofs ---------------------------
(***************************************************************************)
(* Proofs about EspPolicy for any clients and requests, any sizes of the    *)
(* cache and the cool-down and any time-outs.                               *)
(***************************************************************************)
EXTENDS EspPolicy, FiniteSetTheorems, TLAPS

-----------------------------------------------------------------------------
(* The inductive invariant *)

Pending == pend.kind # "none"

PendState == [kind : Kind \cup {"none"}, who : Client \cup {Nothing.who}, id : Nat,
              age : 0 .. WaitCap + MaxPass, progress : 0 .. Wait + 1]
Entry == [who : Client, yes : BOOLEAN, age : 0 .. Ttl]
Message == [from : Client \cup {PolicyAtsign}, kind : Kind \cup {"yes", "no", "ack"}, id : Nat]

Typed ==
    /\ pend \in PendState /\ (Pending => pend.who \in Client)
    /\ cache \subseteq Entry
    /\ revoked \in [Client -> -1 .. Late + 1]
    /\ asked \subseteq [id : Nat, who : Client]
    /\ inbox \subseteq Message /\ \A m \in inbox : m.kind \in Kind => m.from \in Client

\* There are never so many messages about that no request id is left.
Bounded ==
    /\ IsFiniteSet(asked) /\ Cardinality(asked) <= MaxAsked
    /\ IsFiniteSet(inbox) /\ Cardinality(inbox) <= MaxInbox

\* What the policy service has under the id of the pending check is about the
\* client of that check.
AskedOnce == \A r \in asked : Pending /\ r.id = pend.id => r.who = pend.who

\* A grant for the pending check was given since the check began; its age is
\* told exactly until the pass that gives the check up.
YesIsRecent ==
    \A m \in inbox :
        Pending /\ m.from = PolicyAtsign /\ m.kind = "yes" /\ m.id = pend.id =>
            revoked[pend.who] <= pend.age \/ (pend.age > WaitCap /\ pc # "read")

\* A cached grant that still counts is hardly younger than a revocation.
CacheIsRecent ==
    \A e \in cache : e.yes /\ e.age < Ttl => revoked[e.who] <= e.age + WaitCap + MaxPass

ServedInTime ==
    served.checked => pc = "serve" /\ served.who \in Client /\ revoked[served.who] <= Late

IInv ==
    /\ Typed
    /\ Bounded
    /\ AskedOnce
    /\ YesIsRecent
    /\ CacheIsRecent
    /\ ServedInTime

-----------------------------------------------------------------------------
(* Operators *)

\* The types of the constants, as the steps below use them.
LEMMA Constants ==
    /\ Ttl \in Nat /\ Wait \in Nat /\ Wait >= 1 /\ WaitCap \in Nat /\ WaitCap >= 1
    /\ MaxInbox \in Nat /\ MaxInbox >= 1 /\ MaxAsked \in Nat /\ MaxAsked >= 1
    /\ MaxPass \in Nat /\ MaxPass >= 1
    /\ Late = Ttl + WaitCap + MaxPass /\ Late \in Nat
  BY EspPolicyAssumption DEF Late

\* The ids of some messages are no more than the messages.
LEMMA IdsOf ==
    ASSUME NEW S, IsFiniteSet(S)
    PROVE  IsFiniteSet({x.id : x \in S}) /\ Cardinality({x.id : x \in S}) <= Cardinality(S)
  <1>. DEFINE T == {x.id : x \in S}
              f == [x \in S |-> x.id]
  <1>1. f \in Surjection(S, T)
    BY DEF Surjection
  <1>. HIDE DEF f, T
  <1>2. IsFiniteSet(T) /\ Cardinality(T) <= Cardinality(S)
    BY <1>1, FS_Surjection
  <1>. QED  BY <1>2 DEF T

\* A set that is no larger leaves one of the numbers up to n unused.
LEMMA UnusedNumber ==
    ASSUME NEW n \in Nat, NEW S, IsFiniteSet(S), Cardinality(S) < n
    PROVE  \E i \in 1 .. n : i \notin S
  <1>. SUFFICES ASSUME 1 .. n \subseteq S PROVE FALSE
    OBVIOUS
  <1>1. IsFiniteSet(1 .. n) /\ Cardinality(1 .. n) = IF 1 > n THEN 0 ELSE n - 1 + 1
    BY FS_Interval
  <1>2. Cardinality(1 .. n) <= Cardinality(S)
    BY FS_Subset
  <1>3. Cardinality(S) \in Nat
    BY FS_CardinalityType
  <1>. QED  BY <1>1, <1>2, <1>3

\* _next_policy_req_id finds an id that is about nothing else.
LEMMA FreshId ==
    ASSUME IInv
    PROVE  /\ NextPolicyReqId \in Nat /\ NextPolicyReqId # pend.id
           /\ \A r \in asked : r.id # NextPolicyReqId
           /\ \A m \in inbox : m.id # NextPolicyReqId
  <1>. DEFINE A == {r.id : r \in asked}
              B == {m.id : m \in inbox}
              n == MaxAsked + MaxInbox + 2
  <1>1. /\ IsFiniteSet(A) /\ Cardinality(A) <= Cardinality(asked)
        /\ IsFiniteSet(B) /\ Cardinality(B) <= Cardinality(inbox)
    BY IdsOf DEF IInv, Bounded
  <1>2. Ids = A \cup B
    BY DEF Ids
  <1>. HIDE DEF A, B
  <1>3. /\ Cardinality(A) \in Nat /\ Cardinality(asked) \in Nat /\ Cardinality(asked) <= MaxAsked
        /\ Cardinality(B) \in Nat /\ Cardinality(inbox) \in Nat /\ Cardinality(inbox) <= MaxInbox
    BY <1>1, FS_CardinalityType DEF IInv, Bounded
  <1>4. IsFiniteSet(Ids) /\ Cardinality(Ids) <= MaxAsked + MaxInbox
    <2>1. /\ IsFiniteSet(Ids) /\ Cardinality(Ids) = Cardinality(A) + Cardinality(B) - Cardinality(A \cap B)
      BY <1>1, <1>2, FS_Union
    <2>2. Cardinality(A \cap B) \in Nat
      BY <1>1, FS_Intersection, FS_CardinalityType
    <2>. QED  BY <1>1, <1>3, <2>1, <2>2, Constants
  <1>5. IsFiniteSet(Ids \cup {pend.id}) /\ Cardinality(Ids \cup {pend.id}) < n
    <2>1. /\ IsFiniteSet(Ids \cup {pend.id})
          /\ Cardinality(Ids \cup {pend.id}) = IF pend.id \in Ids THEN Cardinality(Ids) ELSE Cardinality(Ids) + 1
      BY <1>4, FS_AddElement
    <2>2. Cardinality(Ids) \in Nat
      BY <1>4, FS_CardinalityType
    <2>. QED  BY <1>4, <2>1, <2>2, Constants
  <1>6. n \in Nat
    BY Constants
  <1>7. \E i \in 1 .. n : i \notin Ids \cup {pend.id}
    <2>. HIDE DEF n
    <2>. QED  BY <1>5, <1>6, UnusedNumber
  <1>8. NextPolicyReqId \in 1 .. n /\ NextPolicyReqId # pend.id /\ NextPolicyReqId \notin Ids
    BY <1>7 DEF NextPolicyReqId
  <1>. QED  BY <1>8 DEF Ids

\* A check that is not there has its types.
LEMMA NothingTyped == Nothing \in PendState /\ Nothing.kind = "none"
  <1>1. 0 \in 0 .. WaitCap + MaxPass /\ 0 \in 0 .. Wait + 1
    BY Constants
  <1>. QED  BY <1>1 DEF Nothing, PendState

\* What a store leaves in the cache is old entries and the new one.
LEMMA StoreTakes ==
    ASSUME NEW who, NEW yes, NEW e \in CacheStore(who, yes)
    PROVE  e \in cache \/ e = [who |-> who, yes |-> yes, age |-> 0]
  BY DEF CacheStore

\* Storing a decision keeps the cache right, if a grant is no older than a check.
LEMMA StoreIsRecent ==
    ASSUME IInv, NEW who \in Client, NEW yes \in BOOLEAN, yes => revoked[who] <= WaitCap + MaxPass,
           NEW e \in CacheStore(who, yes)
    PROVE  e \in Entry /\ (e.yes /\ e.age < Ttl => revoked[e.who] <= e.age + WaitCap + MaxPass)
  <1>1. CASE e \in cache
    BY <1>1 DEF IInv, Typed, CacheIsRecent
  <1>2. CASE e = [who |-> who, yes |-> yes, age |-> 0]
    <2>1. 0 \in 0 .. Ttl
      BY Constants
    <2>2. e \in Entry /\ e.who = who /\ e.yes = yes /\ e.age = 0
      BY <1>2, <2>1 DEF Entry
    <2>3. yes => revoked[who] <= 0 + WaitCap + MaxPass
      BY Constants
    <2>. QED  BY <2>2, <2>3
  <1>. QED  BY <1>1, <1>2, StoreTakes

-----------------------------------------------------------------------------
(* Every step keeps the invariant *)

\* Steps that leave alone what is known about clients, and serve nobody who may
\* not be.
LEMMA QuietKeeps ==
    ASSUME IInv, UNCHANGED <<pend, cache, asked, revoked>>, inbox' \in SUBSET inbox,
           pc' = "read" => pc = "read",
           served'.checked => pc' = "serve" /\ served'.who \in Client /\ revoked[served'.who] <= Late
    PROVE  IInv'
  <1>1. Typed'
    BY DEF IInv, Typed, Pending
  <1>2. Bounded'
    <2>1. IsFiniteSet(inbox') /\ Cardinality(inbox') <= Cardinality(inbox)
      BY FS_Subset DEF IInv, Bounded
    <2>2. Cardinality(inbox') \in Nat /\ Cardinality(inbox) \in Nat
      BY <2>1, FS_CardinalityType DEF IInv, Bounded
    <2>3. Cardinality(inbox') <= MaxInbox
      BY <2>1, <2>2, Constants DEF IInv, Bounded
    <2>. QED  BY <2>1, <2>3 DEF IInv, Bounded
  <1>3. AskedOnce' /\ YesIsRecent'
    BY DEF IInv, AskedOnce, YesIsRecent, Pending
  <1>4. CacheIsRecent'
    BY DEF IInv, CacheIsRecent
  <1>5. ServedInTime'
    BY DEF ServedInTime
  <1>. QED  BY <1>1, <1>2, <1>3, <1>4, <1>5 DEF IInv

\* Nobody is being served when something is read, or between passes.
LEMMA NobodyServed ==
    ASSUME IInv, pc # "serve"
    PROVE  ~served.checked
  BY DEF IInv, ServedInTime

\* The pending check ends, or never was: what is cached then is right.
LEMMA CheckOver ==
    ASSUME IInv, pend' = Nothing \/ pend' = pend, pc' = "read" => pc = "read",
           \A e \in cache' : e \in Entry /\ (e.yes /\ e.age < Ttl => revoked[e.who] <= e.age + WaitCap + MaxPass),
           UNCHANGED <<asked, revoked>>, inbox' \in SUBSET inbox,
           served'.checked => pc' = "serve" /\ served'.who \in Client /\ revoked[served'.who] <= Late
    PROVE  IInv'
  <1>1. Typed'
    <2>1. pend' \in PendState /\ (Pending' => pend'.who \in Client)
      BY NothingTyped DEF IInv, Typed, Pending
    <2>. QED  BY <2>1 DEF IInv, Typed
  <1>2. Bounded'
    <2>1. IsFiniteSet(inbox') /\ Cardinality(inbox') <= Cardinality(inbox)
      BY FS_Subset DEF IInv, Bounded
    <2>2. Cardinality(inbox') \in Nat /\ Cardinality(inbox) \in Nat
      BY <2>1, FS_CardinalityType DEF IInv, Bounded
    <2>3. Cardinality(inbox') <= MaxInbox
      BY <2>1, <2>2, Constants DEF IInv, Bounded
    <2>. QED  BY <2>1, <2>3 DEF IInv, Bounded
  <1>3. AskedOnce' /\ YesIsRecent'
    BY NothingTyped DEF IInv, AskedOnce, YesIsRecent, Pending
  <1>4. CacheIsRecent' /\ ServedInTime'
    BY DEF CacheIsRecent, ServedInTime
  <1>. QED  BY <1>1, <1>2, <1>3, <1>4 DEF IInv

\* The policy service is asked, under an id of its own, or cannot be.
LEMMA SendKeeps ==
    ASSUME IInv, pc = "read", pc' = "top", NEW p \in PendState, p.kind # "none", p.who \in Client,
           p.id = NextPolicyReqId, NEW sends \in BOOLEAN, SendPolicyRpcRequest(p, sends),
           inbox' \in SUBSET inbox, UNCHANGED <<cache, revoked, served>>
    PROVE  IInv'
  <1>0. ~served.checked
    BY NobodyServed
  <1>1. CASE ~sends
    <2>1. pend' = Nothing /\ UNCHANGED asked
      BY <1>1 DEF SendPolicyRpcRequest
    <2>2. \A e \in cache' : e \in Entry /\ (e.yes /\ e.age < Ttl => revoked[e.who] <= e.age + WaitCap + MaxPass)
      BY DEF IInv, Typed, CacheIsRecent
    <2>. QED  BY <1>0, <2>1, <2>2, CheckOver
  <1>2. CASE sends
    <2>. DEFINE old == IF Cardinality(asked) < MaxAsked THEN asked ELSE {}
                q   == [id |-> p.id, who |-> p.who]
    <2>1. pend' = p /\ asked' = old \cup {q}
      BY <1>2 DEF SendPolicyRpcRequest
    <2>2. old \in SUBSET asked /\ IsFiniteSet(old) /\ Cardinality(old) < MaxAsked
      BY FS_EmptySet, Constants DEF IInv, Bounded
    <2>3. q.id = p.id /\ q.who = p.who /\ q \in [id : Nat, who : Client]
      BY FreshId
    <2>. HIDE DEF old, q
    <2>4. Typed'
      BY <2>1, <2>2, <2>3 DEF IInv, Typed
    <2>5. Bounded'
      <3>1. IsFiniteSet(asked') /\ Cardinality(asked') <= MaxAsked
        <4>1. /\ IsFiniteSet(asked')
              /\ Cardinality(asked') = IF q \in old THEN Cardinality(old) ELSE Cardinality(old) + 1
          BY <2>1, <2>2, FS_AddElement
        <4>2. Cardinality(old) \in Nat
          BY <2>2, FS_CardinalityType
        <4>. QED  BY <2>2, <4>1, <4>2, Constants
      <3>2. IsFiniteSet(inbox') /\ Cardinality(inbox') <= Cardinality(inbox)
        BY FS_Subset DEF IInv, Bounded
      <3>3. Cardinality(inbox') \in Nat /\ Cardinality(inbox) \in Nat
        BY <3>2, FS_CardinalityType DEF IInv, Bounded
      <3>4. Cardinality(inbox') <= MaxInbox
        BY <3>2, <3>3, Constants DEF IInv, Bounded
      <3>. QED  BY <3>1, <3>2, <3>4 DEF Bounded
    <2>6. AskedOnce'
      BY <2>1, <2>2, <2>3, FreshId DEF AskedOnce
    <2>7. YesIsRecent'
      BY <2>1, FreshId DEF YesIsRecent
    <2>8. CacheIsRecent' /\ ServedInTime'
      BY <1>0 DEF IInv, CacheIsRecent, ServedInTime
    <2>. QED  BY <2>4, <2>5, <2>6, <2>7, <2>8 DEF IInv
  <1>. QED  BY <1>1, <1>2

\* A check begins for a client's request.
LEMMA StartCheckKeeps ==
    ASSUME IInv, pc = "read", pc' = "top", NEW n, n.who \in Client, n.kind \in Kind,
           NEW sends \in BOOLEAN, StartCheck(n, sends),
           inbox' \in SUBSET inbox, UNCHANGED <<cache, revoked, served>>
    PROVE  IInv'
  <1>. DEFINE p == [kind |-> n.kind, who |-> n.who, id |-> NextPolicyReqId, age |-> 0, progress |-> 0]
  <1>1. 0 \in 0 .. WaitCap + MaxPass /\ 0 \in 0 .. Wait + 1
    BY Constants
  <1>2. /\ p \in PendState /\ p.kind # "none" /\ p.who \in Client /\ p.id = NextPolicyReqId
        /\ SendPolicyRpcRequest(p, sends)
    BY <1>1, FreshId DEF PendState, Kind, StartCheck
  <1>. HIDE DEF p
  <1>. QED  BY <1>2, SendKeeps

\* A request that a cached grant, or the manager list, lets in, and one that is
\* dropped.
LEMMA FromCacheKeeps ==
    ASSUME IInv, pc = "read", inbox' \in SUBSET inbox, UNCHANGED <<pend, cache, asked, revoked>>,
           NEW n, n.who \in Client, FromCache(n) \/ Drop \/ Serve(n.who, FALSE)
    PROVE  IInv'
  <1>0. ~served.checked
    BY NobodyServed
  <1>1. CASE Drop
    BY <1>0, <1>1, QuietKeeps DEF Drop
  <1>2. CASE Serve(n.who, FALSE)
    <2>1. pc' = "serve" /\ served'.checked = FALSE
      BY <1>2 DEF Serve
    <2>. QED  BY <2>1, QuietKeeps
  <1>3. CASE Serve(n.who, TRUE) /\ \E e \in CacheLookup(n.who) : e.yes
    <2>1. PICK e \in cache : e.who = n.who /\ e.age < Ttl /\ e.yes
      BY <1>3 DEF CacheLookup
    <2>2. revoked[n.who] <= e.age + WaitCap + MaxPass
      BY <2>1 DEF IInv, CacheIsRecent
    <2>3. e.age \in Nat /\ revoked[n.who] \in Int
      <3>1. e \in Entry /\ revoked \in [Client -> -1 .. Late + 1]
        BY DEF IInv, Typed
      <3>. QED  BY <3>1, Constants DEF Entry
    <2>4. revoked[n.who] <= Late
      BY <2>1, <2>2, <2>3, Constants
    <2>5. pc' = "serve" /\ served'.who = n.who
      BY <1>3 DEF Serve
    <2>. QED  BY <2>4, <2>5, QuietKeeps
  <1>. QED  BY <1>1, <1>2, <1>3 DEF FromCache

\* A ping or an npt request is read.
LEMMA RequestKeeps ==
    ASSUME IInv, pc = "read", inbox' \in SUBSET inbox, UNCHANGED <<cache, revoked>>,
           NEW n, n.who \in Client, n.kind \in Kind, NEW valid, NEW sends \in BOOLEAN,
           HandlePing(n, sends) \/ HandleNptRequest(n, valid, sends)
    PROVE  IInv'
  <1>1. \/ /\ FromCache(n) \/ Drop \/ Serve(n.who, FALSE)
           /\ UNCHANGED <<pend, asked>>
        \/ Drop /\ StartCheck(n, sends)
    BY DEF HandlePing, HandleNptRequest
  <1>2. Drop => pc' = "top" /\ UNCHANGED served
    BY DEF Drop
  <1>. QED  BY <1>1, <1>2, FromCacheKeeps, StartCheckKeeps

\* The policy service has answered, or somebody else: only the answer to the
\* pending check is taken, and if it is a grant it is a recent one.
LEMMA PolicyResponseKeeps ==
    ASSUME IInv, pc = "read", NEW m \in inbox, m.kind \notin Kind, inbox' \in SUBSET inbox,
           UNCHANGED <<asked, revoked>>,
           HandlePolicyResponse(m) \/ (Drop /\ UNCHANGED <<cache, pend>>)
    PROVE  IInv'
  <1>0. ~served.checked
    BY NobodyServed
  <1>1. CASE Drop /\ UNCHANGED <<cache, pend>>
    BY <1>0, <1>1, QuietKeeps DEF Drop
  <1>2. CASE AnswersPending(m) /\ Drop /\ pend' = [pend EXCEPT !.progress = 0] /\ UNCHANGED cache
    <2>1. pend \in PendState
      BY DEF IInv, Typed
    <2>2. 0 \in 0 .. Wait + 1
      BY Constants
    <2>3. /\ pend' \in PendState /\ pend'.kind = pend.kind /\ pend'.who = pend.who
          /\ pend'.id = pend.id /\ pend'.age = pend.age
      BY <1>2, <2>1, <2>2 DEF PendState
    <2>4. pc' = "top" /\ UNCHANGED <<served, cache, asked, revoked>>
      BY <1>2 DEF Drop
    <2>5. Typed'
      BY <2>3, <2>4 DEF IInv, Typed, Pending
    <2>6. Bounded'
      <3>1. IsFiniteSet(inbox') /\ Cardinality(inbox') <= Cardinality(inbox)
        BY FS_Subset DEF IInv, Bounded
      <3>2. Cardinality(inbox') \in Nat /\ Cardinality(inbox) \in Nat
        BY <3>1, FS_CardinalityType DEF IInv, Bounded
      <3>3. Cardinality(inbox') <= MaxInbox
        BY <3>1, <3>2, Constants DEF IInv, Bounded
      <3>. QED  BY <2>4, <3>1, <3>3 DEF IInv, Bounded
    <2>7. AskedOnce' /\ YesIsRecent'
      BY <2>3, <2>4 DEF IInv, AskedOnce, YesIsRecent, Pending
    <2>8. CacheIsRecent' /\ ServedInTime'
      BY <1>0, <2>4 DEF IInv, CacheIsRecent, ServedInTime
    <2>. QED  BY <2>5, <2>6, <2>7, <2>8 DEF IInv
  <1>3. CASE /\ AnswersPending(m) /\ cache' = CacheStore(pend.who, m.kind = "yes") /\ pend' = Nothing
             /\ IF m.kind = "yes" THEN Serve(pend.who, TRUE) ELSE Drop
    <2>1. Pending /\ m.from = PolicyAtsign /\ m.id = pend.id
      BY <1>3 DEF AnswersPending, Pending
    <2>2. pend.who \in Client /\ pend.age \in 0 .. WaitCap + MaxPass /\ revoked[pend.who] \in Int
      BY <2>1, Constants DEF IInv, Typed, PendState
    <2>3. m.kind = "yes" => revoked[pend.who] <= pend.age
      BY <2>1 DEF IInv, YesIsRecent
    <2>4. m.kind = "yes" => revoked[pend.who] <= WaitCap + MaxPass
      BY <2>2, <2>3, Constants
    <2>5. \A e \in cache' :
            e \in Entry /\ (e.yes /\ e.age < Ttl => revoked[e.who] <= e.age + WaitCap + MaxPass)
      BY <1>3, <2>2, <2>4, StoreIsRecent
    <2>6. WaitCap + MaxPass <= Late
      BY Constants
    <2>7. served'.checked => pc' = "serve" /\ served'.who \in Client /\ revoked[served'.who] <= Late
      <3>1. CASE m.kind = "yes"
        <4>1. pc' = "serve" /\ served'.who = pend.who
          BY <1>3, <3>1 DEF Serve
        <4>2. revoked[pend.who] <= Late
          BY <2>2, <2>4, <2>6, <3>1, Constants
        <4>. QED  BY <2>2, <4>1, <4>2
      <3>2. CASE m.kind # "yes"
        BY <1>0, <1>3, <3>2 DEF Drop
      <3>. QED  BY <3>1, <3>2
    <2>8. pc' # "read"
      BY <1>3 DEF Serve, Drop
    <2>. QED  BY <1>3, <2>5, <2>7, <2>8, CheckOver
  <1>. QED  BY <1>1, <1>2, <1>3 DEF HandlePolicyResponse

\* Whatever is read.
LEMMA ReadKeeps ==
    ASSUME IInv, NEW m \in inbox, NEW valid \in BOOLEAN, NEW sends \in BOOLEAN,
           ReadNotification(m, valid, sends)
    PROVE  IInv'
  <1>1. pc = "read" /\ inbox' \in SUBSET inbox /\ UNCHANGED revoked
    BY DEF ReadNotification
  <1>2. CASE m.kind \notin Kind
    <2>1. UNCHANGED asked /\ (HandlePolicyResponse(m) \/ (Drop /\ UNCHANGED <<cache, pend>>))
      BY <1>2 DEF ReadNotification
    <2>. QED  BY <1>1, <1>2, <2>1, PolicyResponseKeeps
  <1>3. CASE m.kind \in Kind
    <2>. DEFINE n == [who |-> m.from, kind |-> m.kind]
    <2>1. UNCHANGED cache /\ (HandlePing(n, sends) \/ HandleNptRequest(n, valid, sends))
      BY <1>3 DEF ReadNotification
    <2>2. n.who \in Client /\ n.kind \in Kind
      BY <1>3 DEF IInv, Typed
    <2>. HIDE DEF n
    <2>. QED  BY <1>1, <2>1, <2>2, RequestKeeps
  <1>. QED  BY <1>2, <1>3

\* What is read cannot be decrypted: the pending check is sent anew.
LEMMA UndecryptableKeeps ==
    ASSUME IInv, NEW m \in inbox, NEW sends \in BOOLEAN, ReadUndecryptable(m, sends)
    PROVE  IInv'
  <1>1. pc = "read" /\ pc' = "top" /\ inbox' \in SUBSET inbox /\ UNCHANGED <<cache, revoked, served>>
    BY DEF ReadUndecryptable
  <1>2. CASE UNCHANGED <<pend, asked>>
    BY <1>1, <1>2, NobodyServed, QuietKeeps
  <1>3. CASE /\ pend.kind # "none"
             /\ SendPolicyRpcRequest([pend EXCEPT !.id = NextPolicyReqId, !.progress = 0], sends)
    <2>. DEFINE p == [pend EXCEPT !.id = NextPolicyReqId, !.progress = 0]
    <2>1. pend \in PendState /\ pend.who \in Client
      BY <1>3 DEF IInv, Typed, Pending
    <2>2. 0 \in 0 .. Wait + 1 /\ NextPolicyReqId \in Nat
      BY Constants, FreshId
    <2>3. /\ p \in PendState /\ p.kind # "none" /\ p.who \in Client /\ p.id = NextPolicyReqId
          /\ SendPolicyRpcRequest(p, sends)
      BY <1>3, <2>1, <2>2 DEF PendState
    <2>. HIDE DEF p
    <2>. QED  BY <1>1, <2>3, SendKeeps
  <1>. QED  BY <1>2, <1>3 DEF ReadUndecryptable

\* Time passes, between passes or in one, after a check may have been given up:
\* revocations age no faster than checks and cached decisions.
LEMMA TimeKeeps ==
    ASSUME IInv, pc \in {"top", "down"}, NEW time \in 0 .. MaxPass, TimePassesElsewhere(time),
           NEW es, \A e \in es : /\ e \in Entry
                                 /\ e.yes /\ e.age < Ttl => revoked[e.who] <= e.age + WaitCap + MaxPass,
           NEW p \in {pend, Nothing}, cache' = AgedCache(es, time), pend' = Aged(p, time),
           UNCHANGED <<inbox, asked, served>>,
           pc' = "read" => p.kind = "none" \/ p.age <= WaitCap
    PROVE  IInv'
  <1>0. revoked \in [Client -> -1 .. Late + 1] /\ pend \in PendState
    BY DEF IInv, Typed
  <1>1. /\ revoked' \in [Client -> -1 .. Late + 1]
        /\ \A c \in Client : revoked[c] \in Int /\ revoked'[c] \in Int /\ revoked'[c] <= revoked[c] + time
    <2>1. revoked' = [c \in Client |-> IF revoked[c] = -1 THEN -1 ELSE Older(revoked[c], time, Late + 1)]
      BY DEF TimePassesElsewhere
    <2>. QED  BY <1>0, <2>1, Constants DEF Older
  <1>2. p \in PendState /\ (p.kind # "none" => p = pend)
    BY <1>0, NothingTyped
  <1>3. /\ pend' \in PendState /\ pend'.kind = p.kind /\ pend'.who = p.who /\ pend'.id = p.id
        /\ p.kind # "none" => pend'.age = IF p.age + time < WaitCap + MaxPass THEN p.age + time
                                          ELSE WaitCap + MaxPass
    <2>1. CASE p.kind = "none"
      BY <1>2, <2>1 DEF Aged
    <2>2. CASE p.kind # "none"
      <3>1. pend' = [p EXCEPT !.age = Older(p.age, time, WaitCap + MaxPass),
                              !.progress = Older(p.progress, time, Wait + 1)]
        BY <2>2 DEF Aged
      <3>2. p.age \in 0 .. WaitCap + MaxPass /\ p.progress \in 0 .. Wait + 1
        BY <1>2 DEF PendState
      <3>3. Older(p.age, time, WaitCap + MaxPass) \in 0 .. WaitCap + MaxPass /\ Older(p.progress, time, Wait + 1) \in 0 .. Wait + 1
        BY <3>2, Constants DEF Older
      <3>4. Older(p.age, time, WaitCap + MaxPass)
              = IF p.age + time < WaitCap + MaxPass THEN p.age + time ELSE WaitCap + MaxPass
        BY DEF Older
      <3>. QED  BY <1>2, <3>1, <3>3, <3>4 DEF PendState
    <2>. QED  BY <2>1, <2>2
  <1>4. ASSUME NEW e \in cache'
        PROVE  e \in Entry /\ (e.yes /\ e.age < Ttl => revoked'[e.who] <= e.age + WaitCap + MaxPass)
    <2>1. PICK d \in es : e = [d EXCEPT !.age = Older(d.age, time, Ttl)]
      BY DEF AgedCache
    <2>2. d \in Entry /\ d.age \in 0 .. Ttl /\ d.who \in Client
      BY DEF Entry
    <2>3. Older(d.age, time, Ttl) \in 0 .. Ttl
      BY <2>2, Constants DEF Older
    <2>4. e \in Entry /\ e.who = d.who /\ e.yes = d.yes /\ e.age = Older(d.age, time, Ttl)
      BY <2>1, <2>2, <2>3 DEF Entry
    <2>5. e.age < Ttl => d.age < Ttl /\ e.age = d.age + time
      BY <2>2, <2>4, Constants DEF Older
    <2>6. d.yes /\ d.age < Ttl => revoked[d.who] <= d.age + WaitCap + MaxPass
      OBVIOUS
    <2>7. ASSUME e.yes, e.age < Ttl PROVE revoked'[e.who] <= e.age + WaitCap + MaxPass
      <3>1. revoked[d.who] <= d.age + WaitCap + MaxPass
        BY <2>4, <2>5, <2>6, <2>7
      <3>. QED  BY <1>1, <2>2, <2>4, <2>5, <2>7, <3>1, Constants
    <2>. QED  BY <2>4, <2>7
  <1>5. Typed'
    <2>1. Pending' => pend'.who \in Client
      BY <1>2, <1>3 DEF IInv, Typed, Pending
    <2>. QED  BY <1>1, <1>3, <1>4, <2>1 DEF IInv, Typed
  <1>6. Bounded'
    BY DEF IInv, Bounded
  <1>7. AskedOnce'
    BY <1>2, <1>3 DEF IInv, AskedOnce, Pending
  <1>8. YesIsRecent'
    <2>1. ASSUME NEW m \in inbox, pend'.kind # "none", m.from = PolicyAtsign, m.kind = "yes",
                 m.id = pend'.id
          PROVE  revoked'[pend'.who] <= pend'.age \/ (pend'.age > WaitCap /\ pc' # "read")
      <3>1. p = pend /\ Pending /\ pend'.who = pend.who /\ m.id = pend.id
        BY <1>2, <1>3, <2>1 DEF Pending
      <3>2. revoked[pend.who] <= pend.age \/ pend.age > WaitCap
        BY <2>1, <3>1 DEF IInv, YesIsRecent
      <3>3. pend.who \in Client /\ pend.age \in 0 .. WaitCap + MaxPass
        BY <3>1 DEF IInv, Typed, PendState
      <3>4. pend'.age = IF pend.age + time < WaitCap + MaxPass THEN pend.age + time
                        ELSE WaitCap + MaxPass
        BY <1>3, <2>1, <3>1
      <3>5. CASE pend.age > WaitCap
        <4>1. pc' # "read"
          BY <2>1, <3>1, <3>3, <3>5, Constants DEF Pending
        <4>2. pend'.age > WaitCap
          BY <3>3, <3>4, <3>5, Constants
        <4>. QED  BY <4>1, <4>2
      <3>6. CASE revoked[pend.who] <= pend.age /\ ~(pend.age > WaitCap)
        <4>1. pend'.age = pend.age + time
          BY <3>3, <3>4, <3>6, Constants
        <4>2. revoked'[pend.who] <= pend.age + time
          BY <1>1, <3>3, <3>6
        <4>. QED  BY <3>1, <4>1, <4>2
      <3>. QED  BY <3>2, <3>5, <3>6
    <2>. QED  BY <2>1 DEF YesIsRecent, Pending
  <1>9. CacheIsRecent' /\ ServedInTime'
    <2>1. ~served.checked
      BY NobodyServed
    <2>. QED  BY <1>4, <2>1 DEF CacheIsRecent, ServedInTime
  <1>. QED  BY <1>5, <1>6, <1>7, <1>8, <1>9 DEF IInv

\* A pass begins, which gives up a check that has had its time.
LEMMA PolicyTimeoutKeeps ==
    ASSUME IInv, NEW time \in 0 .. MaxPass, PolicyTimeout(time)
    PROVE  IInv'
  <1>. DEFINE over == pend.kind # "none" /\ WaitOver(pend)
              es   == IF over THEN CacheStore(pend.who, FALSE) ELSE cache
              p    == IF over THEN Nothing ELSE pend
  <1>1. /\ pc = "top" /\ pc' = "read" /\ UNCHANGED <<inbox, asked, served>>
        /\ TimePassesElsewhere(time) /\ cache' = AgedCache(es, time) /\ pend' = Aged(p, time)
    BY DEF PolicyTimeout
  <1>2. \A e \in es : e \in Entry /\ (e.yes /\ e.age < Ttl => revoked[e.who] <= e.age + WaitCap + MaxPass)
    <2>1. CASE over
      BY <2>1, StoreIsRecent DEF IInv, Typed, Pending
    <2>2. CASE ~over
      BY <2>2 DEF IInv, Typed, CacheIsRecent
    <2>. QED  BY <2>1, <2>2
  <1>3. p \in {pend, Nothing} /\ (p.kind = "none" \/ p.age <= WaitCap)
    <2>1. pend.age \in 0 .. WaitCap + MaxPass
      BY DEF IInv, Typed, PendState
    <2>2. ~(pend.age > WaitCap) => pend.age <= WaitCap
      BY <2>1, Constants
    <2>. QED  BY <2>2, NothingTyped DEF WaitOver
  <1>. HIDE DEF over, es, p
  <1>. QED  BY <1>1, <1>2, <1>3, TimeKeeps

\* Steps between passes, and the end of one.
LEMMA BetweenPasses ==
    ASSUME IInv, Tick \/ Stop \/ ReadNothing \/ ServeRequest \/ \E boot \in BOOLEAN : Begin(boot)
    PROVE  IInv'
  <1>1. \A e \in cache : e \in Entry /\ (e.yes /\ e.age < Ttl => revoked[e.who] <= e.age + WaitCap + MaxPass)
    BY DEF IInv, Typed, CacheIsRecent
  <1>2. CASE Tick
    <2>1. 1 \in 0 .. MaxPass
      BY Constants
    <2>2. /\ pc \in {"top", "down"} /\ pc' # "read" /\ UNCHANGED <<inbox, asked, served>>
          /\ TimePassesElsewhere(1) /\ cache' = AgedCache(cache, 1) /\ pend' = Aged(pend, 1)
      BY <1>2 DEF Tick
    <2>. QED  BY <1>1, <2>1, <2>2, TimeKeeps
  <1>3. CASE Stop \/ ReadNothing
    <2>1. pc # "serve" /\ pc' # "read" /\ UNCHANGED <<inbox, pend, cache, asked, revoked, served>>
      BY <1>3 DEF Stop, ReadNothing
    <2>. QED  BY <2>1, NobodyServed, QuietKeeps
  <1>4. CASE ServeRequest
    BY <1>4, QuietKeeps DEF ServeRequest, NoOne
  <1>5. ASSUME NEW boot \in BOOLEAN, Begin(boot) PROVE IInv'
    <2>1. /\ pc # "serve" /\ pc' = "top" /\ cache' = {} /\ (pend' = Nothing \/ pend' = pend)
          /\ UNCHANGED <<inbox, asked, revoked, served>>
      BY <1>5 DEF Begin
    <2>. QED  BY <2>1, NobodyServed, CheckOver
  <1>. QED  BY <1>2, <1>3, <1>4, <1>5

\* Something arrives: if it is a grant for the pending check, it is one that
\* holds now.
LEMMA ArrivalKeeps ==
    ASSUME IInv, NEW m \in Message, m.kind \in Kind => m.from \in Client, Arrives(m),
           asked' \in SUBSET asked,
           Pending /\ m.from = PolicyAtsign /\ m.kind = "yes" /\ m.id = pend.id =>
               revoked[pend.who] <= pend.age
    PROVE  IInv'
  <1>1. /\ Cardinality(inbox) < MaxInbox /\ inbox' = inbox \cup {m} /\ pc = "top"
        /\ UNCHANGED <<pc, pend, cache, revoked, served>>
    BY DEF Arrives
  <1>2. Typed'
    BY <1>1 DEF IInv, Typed, Pending
  <1>3. Bounded'
    <2>1. IsFiniteSet(inbox') /\ Cardinality(inbox') <= MaxInbox
      <3>1. /\ IsFiniteSet(inbox')
            /\ Cardinality(inbox') = IF m \in inbox THEN Cardinality(inbox) ELSE Cardinality(inbox) + 1
        BY <1>1, FS_AddElement DEF IInv, Bounded
      <3>2. Cardinality(inbox) \in Nat
        BY FS_CardinalityType DEF IInv, Bounded
      <3>. QED  BY <1>1, <3>1, <3>2, Constants
    <2>2. IsFiniteSet(asked') /\ Cardinality(asked') <= Cardinality(asked)
      BY FS_Subset DEF IInv, Bounded
    <2>3. Cardinality(asked') \in Nat /\ Cardinality(asked) \in Nat
      BY <2>2, FS_CardinalityType DEF IInv, Bounded
    <2>4. Cardinality(asked') <= MaxAsked
      BY <2>2, <2>3, Constants DEF IInv, Bounded
    <2>. QED  BY <2>1, <2>2, <2>4 DEF Bounded
  <1>4. AskedOnce' /\ YesIsRecent'
    BY <1>1 DEF IInv, AskedOnce, YesIsRecent, Pending
  <1>5. CacheIsRecent' /\ ServedInTime'
    BY <1>1 DEF IInv, CacheIsRecent, ServedInTime
  <1>. QED  BY <1>2, <1>3, <1>4, <1>5 DEF IInv

\* What clients and the policy service send.
LEMMA SentKeeps ==
    ASSUME IInv,
           \/ \E n \in Note : ClientAsks(n)
           \/ \E c \in Client : OtherAnswers(c)
           \/ \E r \in asked : PolicyAcks(r) \/ PolicyAnswers(r)
    PROVE  IInv'
  <1>1. ASSUME NEW n \in Note, ClientAsks(n) PROVE IInv'
    <2>. DEFINE m == [from |-> n.who, kind |-> n.kind, id |-> 0]
    <2>1. n.who \in Client /\ n.kind \in Kind
      BY EspPolicyAssumption DEF Client
    <2>2. m \in Message /\ m.from \in Client /\ m.kind # "yes" /\ Arrives(m) /\ UNCHANGED asked
      BY <1>1, <2>1 DEF ClientAsks, Message, Kind
    <2>. HIDE DEF m
    <2>. QED  BY <2>2, ArrivalKeeps
  <1>2. ASSUME NEW c \in Client, OtherAnswers(c) PROVE IInv'
    <2>. DEFINE m == [from |-> c, kind |-> "yes", id |-> pend.id]
    <2>1. pend.id \in Nat
      BY DEF IInv, Typed, PendState
    <2>2. m \in Message /\ m.from \in Client /\ m.from # PolicyAtsign /\ Arrives(m) /\ UNCHANGED asked
      BY <1>2, <2>1 DEF OtherAnswers, Message
    <2>. HIDE DEF m
    <2>. QED  BY <2>2, ArrivalKeeps
  <1>3. ASSUME NEW r \in asked, PolicyAcks(r) PROVE IInv'
    <2>. DEFINE m == [from |-> PolicyAtsign, kind |-> "ack", id |-> r.id]
    <2>1. r.id \in Nat
      BY DEF IInv, Typed
    <2>2. m \in Message /\ m.kind \notin Kind /\ m.kind # "yes" /\ Arrives(m) /\ UNCHANGED asked
      BY <1>3, <2>1 DEF PolicyAcks, Message, Kind
    <2>. HIDE DEF m
    <2>. QED  BY <2>2, ArrivalKeeps
  <1>4. ASSUME NEW r \in asked, PolicyAnswers(r) PROVE IInv'
    <2>. DEFINE m == [from |-> PolicyAtsign, id |-> r.id,
                      kind |-> IF revoked[r.who] = -1 THEN "yes" ELSE "no"]
    <2>1. r.id \in Nat
      BY DEF IInv, Typed
    <2>2. /\ m \in Message /\ m.kind \notin Kind /\ m.id = r.id /\ Arrives(m) /\ asked' \in SUBSET asked
          /\ m.kind = "yes" => revoked[r.who] = -1
      BY <1>4, <2>1 DEF PolicyAnswers, Message, Kind
    <2>. HIDE DEF m
    <2>3. Pending /\ m.id = pend.id => r.who = pend.who
      BY <2>2 DEF IInv, AskedOnce
    <2>4. -1 <= pend.age
      BY Constants DEF IInv, Typed, PendState
    <2>5. Pending /\ m.kind = "yes" /\ m.id = pend.id => revoked[pend.who] <= pend.age
      BY <2>2, <2>3, <2>4
    <2>. QED  BY <2>2, <2>5, ArrivalKeeps
  <1>. QED  BY <1>1, <1>2, <1>3, <1>4

\* The policy withdraws a grant.
LEMMA PolicyRevokesKeeps ==
    ASSUME IInv, NEW c \in Client, PolicyRevokes(c)
    PROVE  IInv'
  <1>0. /\ revoked' = [revoked EXCEPT ![c] = 0] /\ pc = "top"
        /\ UNCHANGED <<pc, inbox, pend, cache, asked, served>>
    BY DEF PolicyRevokes
  <1>1. /\ revoked' \in [Client -> -1 .. Late + 1] /\ revoked'[c] = 0
        /\ \A d \in Client : d # c => revoked'[d] = revoked[d]
    BY <1>0, Constants DEF IInv, Typed
  <1>2. Typed' /\ Bounded' /\ AskedOnce'
    BY <1>0, <1>1 DEF IInv, Typed, Bounded, AskedOnce, Pending
  <1>3. YesIsRecent'
    <2>1. 0 <= pend.age
      BY Constants DEF IInv, Typed, PendState
    <2>2. Pending => (revoked[pend.who] <= pend.age => revoked'[pend.who] <= pend.age)
      BY <1>1, <2>1 DEF IInv, Typed
    <2>. QED  BY <1>0, <2>2 DEF IInv, YesIsRecent, Pending
  <1>4. CacheIsRecent'
    <2>1. ASSUME NEW e \in cache, e.yes, e.age < Ttl PROVE revoked'[e.who] <= e.age + WaitCap + MaxPass
      <3>1. e.who \in Client /\ e.age \in Nat
        <4>1. e \in Entry
          BY DEF IInv, Typed
        <4>. QED  BY <4>1, Constants DEF Entry
      <3>2. revoked[e.who] <= e.age + WaitCap + MaxPass
        BY <2>1 DEF IInv, CacheIsRecent
      <3>3. 0 <= e.age + WaitCap + MaxPass
        BY <3>1, Constants
      <3>. QED  BY <1>1, <3>1, <3>2, <3>3
    <2>. QED  BY <1>0, <2>1 DEF CacheIsRecent
  <1>5. ServedInTime'
    BY <1>0, NobodyServed DEF ServedInTime
  <1>. QED  BY <1>2, <1>3, <1>4, <1>5 DEF IInv

-----------------------------------------------------------------------------
(* Theorems *)

\* The inductive invariant holds in every state of every behaviour.
THEOREM Invariance == Spec => []IInv
  <1>1. Init => IInv
    <2>. SUFFICES ASSUME Init PROVE IInv
      OBVIOUS
    <2>1. pend = Nothing /\ inbox = {} /\ asked = {} /\ cache = {} /\ served = NoOne
      BY DEF Init
    <2>2. revoked \in [Client -> -1 .. Late + 1]
      BY Constants DEF Init
    <2>3. Typed
      BY <2>1, <2>2, NothingTyped DEF Typed, Pending
    <2>4. Bounded
      BY <2>1, FS_EmptySet, Constants DEF Bounded
    <2>. QED  BY <2>1, <2>3, <2>4 DEF IInv, AskedOnce, YesIsRecent, CacheIsRecent, ServedInTime, NoOne
  <1>2. IInv /\ [Next]_vars => IInv'
    <2>. SUFFICES ASSUME IInv, [Next]_vars PROVE IInv'
      OBVIOUS
    <2>1. CASE UNCHANGED vars
      <3>1. UNCHANGED <<pc, inbox, pend, cache, asked, revoked, served>>
        BY <2>1 DEF vars
      <3>. QED  BY <3>1, QuietKeeps DEF IInv, ServedInTime
    <2>2. CASE Next
      BY <2>2, PolicyTimeoutKeeps, UndecryptableKeeps, ReadKeeps, BetweenPasses, SentKeeps,
         PolicyRevokesKeeps DEF Next, Pass
    <2>. QED  BY <2>1, <2>2
  <1>. QED  BY <1>1, <1>2, PTL DEF Spec

\* A client the policy withdrew its grant from, or never gave one, is not served
\* on the policy service's word after Late: whatever is lost, late, re-sent or
\* cannot be decrypted, whoever else answers, and whenever the daemon restarts.
THEOREM RevocationAlwaysTakesEffect == Spec => []RevocationTakesEffect
  <1>1. IInv => RevocationTakesEffect
    BY DEF IInv, ServedInTime, RevocationTakesEffect
  <1>. QED  BY <1>1, Invariance, PTL

\* A request of the policy service that is about the pending check is about its
\* client, whatever ids were used before.
AnswersAreAboutThePending ==
    \A r \in asked : pend.kind # "none" /\ r.id = pend.id => r.who = pend.who
THEOREM AnswersAreNotMixedUp == Spec => []AnswersAreAboutThePending
  <1>1. IInv => AnswersAreAboutThePending
    BY DEF IInv, AskedOnce, Pending, AnswersAreAboutThePending
  <1>. QED  BY <1>1, Invariance, PTL
=============================================================================
