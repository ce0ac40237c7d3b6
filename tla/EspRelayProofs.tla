--------------------------- MODULE EspRelayProofs ---------------------------
(***************************************************************************)
(* Proofs about EspRelay for any number of sub-connections, any sizes of    *)
(* chunks and any timeouts.                                                *)
(***************************************************************************)
EXTENDS EspRelay, SequenceTheorems, FiniteSetTheorems, WellFoundedInduction, TLAPS

-----------------------------------------------------------------------------
(* The inductive invariant *)

\* No more has been read of a flow than was sent.
ReadWasSent ==
    \A i \in Sub : subs[i].up.read <= subs[i].up.sent /\ subs[i].down.read <= subs[i].down.sent

\* A slot that is not in use holds nothing of its last user: what the next one
\* sends starts where its counters do.
UnusedIsFree == \A i \in Sub : ~subs[i].active => subs[i] = Free

IInv == TypeOK /\ ReadWasSent /\ UnusedIsFree /\ StreamIsIntact

-----------------------------------------------------------------------------
(* Sequences of bytes *)

\* Bytes(a, b) are the bytes after the a-th up to the b-th.
LEMMA BytesAre ==
    ASSUME NEW a \in Nat, NEW b \in Nat, a <= b
    PROVE  /\ Bytes(a, b) \in Seq(Nat) /\ Len(Bytes(a, b)) = b - a
           /\ \A k \in 1 .. b - a : Bytes(a, b)[k] = a + k
  <1>1. b - a \in Nat
    OBVIOUS
  <1>. DEFINE n == b - a
  <1>2. [k \in 1 .. n |-> a + k] \in [1 .. n -> Nat]
    OBVIOUS
  <1>3. [k \in 1 .. n |-> a + k] \in Seq(Nat) /\ Len([k \in 1 .. n |-> a + k]) = n
    BY <1>1, <1>2
  <1>. QED  BY <1>1, <1>3 DEF Bytes

\* The first n bytes.
LEMMA FirstBytes ==
    ASSUME NEW n \in Nat
    PROVE  /\ Bytes(0, n) \in Seq(Nat) /\ Len(Bytes(0, n)) = n
           /\ \A k \in 1 .. n : Bytes(0, n)[k] = k
  <1>1. 0 \in Nat /\ 0 <= n
    OBVIOUS
  <1>2. /\ Bytes(0, n) \in Seq(Nat) /\ Len(Bytes(0, n)) = n - 0
        /\ \A k \in 1 .. n - 0 : Bytes(0, n)[k] = 0 + k
    BY <1>1, BytesAre
  <1>. QED  BY <1>2

\* No bytes are the empty sequence.
LEMMA NoBytes == ASSUME NEW a \in Nat PROVE Bytes(a, a) = <<>>
  <1>1. Bytes(a, a) \in Seq(Nat) /\ Len(Bytes(a, a)) = 0
    BY BytesAre
  <1>. QED  BY <1>1, EmptySeq

\* Adjacent runs of bytes make one.
LEMMA BytesJoin ==
    ASSUME NEW a \in Nat, NEW b \in Nat, NEW c \in Nat, a <= b, b <= c
    PROVE  Bytes(a, b) \o Bytes(b, c) = Bytes(a, c)
  <1>. DEFINE x == Bytes(a, b)  y == Bytes(b, c)  z == Bytes(a, c)
  <1>1. /\ x \in Seq(Nat) /\ Len(x) = b - a
        /\ \A k \in 1 .. b - a : x[k] = a + k
    BY BytesAre
  <1>2. /\ y \in Seq(Nat) /\ Len(y) = c - b
        /\ \A k \in 1 .. c - b : y[k] = b + k
    BY BytesAre
  <1>3. /\ z \in Seq(Nat) /\ Len(z) = c - a
        /\ \A k \in 1 .. c - a : z[k] = a + k
    BY BytesAre
  <1>. HIDE DEF x, y, z
  <1>4. /\ x \o y \in Seq(Nat) /\ Len(x \o y) = Len(x) + Len(y)
        /\ \A k \in 1 .. Len(x) + Len(y) :
             (x \o y)[k] = IF k <= Len(x) THEN x[k] ELSE y[k - Len(x)]
    BY <1>1, <1>2, ConcatProperties
  <1>5. Len(x \o y) = Len(z)
    BY <1>1, <1>2, <1>3, <1>4
  <1>6. ASSUME NEW k \in 1 .. Len(x \o y) PROVE (x \o y)[k] = z[k]
    <2>1. k \in 1 .. c - a
      BY <1>3, <1>5
    <2>2. CASE k <= Len(x)
      BY <1>1, <1>3, <1>4, <2>1, <2>2
    <2>3. CASE ~(k <= Len(x))
      <3>1. k - Len(x) \in 1 .. c - b /\ b + (k - Len(x)) = a + k
        BY <1>1, <2>1, <2>3
      <3>. QED  BY <1>2, <1>3, <1>4, <2>1, <2>3, <3>1
    <2>. QED  BY <2>2, <2>3
  <1>7. x \o y = z
    BY <1>3, <1>4, <1>5, <1>6, SeqEqual
  <1>. QED  BY <1>7 DEF x, y, z

\* What comes first of a run of bytes is the run of its length.
LEMMA PrefixOfBytes ==
    ASSUME NEW s \in Seq(Nat), NEW t \in Seq(Nat), NEW n \in Nat, s \o t = Bytes(0, n)
    PROVE  s = Bytes(0, Len(s)) /\ Len(s) + Len(t) = n
  <1>1. Len(s) \in Nat /\ Len(t) \in Nat
    OBVIOUS
  <1>2. /\ Len(s \o t) = Len(s) + Len(t)
        /\ \A k \in 1 .. Len(s) + Len(t) :
             (s \o t)[k] = IF k <= Len(s) THEN s[k] ELSE t[k - Len(s)]
    BY ConcatProperties
  <1>3. Len(Bytes(0, n)) = n /\ \A k \in 1 .. n : Bytes(0, n)[k] = k
    BY FirstBytes
  <1>4. Len(s) + Len(t) = n
    BY <1>2, <1>3
  <1>5. /\ Bytes(0, Len(s)) \in Seq(Nat) /\ Len(Bytes(0, Len(s))) = Len(s)
        /\ \A k \in 1 .. Len(s) : Bytes(0, Len(s))[k] = k
    BY <1>1, FirstBytes
  <1>6. ASSUME NEW k \in 1 .. Len(s) PROVE s[k] = Bytes(0, Len(s))[k]
    <2>1. k \in 1 .. n /\ k <= Len(s) /\ k \in 1 .. Len(s) + Len(t)
      BY <1>1, <1>4
    <2>2. (s \o t)[k] = s[k]
      BY <1>2, <2>1
    <2>3. (s \o t)[k] = k
      BY <1>3, <2>1
    <2>. QED  BY <1>5, <2>2, <2>3
  <1>7. s = Bytes(0, Len(s))
    BY <1>5, <1>6, SeqEqual
  <1>. QED  BY <1>4, <1>7

\* Concatenation is associative (from the definition: the provers do not take the
\* library's theorem).
LEMMA Associative ==
    ASSUME NEW s \in Seq(Nat), NEW t \in Seq(Nat), NEW u \in Seq(Nat)
    PROVE  (s \o t) \o u = s \o (t \o u)
  <1>. DEFINE a == s \o t  b == t \o u
  <1>1. Len(s) \in Nat /\ Len(t) \in Nat /\ Len(u) \in Nat
    OBVIOUS
  <1>2. /\ a \in Seq(Nat) /\ Len(a) = Len(s) + Len(t)
        /\ \A i \in 1 .. Len(s) + Len(t) : a[i] = IF i <= Len(s) THEN s[i] ELSE t[i - Len(s)]
    BY ConcatProperties
  <1>3. /\ b \in Seq(Nat) /\ Len(b) = Len(t) + Len(u)
        /\ \A i \in 1 .. Len(t) + Len(u) : b[i] = IF i <= Len(t) THEN t[i] ELSE u[i - Len(t)]
    BY ConcatProperties
  <1>. HIDE DEF a, b
  <1>4. /\ a \o u \in Seq(Nat) /\ Len(a \o u) = Len(a) + Len(u)
        /\ \A i \in 1 .. Len(a) + Len(u) :
             (a \o u)[i] = IF i <= Len(a) THEN a[i] ELSE u[i - Len(a)]
    <2>1. a \in Seq(Nat)
      BY <1>2
    <2>. QED  BY <2>1, ConcatProperties
  <1>5. /\ s \o b \in Seq(Nat) /\ Len(s \o b) = Len(s) + Len(b)
        /\ \A i \in 1 .. Len(s) + Len(b) :
             (s \o b)[i] = IF i <= Len(s) THEN s[i] ELSE b[i - Len(s)]
    <2>1. b \in Seq(Nat)
      BY <1>3
    <2>. QED  BY <2>1, ConcatProperties
  <1>6. Len(a \o u) = Len(s \o b)
    BY <1>1, <1>2, <1>3, <1>4, <1>5
  <1>7. ASSUME NEW i \in 1 .. Len(a \o u) PROVE (a \o u)[i] = (s \o b)[i]
    <2>0. i \in 1 .. Len(a) + Len(u) /\ i \in 1 .. Len(s) + Len(b)
      BY <1>4, <1>5, <1>6
    <2>1. CASE i <= Len(s)
      <3>1. i <= Len(a) /\ i \in 1 .. Len(s) + Len(t)
        BY <1>1, <1>2, <2>0, <2>1
      <3>. QED  BY <1>2, <1>4, <1>5, <2>0, <2>1, <3>1
    <2>2. CASE ~(i <= Len(s)) /\ i <= Len(a)
      <3>1. /\ i \in 1 .. Len(s) + Len(t) /\ i - Len(s) \in 1 .. Len(t) + Len(u)
            /\ i - Len(s) <= Len(t)
        BY <1>1, <1>2, <2>0, <2>2
      <3>2. (a \o u)[i] = a[i] /\ a[i] = t[i - Len(s)]
        BY <1>2, <1>4, <2>0, <2>2, <3>1
      <3>3. (s \o b)[i] = b[i - Len(s)] /\ b[i - Len(s)] = t[i - Len(s)]
        BY <1>3, <1>5, <2>0, <2>2, <3>1
      <3>. QED  BY <3>2, <3>3
    <2>3. CASE ~(i <= Len(a))
      <3>0. Len(a) = Len(s) + Len(t) /\ i \in Nat /\ i > Len(a)
        BY <1>1, <1>2, <2>0, <2>3
      <3>1. /\ ~(i <= Len(s)) /\ i - Len(s) \in 1 .. Len(t) + Len(u)
            /\ ~(i - Len(s) <= Len(t)) /\ (i - Len(s)) - Len(t) = i - Len(a)
        BY <1>1, <2>0, <3>0
      <3>2. (a \o u)[i] = u[i - Len(a)]
        BY <1>4, <2>0, <2>3
      <3>3. (s \o b)[i] = b[i - Len(s)] /\ b[i - Len(s)] = u[(i - Len(s)) - Len(t)]
        BY <1>3, <1>5, <2>0, <3>1
      <3>. QED  BY <3>1, <3>2, <3>3
    <2>. QED  BY <2>1, <2>2, <2>3
  <1>8. a \o u = s \o b
    BY <1>4, <1>5, <1>6, <1>7, SeqEqual
  <1>. QED  BY <1>8 DEF a, b

\* Cutting a sequence and putting the parts after another is putting it there.
LEMMA CutAnywhere ==
    ASSUME NEW g \in Seq(Nat), NEW p \in Seq(Nat), NEW w \in 0 .. Len(p)
    PROVE  /\ SubSeq(p, 1, w) \in Seq(Nat) /\ SubSeq(p, w + 1, Len(p)) \in Seq(Nat)
           /\ (g \o SubSeq(p, 1, w)) \o SubSeq(p, w + 1, Len(p)) = g \o p
  <1>. DEFINE l == SubSeq(p, 1, w)  r == SubSeq(p, w + 1, Len(p))
  <1>0. Len(p) \in Nat /\ w \in Nat
    OBVIOUS
  <1>1. \A i \in 1 .. Len(p) : p[i] \in Nat
    BY ElementOfSeq
  <1>2. l \in Seq(Nat)
    <2>1. \A i \in 1 .. w : p[i] \in Nat
      BY <1>0, <1>1
    <2>. QED  BY <1>0, <2>1, SubSeqProperties
  <1>3. r \in Seq(Nat)
    <2>1. \A i \in w + 1 .. Len(p) : p[i] \in Nat
      BY <1>0, <1>1
    <2>. QED  BY <1>0, <2>1, SubSeqProperties
  <1>4. l \o r = p
    <2>1. 1 \in 1 .. Len(p) + 1 /\ w \in 1 - 1 .. Len(p) /\ Len(p) \in w .. Len(p)
      BY <1>0
    <2>2. l \o r = SubSeq(p, 1, Len(p))
      BY <2>1, ConcatAdjacentSubSeq
    <2>. QED  BY <2>2, SubSeqFull
  <1>. HIDE DEF l, r
  <1>5. (g \o l) \o r = g \o p
    <2>1. (g \o l) \o r = g \o (l \o r)
      BY <1>2, <1>3, Associative, ZenonT(30)
    <2>. QED  BY <1>4, <2>1
  <1>. QED  BY <1>2, <1>3, <1>5 DEF l, r

-----------------------------------------------------------------------------
(* Moving bytes *)

Sound(f, peer) == f \in Flow /\ f.read <= f.sent /\ Intact(f, peer)

\* Whatever is written of the pending bytes, the flow stays sound.
LEMMA FlushIsSound ==
    ASSUME NEW f, NEW peer, Sound(f, peer), peer # "reset", NEW w \in 0 .. Len(f.pend)
    PROVE  Sound([f EXCEPT !.got = @ \o SubSeq(f.pend, 1, w),
                           !.pend = SubSeq(f.pend, w + 1, Len(f.pend))], peer)
  <1>. DEFINE l == SubSeq(f.pend, 1, w)
              r == SubSeq(f.pend, w + 1, Len(f.pend))
              g == [f EXCEPT !.got = @ \o l, !.pend = r]
  <1>1. /\ f \in Flow /\ f.got \in Seq(Nat) /\ f.pend \in Seq(Nat)
        /\ f.sent \in Nat /\ f.read \in Nat /\ f.read <= f.sent
    BY DEF Sound, Flow
  <1>2. ~f.gap => f.got \o f.pend = Bytes(0, f.read)
    BY DEF Sound, Intact
  <1>3. l \in Seq(Nat) /\ r \in Seq(Nat) /\ (f.got \o l) \o r = f.got \o f.pend
    BY <1>1, CutAnywhere
  <1>. HIDE DEF l, r
  <1>4. f.got \o l \in Seq(Nat)
    BY <1>1, <1>3, ConcatProperties
  <1>5. /\ g \in Flow /\ g.got = f.got \o l /\ g.pend = r /\ g.read = f.read
        /\ g.sent = f.sent /\ g.gap = f.gap
    BY <1>1, <1>3, <1>4 DEF Flow
  <1>. HIDE DEF g
  <1>6. /\ g.got \in Seq(Nat) /\ g.pend \in Seq(Nat)
        /\ ~g.gap => g.got \o g.pend = Bytes(0, g.read)
    BY <1>2, <1>3, <1>4, <1>5
  <1>7. ASSUME ~g.gap PROVE g.got = Bytes(0, Len(g.got))
    <2>1. g.read \in Nat
      BY <1>1, <1>5
    <2>. QED  BY <1>6, <1>7, <2>1, PrefixOfBytes
  <1>8. Sound(g, peer)
    BY <1>1, <1>5, <1>6, <1>7 DEF Sound, Intact
  <1>. QED  BY <1>8 DEF g, l, r

\* Whatever is written of what was just read, the flow stays sound.
LEMMA ReadIsSound ==
    ASSUME NEW f, NEW peer, Sound(f, peer), peer # "reset", f.pend = <<>>,
           NEW n \in Nat, f.read + n <= f.sent, NEW w \in 0 .. n
    PROVE  Sound([f EXCEPT !.read = @ + n, !.got = @ \o Bytes(f.read, f.read + w),
                           !.pend = Bytes(f.read + w, f.read + n)], peer)
  <1>. DEFINE l == Bytes(f.read, f.read + w)
              r == Bytes(f.read + w, f.read + n)
              g == [f EXCEPT !.read = @ + n, !.got = @ \o l, !.pend = r]
  <1>1. /\ f \in Flow /\ f.got \in Seq(Nat) /\ f.pend \in Seq(Nat)
        /\ f.sent \in Nat /\ f.read \in Nat
    BY DEF Sound, Flow
  <1>2. ASSUME ~f.gap PROVE f.got = Bytes(0, f.read)
    <2>1. f.got \o <<>> = Bytes(0, f.read)
      BY <1>2 DEF Sound, Intact
    <2>2. f.got \o <<>> = f.got
      BY <1>1, ConcatEmptySeq
    <2>. QED  BY <2>1, <2>2
  <1>3. /\ w \in Nat /\ f.read + w \in Nat /\ f.read + n \in Nat
        /\ 0 <= f.read /\ f.read <= f.read + w /\ f.read + w <= f.read + n /\ 0 <= f.read + w
        /\ 0 \in Nat
    BY <1>1
  <1>4. l \in Seq(Nat) /\ r \in Seq(Nat)
    BY <1>1, <1>3, BytesAre
  <1>5. ASSUME ~f.gap PROVE f.got \o l = Bytes(0, f.read + w)
    <2>1. Bytes(0, f.read) \o l = Bytes(0, f.read + w)
      BY <1>1, <1>3, BytesJoin
    <2>. QED  BY <1>2, <1>5, <2>1
  <1>6. Bytes(0, f.read + w) \o r = Bytes(0, f.read + n)
    BY <1>3, BytesJoin
  <1>7. Len(Bytes(0, f.read + w)) = f.read + w
    BY <1>3, FirstBytes
  <1>. HIDE DEF l, r
  <1>8. f.got \o l \in Seq(Nat)
    BY <1>1, <1>4, ConcatProperties
  <1>9. /\ g \in Flow /\ g.got = f.got \o l /\ g.pend = r /\ g.read = f.read + n
        /\ g.sent = f.sent /\ g.gap = f.gap
    BY <1>1, <1>3, <1>4, <1>8 DEF Flow
  <1>. HIDE DEF g
  <1>10. ~g.gap => g.got = Bytes(0, Len(g.got)) /\ g.got \o g.pend = Bytes(0, g.read)
    BY <1>5, <1>6, <1>7, <1>9
  <1>11. Sound(g, peer)
    BY <1>9, <1>10 DEF Sound, Intact
  <1>. QED  BY <1>11 DEF g, l, r

\* What has been read is counted when it could not be written, and what is then
\* dropped on a connection that was not reset is marked.
LEMMA DroppedIsSound ==
    ASSUME NEW f, NEW peer, Sound(f, peer), NEW n \in Nat, f.read + n <= f.sent
    PROVE  LET g == [f EXCEPT !.read = @ + n, !.gap = @ \/ peer # "reset"]
           IN  Sound(g, peer) /\ g.read = f.read + n /\ g.sent = f.sent
  <1>. DEFINE m == f.read + n
              b == f.gap \/ peer # "reset"
              g == [f EXCEPT !.read = m, !.gap = b]
  <1>1. /\ f \in Flow /\ f.read \in Nat /\ f.sent \in Nat /\ f.gap \in BOOLEAN
        /\ Intact(f, peer)
    BY DEF Sound, Flow
  <1>2. m \in Nat /\ m <= f.sent /\ b \in BOOLEAN /\ (~b => ~f.gap /\ peer = "reset")
    BY <1>1
  <1>3. /\ g \in Flow /\ g.read = m /\ g.sent = f.sent /\ g.got = f.got /\ g.gap = b
    <2>. HIDE DEF m, b
    <2>. QED  BY <1>1, <1>2 DEF Flow
  <1>. HIDE DEF g, m, b
  <1>4. Sound(g, peer)
    BY <1>1, <1>2, <1>3 DEF Sound, Intact
  <1>. QED  BY <1>3, <1>4 DEF g, m, b

\* One direction of a pass, for every outcome of its writes: bytes are dropped
\* only with an error.
LEMMA StepsAreSound ==
    ASSUME NEW f, NEW peer, Sound(f, peer), NEW o \in Steps(f, peer)
    PROVE  /\ Sound(o.f, peer) /\ o.moved \in BOOLEAN /\ o.error \in BOOLEAN
           /\ o.f.gap => f.gap \/ o.error
  <1>. DEFINE fails == [f |-> f, moved |-> FALSE, error |-> TRUE]
              flushes == IF f.pend = <<>> THEN {[f |-> f, moved |-> FALSE, error |-> FALSE]}
                         ELSE {fails} \cup
                              IF peer = "reset" THEN {}
                              ELSE {[f |-> [f EXCEPT !.got = @ \o SubSeq(f.pend, 1, w),
                                                     !.pend = SubSeq(f.pend, w + 1, Len(f.pend))],
                                     moved |-> w > 0, error |-> FALSE] : w \in 0 .. Len(f.pend)}
              n == IF f.sent - f.read < Chunk THEN f.sent - f.read ELSE Chunk
              Reads(e) == IF e.f.pend # <<>> \/ n = 0 THEN {e}
                          ELSE {[e EXCEPT !.f.read = @ + n, !.f.gap = @ \/ peer # "reset",
                                          !.error = TRUE]} \cup
                               IF peer = "reset" THEN {}
                               ELSE {[f |-> [e.f EXCEPT !.read = @ + n,
                                                        !.got = @ \o Bytes(f.read, f.read + w),
                                                        !.pend = Bytes(f.read + w, f.read + n)],
                                      moved |-> TRUE, error |-> FALSE] : w \in 0 .. n}
  <1>2. f.sent \in Nat /\ f.read \in Nat /\ f.read <= f.sent /\ Chunk \in Nat
    BY RelayAssumption DEF Sound, Flow
  <1>3. n \in Nat /\ f.read + n <= f.sent
    BY <1>2
  <1>0. \E e \in flushes : o \in Reads(e)
    BY DEF Steps
  <1>. HIDE DEF n, flushes
  <1>1. PICK e \in flushes : o \in Reads(e)
    BY <1>0
  <1>4. /\ e = [f |-> e.f, moved |-> e.moved, error |-> e.error]
        /\ e.moved \in BOOLEAN /\ e.error \in BOOLEAN
        /\ Sound(e.f, peer) /\ e.f.read = f.read /\ e.f.sent = f.sent /\ e.f.gap = f.gap
    <2>1. CASE e = [f |-> f, moved |-> FALSE, error |-> FALSE]
      BY <2>1
    <2>2. CASE e = fails
      BY <2>2
    <2>3. CASE f.pend # <<>> /\ peer # "reset" /\ e # fails
      <3>. DEFINE cut(w) == [f EXCEPT !.got = @ \o SubSeq(f.pend, 1, w),
                                      !.pend = SubSeq(f.pend, w + 1, Len(f.pend))]
      <3>1. PICK w \in 0 .. Len(f.pend) : e = [f |-> cut(w), moved |-> w > 0, error |-> FALSE]
        BY <2>3 DEF flushes
      <3>2. Sound(cut(w), peer)
        BY <2>3, FlushIsSound
      <3>3. cut(w).read = f.read /\ cut(w).sent = f.sent /\ cut(w).gap = f.gap
        BY DEF Sound, Flow
      <3>. HIDE DEF cut
      <3>4. (w > 0) \in BOOLEAN
        OBVIOUS
      <3>. QED  BY <3>1, <3>2, <3>3, <3>4
    <2>. QED  BY <2>1, <2>2, <2>3 DEF flushes
  <1>5. CASE o = e
    BY <1>4, <1>5
  <1>6. CASE o = [e EXCEPT !.f.read = @ + n, !.f.gap = @ \/ peer # "reset", !.error = TRUE]
    <2>. DEFINE g == [e.f EXCEPT !.read = @ + n, !.gap = @ \/ peer # "reset"]
    <2>1. o = [f |-> g, moved |-> e.moved, error |-> TRUE]
      BY <1>4, <1>6
    <2>2. Sound(g, peer)
      BY <1>3, <1>4, DroppedIsSound
    <2>. HIDE DEF g
    <2>. QED  BY <1>4, <2>1, <2>2
  <1>7. CASE /\ e.f.pend = <<>> /\ peer # "reset" /\ o # e
             /\ o # [e EXCEPT !.f.read = @ + n, !.f.gap = @ \/ peer # "reset", !.error = TRUE]
    <2>. DEFINE g(w) == [e.f EXCEPT !.read = @ + n, !.got = @ \o Bytes(e.f.read, e.f.read + w),
                                    !.pend = Bytes(e.f.read + w, e.f.read + n)]
    <2>1. PICK w \in 0 .. n : o = [f |-> g(w), moved |-> TRUE, error |-> FALSE]
      BY <1>1, <1>4, <1>7
    <2>2. Sound(g(w), peer)
      BY <1>3, <1>4, <1>7, ReadIsSound
    <2>3. g(w).gap = e.f.gap
      BY <1>4 DEF Sound, Flow
    <2>. HIDE DEF g
    <2>. QED  BY <1>4, <2>1, <2>2, <2>3
  <1>8. \/ o = e
        \/ o = [e EXCEPT !.f.read = @ + n, !.f.gap = @ \/ peer # "reset", !.error = TRUE]
        \/ e.f.pend = <<>> /\ peer # "reset"
    BY <1>1
  <1>. QED  BY <1>5, <1>6, <1>7, <1>8

-----------------------------------------------------------------------------
(* Sub-connections *)

\* What the invariant says of one slot.
GoodSub(s) ==
    /\ s \in SubState
    /\ s.up.read <= s.up.sent /\ s.down.read <= s.down.sent
    /\ ~s.active => s = Free
    /\ s.active => /\ Intact(s.up, s.local) /\ Intact(s.down, s.rvd)
                   /\ s.up.gap \/ s.down.gap => s.draining

GoodSubs(s) == s \in [Sub -> SubState] /\ \A i \in Sub : GoodSub(s[i])

LEMMA GoodSubsIsTheInvariant ==
    GoodSubs(subs) <=> /\ subs \in [Sub -> SubState]
                       /\ ReadWasSent /\ UnusedIsFree /\ StreamIsIntact
  BY DEF GoodSubs, GoodSub, ReadWasSent, UnusedIsFree, StreamIsIntact, Active

\* An unused slot is as it should be.
LEMMA FreeIsGood ==
    GoodSub(Free) /\ ~Free.active /\ Sound(Up, "reset") /\ Sound(Up, "open") /\ ~Up.gap
  <1>1. <<>> \in Seq(Nat) /\ Len(<<>>) = 0 /\ 0 \in Nat
    BY EmptySeq
  <1>2. /\ Up \in Flow /\ Up.got = <<>> /\ Up.pend = <<>> /\ Up.read = 0 /\ Up.sent = 0
        /\ Up.gap = FALSE
    BY <1>1 DEF Up, Flow
  <1>3. Bytes(0, 0) = <<>>
    BY NoBytes
  <1>4. <<>> \o <<>> = <<>>
    BY <1>1, ConcatEmptySeq
  <1>5. Sound(Up, "reset") /\ Sound(Up, "open")
    BY <1>1, <1>2, <1>3, <1>4 DEF Sound, Intact
  <1>6. Free \in SubState
    BY <1>2 DEF Free, SubState, Side
  <1>7. Free.up = Up /\ Free.down = Up /\ Free.active = FALSE
    BY DEF Free
  <1>8. GoodSub(Free)
    BY <1>2, <1>6, <1>7 DEF GoodSub
  <1>. QED  BY <1>2, <1>5, <1>7, <1>8

\* A sub in use is one whose flows are sound, and that drains if bytes were dropped.
LEMMA InUse ==
    ASSUME NEW s \in SubState, s.active
    PROVE  GoodSub(s) <=> /\ Sound(s.up, s.local) /\ Sound(s.down, s.rvd)
                          /\ s.up.gap \/ s.down.gap => s.draining
  <1>1. s.up \in Flow /\ s.down \in Flow
    BY DEF SubState
  <1>. QED  BY <1>1 DEF GoodSub, Sound

\* Closing some of the slots leaves all as they should be.
LEMMA CloseAllIsGood ==
    ASSUME NEW s, GoodSubs(s), NEW which
    PROVE  /\ GoodSubs(CloseAll(s, which))
           /\ \A i \in Sub : i \in which => CloseAll(s, which)[i] = Free
  <1>1. \A i \in Sub : CloseAll(s, which)[i] = IF i \in which THEN Free ELSE s[i]
    BY DEF CloseAll, CloseRelaySub
  <1>2. Free \in SubState
    BY FreeIsGood DEF GoodSub
  <1>3. \A i \in Sub : s[i] \in SubState
    BY DEF GoodSubs
  <1>4. CloseAll(s, which) \in [Sub -> SubState]
    BY <1>2, <1>3 DEF CloseAll, CloseRelaySub
  <1>5. \A i \in Sub : GoodSub(CloseAll(s, which)[i])
    BY <1>1, FreeIsGood DEF GoodSubs
  <1>. QED  BY <1>1, <1>4, <1>5 DEF GoodSubs

\* A set of slots has a first.
LEMMA FirstSub ==
    ASSUME NEW S \in SUBSET Sub, S # {}
    PROVE  \E m \in S : \A n \in S : m <= n
  <1>. DEFINE R == {p \in Nat \X Nat : p[1] < p[2]}
  <1>1. IsWellFoundedOn(R, Nat)
    BY NatLessThanWellFounded, Zenon DEF OpToRel
  <1>. HIDE DEF R
  <1>2. S \in SUBSET Nat
    BY RelayAssumption DEF Sub
  <1>3. PICK m \in S : \A n \in S : ~ (<<n, m>> \in R)
    BY <1>1, <1>2, WFMin
  <1>4. ASSUME NEW n \in S PROVE m <= n
    <2>1. SUFFICES ASSUME n < m PROVE FALSE
      BY <1>2
    <2>2. <<n, m>> \in R
      BY <1>2, <2>1 DEF R
    <2>. QED  BY <1>3, <2>2
  <1>. QED  BY <1>4

\* _handle_connect_msg leaves the slots as they should be, and the one it takes
\* for the new sub-connection empty, evicted or not.
LEMMA RoomIsMade ==
    ASSUME NEW s, GoodSubs(s), NEW heap
    PROVE  LET room == MakeRoom(s, heap)
           IN  /\ GoodSubs(room.subs)
               /\ room.slot # 0 /\ room.slot \in Sub => room.subs[room.slot] = Free
  <1>. DEFINE s1 == ReclaimDeadSubs(s)
              over == 1 + 2 * Cardinality(Active(s1)) + 2 > MaxPcbs
              s2 == IF over THEN CloseAll(s1, FindEvictableSub(s1)) ELSE s1
              free == Sub \ Active(s2)
              out == FindEvictableSub(s2)
              first == CHOOSE i \in free : \A j \in free : i <= j
              one == CHOOSE i \in out : TRUE
              room == MakeRoom(s, heap)
  <1>1. GoodSubs(s1)
    BY CloseAllIsGood DEF ReclaimDeadSubs
  <1>2. \/ room = [subs |-> s1, slot |-> 0]
        \/ room = [subs |-> s2, slot |-> 0]
        \/ free # {} /\ room = [subs |-> s2, slot |-> first]
        \/ out # {} /\ room = [subs |-> CloseAll(s2, out), slot |-> one]
    BY DEF MakeRoom
  <1>. HIDE DEF s1, over, room
  <1>3. GoodSubs(s2)
    BY <1>1, CloseAllIsGood
  <1>. HIDE DEF s2
  <1>4. free # {} => GoodSub(s2[first]) /\ first \in Sub /\ ~s2[first].active
    <2>1. SUFFICES ASSUME free # {} PROVE GoodSub(s2[first]) /\ first \in Sub /\ ~s2[first].active
      OBVIOUS
    <2>2. \E i \in free : \A j \in free : i <= j
      BY <2>1, FirstSub
    <2>3. first \in free
      BY <2>2
    <2>. QED  BY <1>3, <2>3 DEF Active, GoodSubs
  <1>5. free # {} => s2[first] = Free
    BY <1>4 DEF GoodSub
  <1>6. out # {} => one \in out
    OBVIOUS
  <1>. HIDE DEF free, first, one, out
  <1>7. GoodSubs(CloseAll(s2, out)) /\ \A i \in Sub : i \in out => CloseAll(s2, out)[i] = Free
    BY <1>3, CloseAllIsGood
  <1>8. /\ GoodSubs(room.subs)
        /\ room.slot # 0 /\ room.slot \in Sub => room.subs[room.slot] = Free
    BY <1>1, <1>2, <1>3, <1>5, <1>6, <1>7
  <1>. QED  BY <1>8 DEF room

\* A sub whose flows move on, and that stays open, is as it should be.
LEMMA DrainedIsGood ==
    ASSUME NEW s, GoodSub(s), s.active, s.draining,
           NEW u \in Steps(s.up, s.local), NEW d \in Steps(s.down, s.rvd)
    PROVE  GoodSub(Drained(s, u, d))
  <1>1. s \in SubState
    BY DEF GoodSub
  <1>2. Sound(u.f, s.local) /\ Sound(d.f, s.rvd)
    BY <1>1, InUse, StepsAreSound
  <1>3. u.f \in Flow /\ d.f \in Flow
    BY <1>2 DEF Sound
  <1>. DEFINE t == [s EXCEPT !.up = u.f, !.down = d.f]
  <1>4. /\ t \in SubState /\ t.active /\ t.draining /\ t.up = u.f /\ t.down = d.f
        /\ t.local = s.local /\ t.rvd = s.rvd
    BY <1>1, <1>3 DEF SubState
  <1>5. Drained(s, u, d) = Free \/ Drained(s, u, d) = t
    BY DEF Drained, CloseRelaySub
  <1>. HIDE DEF t
  <1>6. GoodSub(t)
    BY <1>2, <1>4, InUse
  <1>. QED  BY <1>5, <1>6, FreeIsGood

LEMMA RelayedIsGood ==
    ASSUME NEW s, GoodSub(s), s.active, ~s.draining,
           NEW u \in Steps(s.up, s.local), NEW d \in Steps(s.down, s.rvd)
    PROVE  GoodSub(Relayed(s, u, d))
  <1>1. s \in SubState /\ s.idle \in Nat /\ 0 \in Nat
    BY DEF GoodSub, SubState
  <1>2. /\ Sound(u.f, s.local) /\ Sound(d.f, s.rvd)
        /\ u.f.gap => u.error
        /\ d.f.gap => d.error
        /\ u.error \in BOOLEAN /\ d.error \in BOOLEAN
    BY <1>1, InUse, StepsAreSound
  <1>3. u.f \in Flow /\ d.f \in Flow
    BY <1>2 DEF Sound
  <1>. DEFINE err == u.error \/ d.error
              age == IF u.moved \/ d.moved THEN 0 ELSE s.idle
              t == [s EXCEPT !.up = u.f, !.down = d.f, !.draining = err, !.drain = 0, !.idle = age]
  <1>4. err \in BOOLEAN /\ age \in Nat /\ (u.f.gap \/ d.f.gap => err)
    BY <1>1, <1>2
  <1>5. Relayed(s, u, d) = t
    BY DEF Relayed
  <1>. HIDE DEF err, age
  <1>6. /\ t \in SubState /\ t.active /\ t.up = u.f /\ t.down = d.f
        /\ t.local = s.local /\ t.rvd = s.rvd /\ t.draining = err
    BY <1>1, <1>3, <1>4 DEF SubState
  <1>. HIDE DEF t
  <1>7. GoodSub(t)
    BY <1>2, <1>4, <1>6, InUse
  <1>. QED  BY <1>5, <1>7

\* A pass over a sub leaves it as it should be, closed or not.
LEMMA PassIsGood ==
    ASSUME NEW s, GoodSub(s), s.active, NEW o,
           o \in IF s.draining THEN DrainPass(s) ELSE RelayPass(s)
    PROVE  GoodSub(o.sub)
  <1>1. CASE s.draining
    <2>1. \/ o = [sub |-> Free, moved |-> FALSE]
          \/ \E u \in Steps(s.up, s.local), d \in Steps(s.down, s.rvd) :
               o = [sub |-> Drained(s, u, d), moved |-> FALSE]
      BY <1>1 DEF DrainPass, CloseRelaySub
    <2>. QED  BY <1>1, <2>1, DrainedIsGood, FreeIsGood
  <1>2. CASE ~s.draining
    <2>1. PICK u \in Steps(s.up, s.local), d \in Steps(s.down, s.rvd) :
                 o = [sub |-> Keep(Relayed(s, u, d)), moved |-> u.moved \/ d.moved]
      BY <1>2 DEF RelayPass
    <2>2. GoodSub(Relayed(s, u, d))
      BY <1>2, RelayedIsGood
    <2>3. GoodSub(Keep(Relayed(s, u, d)))
      BY <2>2, FreeIsGood DEF Keep, CloseRelaySub
    <2>. QED  BY <2>1, <2>3
  <1>. QED  BY <1>1, <1>2

\* Time that passes changes timers only.
LEMMA AgedIsGood ==
    ASSUME NEW s, GoodSub(s)
    PROVE  GoodSub(Aged(s)) /\ Aged(s).active = s.active
  <1>1. s \in SubState /\ s.idle \in Nat /\ s.drain \in Nat
    BY DEF GoodSub, SubState
  <1>2. CASE ~s.active
    BY <1>2 DEF Aged
  <1>3. CASE s.active
    <2>. DEFINE a == Older(s.idle, Stall + 1)
                b == IF s.draining THEN Older(s.drain, DrainCap) ELSE s.drain
                t == [s EXCEPT !.idle = a, !.drain = b]
    <2>1. a \in Nat /\ b \in Nat
      BY <1>1 DEF Older
    <2>2. Aged(s) = t
      BY <1>3 DEF Aged
    <2>. HIDE DEF a, b
    <2>3. /\ t \in SubState /\ t.active = s.active /\ t.up = s.up /\ t.down = s.down
          /\ t.local = s.local /\ t.rvd = s.rvd /\ t.draining = s.draining
      BY <1>1, <2>1 DEF SubState
    <2>. HIDE DEF t
    <2>4. GoodSub(t)
      BY <1>1, <1>3, <2>3, InUse
    <2>. QED  BY <2>2, <2>3, <2>4
  <1>. QED  BY <1>2, <1>3

\* At most every slot is in use.
LEMMA ActiveAreFew == ASSUME NEW s PROVE Cardinality(Active(s)) \in 0 .. MaxSubs
  <1>1. MaxSubs \in Nat /\ 1 \in Int /\ MaxSubs \in Int /\ MaxSubs >= 1
    BY RelayAssumption
  <1>2. IsFiniteSet(Sub) /\ Cardinality(Sub) = MaxSubs
    BY <1>1, FS_Interval DEF Sub
  <1>3. Active(s) \subseteq Sub
    BY DEF Active
  <1>4. IsFiniteSet(Active(s)) /\ Cardinality(Active(s)) <= Cardinality(Sub)
    BY <1>2, <1>3, FS_Subset
  <1>5. Cardinality(Active(s)) \in Nat
    BY <1>4, FS_CardinalityType
  <1>. QED  BY <1>1, <1>2, <1>4, <1>5

\* _handle_connect_msg keeps the slots as they should be.
LEMMA ConnectIsGood ==
    ASSUME GoodSubs(subs), count \in 0 .. MaxSubs,
           NEW m, NEW heap, NEW opens, HandleConnectMsg(m, heap, opens)
    PROVE  GoodSubs(subs') /\ count' \in 0 .. MaxSubs
  <1>. DEFINE room == MakeRoom(subs, heap)
              sub == [room.subs[room.slot] EXCEPT !.active = TRUE, !.rvd = "open",
                                                  !.local = "open", !.idle = 0]
              used == [Free EXCEPT !.active = TRUE, !.rvd = "open", !.local = "open", !.idle = 0]
  <1>1. \/ /\ room.slot # 0 /\ subs' = [room.subs EXCEPT ![room.slot] = sub]
           /\ count' = Cardinality(Active(subs'))
        \/ subs' = room.subs /\ count' = count
    BY DEF HandleConnectMsg
  <1>2. count' \in 0 .. MaxSubs
    BY <1>1, ActiveAreFew
  <1>3. /\ GoodSubs(room.subs)
        /\ room.slot # 0 /\ room.slot \in Sub => room.subs[room.slot] = Free
    BY RoomIsMade
  <1>. HIDE DEF room
  <1>4. GoodSub(used)
    <2>1. /\ used \in SubState /\ used.active /\ used.up = Up /\ used.down = Up
          /\ used.local = "open" /\ used.rvd = "open"
      <3>1. Free \in SubState /\ 0 \in Nat
        BY FreeIsGood DEF GoodSub
      <3>2. Free.up = Up /\ Free.down = Up
        BY DEF Free
      <3>. QED  BY <3>1, <3>2 DEF SubState, Side
    <2>. HIDE DEF used
    <2>. QED  BY <2>1, FreeIsGood, InUse
  <1>5. CASE subs' = room.subs
    BY <1>2, <1>3, <1>5
  <1>6. CASE room.slot # 0 /\ subs' = [room.subs EXCEPT ![room.slot] = sub]
    <2>1. room.subs \in [Sub -> SubState]
      BY <1>3 DEF GoodSubs
    <2>2. CASE room.slot \notin Sub
      <3>1. subs' = room.subs
        BY <1>6, <2>1, <2>2
      <3>. QED  BY <1>2, <1>3, <3>1
    <2>3. CASE room.slot \in Sub
      <3>1. sub = used
        BY <1>3, <1>6, <2>3
      <3>2. used \in SubState
        BY <1>4 DEF GoodSub
      <3>. HIDE DEF sub, used
      <3>3. /\ subs' \in [Sub -> SubState]
            /\ \A i \in Sub : subs'[i] = IF i = room.slot THEN used ELSE room.subs[i]
        BY <1>6, <2>1, <2>3, <3>1, <3>2
      <3>. QED  BY <1>2, <1>3, <1>4, <3>3 DEF GoodSubs
    <2>. QED  BY <2>2, <2>3
  <1>. QED  BY <1>1, <1>5, <1>6

-----------------------------------------------------------------------------
(* One lemma per kind of step *)

TypeOfTheRest ==
    /\ pc \in {"entry", "connect", "auth", "ctrl", "subs", "after", "cleanup", "ended"}
    /\ state \in {"idle", "connecting", "authenticating", "running", "stopped", "error"}
    /\ run \in BOOLEAN /\ ctrl \in {"none", "open", "gone"}
    /\ inbox \in Seq(Message) /\ budget \in 0 .. MaxControl
    /\ at \in Sub /\ count \in 0 .. MaxSubs
    /\ lost \in -1 .. LostCap + 1 /\ idle \in 0 .. IdleTimeout + 1

LEMMA IInvIs == IInv <=> TypeOfTheRest /\ GoodSubs(subs)
  BY GoodSubsIsTheInvariant DEF IInv, TypeOK, TypeOfTheRest

\* The same of the next state.
LEMMA IInvNextIs == IInv' <=> TypeOfTheRest' /\ GoodSubs(subs')
  <1>1. GoodSubs(subs') <=> /\ subs' \in [Sub -> SubState]
                            /\ ReadWasSent' /\ UnusedIsFree' /\ StreamIsIntact'
    BY DEF GoodSubs, GoodSub, ReadWasSent, UnusedIsFree, StreamIsIntact, Active
  <1>. QED  BY <1>1 DEF IInv, TypeOK, TypeOfTheRest

\* The constants, as the steps need them.
LEMMA Constants ==
    /\ MaxSubs \in Nat \ {0} /\ LostCap \in Nat /\ IdleTimeout \in Nat /\ MaxControl \in Nat
    /\ 0 \in 0 .. MaxControl /\ 0 \in 0 .. MaxSubs /\ 0 \in 0 .. IdleTimeout + 1
    /\ MaxControl \in 0 .. MaxControl /\ 1 \in Sub
    /\ -1 \in -1 .. LostCap + 1 /\ 0 \in -1 .. LostCap + 1
  BY RelayAssumption DEF Sub

LEMMA StartIsGood == Init => IInv
  <1>. SUFFICES ASSUME Init PROVE TypeOfTheRest /\ GoodSubs(subs)
    BY IInvIs
  <1>1. <<>> \in Seq(Message)
    BY EmptySeq
  <1>2. TypeOfTheRest
    BY <1>1, Constants DEF Init, TypeOfTheRest
  <1>3. Free \in SubState
    BY FreeIsGood DEF GoodSub
  <1>4. GoodSubs(subs)
    BY <1>3, FreeIsGood DEF Init, GoodSubs
  <1>. QED  BY <1>2, <1>4

\* Starting up and cleaning up.
LEMMA StartAndEnd ==
    ASSUME IInv, NEW b \in BOOLEAN,
           Enter(b) \/ ConnectControl(b) \/ Authenticate(b) \/ CleanUp \/ RelayStop \/ ControlCloses
    PROVE  IInv'
  <1>. SUFFICES TypeOfTheRest' /\ GoodSubs(subs')
    BY IInvNextIs
  <1>1. TypeOfTheRest /\ GoodSubs(subs)
    BY IInvIs
  <1>2. CASE Enter(b) \/ ConnectControl(b) \/ RelayStop \/ ControlCloses
    BY <1>1, <1>2 DEF Enter, ConnectControl, RelayStop, ControlCloses, TypeOfTheRest
  <1>3. CASE Authenticate(b)
    <2>1. /\ pc' \in {"ctrl", "cleanup"} /\ state' \in {"running", "error"}
          /\ (idle' = 0 \/ idle' = idle)
          /\ UNCHANGED <<run, ctrl, inbox, budget, at, subs, count, lost>>
      BY <1>3 DEF Authenticate
    <2>. QED  BY <1>1, <2>1, Constants DEF TypeOfTheRest
  <1>4. CASE CleanUp
    <2>1. TypeOfTheRest'
      BY <1>1, <1>4, Constants DEF CleanUp, TypeOfTheRest
    <2>2. Free \in SubState
      BY FreeIsGood DEF GoodSub
    <2>3. GoodSubs(subs')
      BY <1>4, <2>2, FreeIsGood DEF CleanUp, GoodSubs
    <2>. QED  BY <2>1, <2>3
  <1>. QED  BY <1>2, <1>3, <1>4

\* The control connection: a message is handled or arrives.
LEMMA ControlSteps ==
    ASSUME IInv, ReadControl \/ \E m \in Message : ClientAsks(m)
    PROVE  IInv'
  <1>. SUFFICES TypeOfTheRest' /\ GoodSubs(subs')
    BY IInvNextIs
  <1>1. TypeOfTheRest /\ GoodSubs(subs)
    BY IInvIs
  <1>2. inbox \in Seq(Message)
    BY <1>1 DEF TypeOfTheRest
  <1>3. CASE ReadControl
    <2>1. inbox' \in Seq(Message)
      BY <1>2, <1>3, HeadTailProperties DEF ReadControl
    <2>2. GoodSubs(subs') /\ count' \in 0 .. MaxSubs
      <3>1. \/ \E heap \in Heap, opens \in BOOLEAN : HandleConnectMsg(Head(inbox), heap, opens)
            \/ UNCHANGED <<subs, count>>
        BY <1>3 DEF ReadControl
      <3>2. count \in 0 .. MaxSubs
        BY <1>1 DEF TypeOfTheRest
      <3>. QED  BY <1>1, <3>1, <3>2, ConnectIsGood
    <2>3. /\ pc' \in {"subs", "ctrl"} /\ (idle' = 0 \/ idle' = idle)
          /\ UNCHANGED <<state, run, ctrl, budget, at, lost>>
      BY <1>3 DEF ReadControl
    <2>. QED  BY <1>1, <2>1, <2>2, <2>3, Constants DEF TypeOfTheRest
  <1>4. ASSUME NEW m \in Message, ClientAsks(m) PROVE TypeOfTheRest' /\ GoodSubs(subs')
    <2>1. inbox' \in Seq(Message)
      BY <1>2, <1>4, AppendProperties DEF ClientAsks
    <2>2. budget' \in 0 .. MaxControl
      BY <1>1, <1>4, Constants DEF ClientAsks, TypeOfTheRest
    <2>3. UNCHANGED <<pc, state, run, ctrl, at, subs, count, lost, idle>>
      BY <1>4 DEF ClientAsks
    <2>. QED  BY <1>1, <2>1, <2>2, <2>3 DEF TypeOfTheRest
  <1>. QED  BY <1>3, <1>4

\* A sub-connection has its turn.
LEMMA ServeSubKeeps == ASSUME IInv, ServeSub PROVE IInv'
  <1>. SUFFICES TypeOfTheRest' /\ GoodSubs(subs')
    BY IInvNextIs
  <1>1. TypeOfTheRest /\ GoodSubs(subs)
    BY IInvIs
  <1>2. PICK o \in IF ~subs[at].active THEN {[sub |-> subs[at], moved |-> FALSE]}
                   ELSE IF subs[at].draining THEN DrainPass(subs[at]) ELSE RelayPass(subs[at]) :
           /\ subs' = [subs EXCEPT ![at] = o.sub]
           /\ idle' = IF o.moved THEN 0 ELSE idle
           /\ IF at < MaxSubs THEN at' = at + 1 /\ pc' = "subs" /\ UNCHANGED count
              ELSE at' = 1 /\ pc' = "after" /\ count' = UpdateActiveSessionCount(subs')
    BY DEF ServeSub
  <1>3. at \in Sub /\ GoodSub(subs[at])
    BY <1>1 DEF TypeOfTheRest, GoodSubs
  <1>4. GoodSub(o.sub)
    BY <1>2, <1>3, PassIsGood
  <1>5. GoodSubs(subs')
    <2>1. o.sub \in SubState
      BY <1>4 DEF GoodSub
    <2>2. \A i \in Sub : subs'[i] = IF i = at THEN o.sub ELSE subs[i]
      BY <1>1, <1>2, <1>3 DEF GoodSubs
    <2>3. subs' \in [Sub -> SubState]
      BY <1>1, <1>2, <1>3, <2>1 DEF GoodSubs
    <2>. QED  BY <1>1, <1>4, <2>2, <2>3 DEF GoodSubs
  <1>6. count' \in 0 .. MaxSubs
    BY <1>1, <1>2, ActiveAreFew DEF TypeOfTheRest, UpdateActiveSessionCount
  <1>7. at' \in Sub
    BY <1>2, <1>3, Constants DEF Sub
  <1>8. idle' \in 0 .. IdleTimeout + 1
    BY <1>1, <1>2, Constants DEF TypeOfTheRest
  <1>9. pc' \in {"subs", "after"} /\ UNCHANGED <<state, run, ctrl, inbox, budget, lost>>
    BY <1>2 DEF ServeSub
  <1>. QED  BY <1>1, <1>5, <1>6, <1>7, <1>8, <1>9 DEF TypeOfTheRest

\* The rest of a pass of the loop.
LEMMA AfterSubsKeeps == ASSUME IInv, NEW time \in BOOLEAN, AfterSubs(time) PROVE IInv'
  <1>. SUFFICES TypeOfTheRest' /\ GoodSubs(subs')
    BY IInvNextIs
  <1>1. TypeOfTheRest /\ GoodSubs(subs)
    BY IInvIs
  <1>. DEFINE l == IF lost = -1 /\ inbox = <<>> /\ ctrl = "gone" THEN 0 ELSE lost
              S(heap) == IF heap = "critical" THEN CloseAll(subs, FindOldestActiveSub(subs)) ELSE subs
  <1>2. /\ pc' \in {"ctrl", "cleanup"}
        /\ UNCHANGED <<state, run, ctrl, inbox, budget, at, count>>
    BY DEF AfterSubs, LoopTest
  <1>3. l \in -1 .. LostCap + 1 /\ l \in Int
    BY <1>1, Constants DEF TypeOfTheRest
  <1>4. /\ lost' \in {l, Older(l, LostCap + 1)}
        /\ idle' \in {idle, Older(idle, IdleTimeout + 1)}
    BY DEF AfterSubs
  <1>5. \/ subs' = subs
        \/ \E heap \in Heap : subs' = IF time THEN [i \in Sub |-> Aged(S(heap)[i])] ELSE S(heap)
    BY DEF AfterSubs
  <1>. HIDE DEF l
  <1>6. lost' \in -1 .. LostCap + 1
    BY <1>3, <1>4, Constants DEF Older
  <1>7. idle' \in 0 .. IdleTimeout + 1
    BY <1>1, <1>4, Constants DEF Older, TypeOfTheRest
  <1>8. ASSUME NEW heap \in Heap PROVE GoodSubs(S(heap))
    BY <1>1, CloseAllIsGood
  <1>. HIDE DEF S
  <1>9. GoodSubs(subs')
    <2>1. CASE subs' = subs
      BY <1>1, <2>1
    <2>2. ASSUME NEW heap \in Heap, subs' = [i \in Sub |-> Aged(S(heap)[i])] PROVE GoodSubs(subs')
      <3>1. \A i \in Sub : GoodSub(Aged(S(heap)[i]))
        BY <1>8, AgedIsGood DEF GoodSubs
      <3>2. \A i \in Sub : Aged(S(heap)[i]) \in SubState
        BY <3>1 DEF GoodSub
      <3>. QED  BY <2>2, <3>1, <3>2 DEF GoodSubs
    <2>3. ASSUME NEW heap \in Heap, subs' = S(heap) PROVE GoodSubs(subs')
      BY <1>8, <2>3
    <2>. QED  BY <1>5, <2>1, <2>2, <2>3
  <1>. QED  BY <1>1, <1>2, <1>6, <1>7, <1>9 DEF TypeOfTheRest

\* What the client and the local service do.
LEMMA PeerSteps ==
    ASSUME IInv, NEW i \in Sub, NEW how \in {"fin", "reset"},
           ClientSends(i) \/ LocalSends(i) \/ RvdCloses(i, how) \/ LocalCloses(i, how)
    PROVE  IInv'
  <1>. SUFFICES TypeOfTheRest' /\ GoodSubs(subs')
    BY IInvNextIs
  <1>1. TypeOfTheRest /\ GoodSubs(subs)
    BY IInvIs
  <1>. DEFINE s == subs[i]
  <1>2. s \in SubState /\ GoodSub(s)
    BY <1>1 DEF GoodSubs
  <1>3. s.active
    BY DEF ClientSends, LocalSends, RvdCloses, LocalCloses, Peer
  <1>4. /\ Sound(s.up, s.local) /\ Sound(s.down, s.rvd)
        /\ s.up.gap \/ s.down.gap => s.draining
    BY <1>2, <1>3, InUse
  <1>. DEFINE More(f) == [f EXCEPT !.sent = @ + 1]
  <1>5. ASSUME NEW f, NEW p, Sound(f, p) PROVE Sound(More(f), p) /\ More(f).gap = f.gap
    <2>1. f \in Flow /\ f.sent \in Nat /\ f.read \in Nat /\ f.read <= f.sent /\ Intact(f, p)
      BY <1>5 DEF Sound, Flow
    <2>. DEFINE m == f.sent + 1
                g == [f EXCEPT !.sent = m]
    <2>2. m \in Nat /\ f.read <= m
      BY <2>1
    <2>. HIDE DEF m
    <2>3. /\ g \in Flow /\ g.sent = m /\ g.read = f.read /\ g.got = f.got /\ g.pend = f.pend
          /\ g.gap = f.gap
      BY <2>1, <2>2 DEF Flow
    <2>. HIDE DEF g
    <2>4. Sound(g, p)
      BY <2>1, <2>2, <2>3 DEF Sound, Intact
    <2>. QED  BY <2>3, <2>4 DEF g, m
  <1>. HIDE DEF More
  <1>6. \E t : GoodSub(t) /\ subs' = [subs EXCEPT ![i] = t]
    <2>1. CASE ClientSends(i)
      <3>. DEFINE t == [s EXCEPT !.up = More(s.up)]
      <3>1. subs' = [subs EXCEPT ![i] = t]
        BY <2>1 DEF ClientSends, Peer, More
      <3>2. Sound(More(s.up), s.local) /\ More(s.up) \in Flow /\ More(s.up).gap = s.up.gap
        BY <1>4, <1>5 DEF Sound
      <3>3. /\ t \in SubState /\ t.active /\ t.up = More(s.up) /\ t.down = s.down
            /\ t.local = s.local /\ t.rvd = s.rvd /\ t.draining = s.draining
        BY <1>2, <1>3, <3>2 DEF SubState
      <3>. HIDE DEF t, s
      <3>4. GoodSub(t)
        BY <1>4, <3>2, <3>3, InUse
      <3>. QED  BY <3>1, <3>4
    <2>2. CASE LocalSends(i)
      <3>. DEFINE t == [s EXCEPT !.down = More(s.down)]
      <3>1. subs' = [subs EXCEPT ![i] = t]
        BY <2>2 DEF LocalSends, Peer, More
      <3>2. Sound(More(s.down), s.rvd) /\ More(s.down) \in Flow /\ More(s.down).gap = s.down.gap
        BY <1>4, <1>5 DEF Sound
      <3>3. /\ t \in SubState /\ t.active /\ t.down = More(s.down) /\ t.up = s.up
            /\ t.local = s.local /\ t.rvd = s.rvd /\ t.draining = s.draining
        BY <1>2, <1>3, <3>2 DEF SubState
      <3>. HIDE DEF t, s
      <3>4. GoodSub(t)
        BY <1>4, <3>2, <3>3, InUse
      <3>. QED  BY <3>1, <3>4
    <2>3. CASE RvdCloses(i, how)
      <3>. DEFINE t == [s EXCEPT !.rvd = how]
      <3>1. subs' = [subs EXCEPT ![i] = t] /\ s.rvd = "open"
        BY <2>3 DEF RvdCloses, Peer
      <3>2. /\ t \in SubState /\ t.active /\ t.down = s.down /\ t.up = s.up
            /\ t.local = s.local /\ t.rvd = how /\ t.draining = s.draining
        BY <1>2, <1>3 DEF SubState, Side
      <3>3. Sound(s.down, how)
        BY <1>4, <3>1 DEF Sound, Intact
      <3>. HIDE DEF t, s
      <3>4. GoodSub(t)
        BY <1>4, <3>2, <3>3, InUse
      <3>. QED  BY <3>1, <3>4
    <2>4. CASE LocalCloses(i, how)
      <3>. DEFINE t == [s EXCEPT !.local = how]
      <3>1. subs' = [subs EXCEPT ![i] = t] /\ s.local = "open"
        BY <2>4 DEF LocalCloses, Peer
      <3>2. /\ t \in SubState /\ t.active /\ t.down = s.down /\ t.up = s.up
            /\ t.local = how /\ t.rvd = s.rvd /\ t.draining = s.draining
        BY <1>2, <1>3 DEF SubState, Side
      <3>3. Sound(s.up, how)
        BY <1>4, <3>1 DEF Sound, Intact
      <3>. HIDE DEF t, s
      <3>4. GoodSub(t)
        BY <1>4, <3>2, <3>3, InUse
      <3>. QED  BY <3>1, <3>4
    <2>. QED  BY <2>1, <2>2, <2>3, <2>4
  <1>7. UNCHANGED <<pc, state, run, ctrl, inbox, budget, at, count, lost, idle>>
    BY DEF ClientSends, LocalSends, RvdCloses, LocalCloses, Peer
  <1>8. GoodSubs(subs')
    <2>1. PICK t : GoodSub(t) /\ subs' = [subs EXCEPT ![i] = t]
      BY <1>6
    <2>2. t \in SubState /\ subs \in [Sub -> SubState]
      BY <1>1, <2>1 DEF GoodSub, GoodSubs
    <2>3. subs' \in [Sub -> SubState] /\ \A j \in Sub : subs'[j] = IF j = i THEN t ELSE subs[j]
      BY <2>1, <2>2
    <2>. QED  BY <1>1, <2>1, <2>3 DEF GoodSubs
  <1>. QED  BY <1>1, <1>7, <1>8 DEF TypeOfTheRest

-----------------------------------------------------------------------------
(* The theorems *)

\* Every step keeps the invariant.
LEMMA StepKeeps == ASSUME IInv, [Next]_vars PROVE IInv'
  <1>1. CASE UNCHANGED vars
    <2>1. TypeOfTheRest /\ GoodSubs(subs)
      BY IInvIs
    <2>2. TypeOfTheRest' /\ GoodSubs(subs')
      BY <1>1, <2>1 DEF vars, TypeOfTheRest
    <2>. QED  BY <2>2, IInvNextIs
  <1>2. ASSUME NEW b \in BOOLEAN,
               Enter(b) \/ ConnectControl(b) \/ Authenticate(b) \/ CleanUp \/ RelayStop
                 \/ ControlCloses
        PROVE  IInv'
    BY <1>2, StartAndEnd
  <1>3. CASE ReadControl \/ \E m \in Message : ClientAsks(m)
    BY <1>3, ControlSteps
  <1>4. CASE ServeSub
    BY <1>4, ServeSubKeeps
  <1>5. ASSUME NEW time \in BOOLEAN, AfterSubs(time) PROVE IInv'
    BY <1>5, AfterSubsKeeps
  <1>6. ASSUME NEW i \in Sub, NEW how \in {"fin", "reset"},
               ClientSends(i) \/ LocalSends(i) \/ RvdCloses(i, how) \/ LocalCloses(i, how)
        PROVE  IInv'
    BY <1>6, PeerSteps
  <1>. QED  BY <1>1, <1>2, <1>3, <1>4, <1>5, <1>6 DEF Next, Task

\* The invariant holds throughout, and with it the types.
THEOREM Invariance == Spec => []IInv
  <1>1. IInv /\ [Next]_vars => IInv'
    BY StepKeeps
  <1>. QED  BY <1>1, StartIsGood, PTL DEF Spec

\* Whatever the sockets take at a time, and whoever was in the slot before, the
\* local service and the client get over a sub-connection what the other sent,
\* from the first byte on and in order (pending_local, pending_rvd and
\* _close_relay_sub of the relay task).
THEOREM StreamsAreIntact == Spec => []StreamIsIntact
  <1>1. IInv => StreamIsIntact
    BY DEF IInv
  <1>. QED  BY <1>1, Invariance, PTL

\* When the loop decides whether it is done, relay->active_sessions is the number
\* of sub-connections there are.
CountIsCurrent == pc = "after" => count = Cardinality(Active(subs))

LEMMA CountStaysCurrent == ASSUME CountIsCurrent, [Next]_vars PROVE CountIsCurrent'
  <1>. SUFFICES ASSUME pc' = "after" PROVE count' = Cardinality(Active(subs'))
    BY DEF CountIsCurrent
  <1>1. CASE ServeSub
    BY <1>1 DEF ServeSub, UpdateActiveSessionCount
  <1>2. ASSUME NEW m \in Message, ClientAsks(m) PROVE count' = Cardinality(Active(subs'))
    BY <1>2 DEF ClientAsks, CountIsCurrent
  <1>3. CASE UNCHANGED vars
    BY <1>3 DEF vars, CountIsCurrent
  <1>4. ~CleanUp /\ ~RelayStop /\ ~ControlCloses /\ ~ReadControl
    BY DEF CleanUp, RelayStop, ControlCloses, ReadControl
  <1>5. ASSUME NEW b \in BOOLEAN
        PROVE  ~Enter(b) /\ ~ConnectControl(b) /\ ~Authenticate(b) /\ ~AfterSubs(b)
    BY DEF Enter, ConnectControl, Authenticate, AfterSubs, LoopTest
  <1>6. ASSUME NEW i \in Sub, NEW how \in {"fin", "reset"}
        PROVE  ~ClientSends(i) /\ ~LocalSends(i) /\ ~RvdCloses(i, how) /\ ~LocalCloses(i, how)
    BY DEF ClientSends, LocalSends, RvdCloses, LocalCloses, Peer
  <1>. QED  BY <1>1, <1>2, <1>3, <1>4, <1>5, <1>6 DEF Next, Task

\* A set of slots of which none is counted is empty.
LEMMA NoneIsNone == ASSUME NEW s, Cardinality(Active(s)) = 0 PROVE Active(s) = {}
  <1>1. MaxSubs \in Int /\ 1 \in Int
    BY RelayAssumption
  <1>2. IsFiniteSet(Sub)
    BY <1>1, FS_Interval DEF Sub
  <1>3. Active(s) \subseteq Sub
    BY DEF Active
  <1>. QED  BY <1>2, <1>3, FS_Subset, FS_EmptySet

\* The loop ends on its own account only without sub-connections, or when the
\* control connection has been gone for its cap (noports_relay.cpp's breaks after
\* the subs, which go by relay->active_sessions).
THEOREM NoSubIsEverAbandoned == Spec => NoSubIsAbandoned
  <1>1. Init => CountIsCurrent
    BY DEF Init, CountIsCurrent
  <1>2. ASSUME CountIsCurrent, [Next]_vars, pc = "after", pc' = "cleanup", run
        PROVE  Active(subs) = {} \/ lost' > LostCap
    <2>1. ASSUME NEW time \in BOOLEAN, AfterSubs(time) PROVE Active(subs) = {} \/ lost' > LostCap
      <3>. DEFINE l == IF lost = -1 /\ inbox = <<>> /\ ctrl = "gone" THEN 0 ELSE lost
      <3>1. GivesUp(l) /\ lost' = l
        BY <1>2, <2>1 DEF AfterSubs, LoopTest
      <3>. HIDE DEF l
      <3>2. count = 0 \/ lost' > LostCap
        BY <3>1 DEF GivesUp
      <3>. QED  BY <1>2, <3>2, NoneIsNone DEF CountIsCurrent
    <2>2. \E time \in BOOLEAN : AfterSubs(time)
      <3>1. ~UNCHANGED vars
        BY <1>2 DEF vars
      <3>2. ~CleanUp /\ ~RelayStop /\ ~ControlCloses /\ ~ReadControl /\ ~ServeSub
        BY <1>2 DEF CleanUp, RelayStop, ControlCloses, ReadControl, ServeSub
      <3>3. ASSUME NEW b \in BOOLEAN PROVE ~Enter(b) /\ ~ConnectControl(b) /\ ~Authenticate(b)
        BY <1>2 DEF Enter, ConnectControl, Authenticate
      <3>4. ASSUME NEW m \in Message PROVE ~ClientAsks(m)
        BY <1>2 DEF ClientAsks
      <3>5. ASSUME NEW i \in Sub, NEW how \in {"fin", "reset"}
            PROVE  ~ClientSends(i) /\ ~LocalSends(i) /\ ~RvdCloses(i, how) /\ ~LocalCloses(i, how)
        BY <1>2 DEF ClientSends, LocalSends, RvdCloses, LocalCloses, Peer
      <3>. QED  BY <1>2, <3>1, <3>2, <3>3, <3>4, <3>5 DEF Next, Task
    <2>. QED  BY <2>1, <2>2
  <1>3. CountIsCurrent /\ [Next]_vars => CountIsCurrent'
    BY CountStaysCurrent
  <1>4. CountIsCurrent /\ [Next]_vars
          => [pc = "after" /\ pc' = "cleanup" /\ run => Active(subs) = {} \/ lost' > LostCap]_vars
    BY <1>2
  <1>. QED  BY <1>1, <1>3, <1>4, PTL DEF Spec, NoSubIsAbandoned
=============================================================================
