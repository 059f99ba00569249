-------------------------- MODULE ErrRateZoneProofs --------------------------
(* Proofs about ErrRateZone, for every value of its constants. *)
EXTENDS ErrRateZone, TLAPS, SequenceTheorems, FiniteSetTheorems

-----------------------------------------------------------------------------
(* The sequence operators the queue is built with. *)

\* A subsequence lists the elements of its range.
LEMMA SliceProps ==
  ASSUME NEW S, NEW q \in Seq(S), NEW m \in Int, NEW n \in Int,
         1 <= m, n <= Len(q), m <= n + 1
  PROVE  /\ SubSeq(q, m, n) \in Seq(S)
         /\ Len(SubSeq(q, m, n)) = n - m + 1
         /\ \A i \in 1 .. n - m + 1 : SubSeq(q, m, n)[i] = q[m + i - 1]
<1>1. Len(q) \in Nat
  BY LenProperties
<1>2. \A i \in 1 .. Len(q) : q[i] \in S
  BY ElementOfSeq
<1>3. \A i \in m .. n : q[i] \in S
  BY <1>1, <1>2
<1>4. /\ SubSeq(q, m, n) \in Seq(S)
      /\ Len(SubSeq(q, m, n)) = IF m <= n THEN n - m + 1 ELSE 0
      /\ \A i \in 1 .. n - m + 1 : SubSeq(q, m, n)[i] = q[m + i - 1]
  BY <1>3, SubSeqProperties
<1> QED
  BY <1>4

\* Dropping the last element leaves a prefix.
LEMMA FrontProps ==
  ASSUME NEW S, NEW q \in Seq(S), q # << >>
  PROVE  /\ Len(q) \in Nat \ {0}
         /\ Front(q) \in Seq(S)
         /\ Len(Front(q)) = Len(q) - 1
         /\ Last(q) = q[Len(q)]
         /\ \A i \in 1 .. Len(q) - 1 : Front(q)[i] = q[i]
<1>1. Len(q) \in Nat /\ Len(q) > 0
  BY EmptySeq, LenProperties
<1> DEFINE n == Len(q) - 1
<1>2. n \in Int /\ n <= Len(q) /\ 1 <= n + 1
  BY <1>1
<1>3. Front(q) = SubSeq(q, 1, n)
  BY DEF Front
<1> HIDE DEF n
<1>4. /\ SubSeq(q, 1, n) \in Seq(S)
      /\ Len(SubSeq(q, 1, n)) = n - 1 + 1
      /\ \A i \in 1 .. n - 1 + 1 : SubSeq(q, 1, n)[i] = q[1 + i - 1]
  BY <1>2, SliceProps
<1> QED
  BY <1>1, <1>3, <1>4 DEF n, Last

\* Removing position n closes the gap.
LEMMA RemoveAtProps ==
  ASSUME NEW S, NEW q \in Seq(S), NEW n \in 1 .. Len(q)
  PROVE  /\ RemoveAt(q, n) \in Seq(S)
         /\ Len(RemoveAt(q, n)) = Len(q) - 1
         /\ \A i \in 1 .. Len(q) - 1 :
              RemoveAt(q, n)[i] = IF i < n THEN q[i] ELSE q[i + 1]
<1> DEFINE a == SubSeq(q, 1, n - 1)
           b == SubSeq(q, n + 1, Len(q))
<1>1. Len(q) \in Nat
  BY LenProperties
<1>2. a \in Seq(S) /\ Len(a) = n - 1 /\ \A i \in 1 .. n - 1 : a[i] = q[i]
  <2>1. n - 1 \in Int /\ n - 1 <= Len(q)
    BY <1>1
  <2> QED
    BY <1>1, <2>1, SliceProps
<1>3. b \in Seq(S) /\ Len(b) = Len(q) - n
      /\ \A i \in 1 .. Len(q) - n : b[i] = q[n + i]
  <2>1. n + 1 \in Int /\ Len(q) \in Int /\ n + 1 <= Len(q) + 1 /\ 1 <= n + 1
    BY <1>1
  <2>2. /\ b \in Seq(S)
        /\ Len(b) = Len(q) - (n + 1) + 1
        /\ \A i \in 1 .. Len(q) - (n + 1) + 1 : b[i] = q[(n + 1) + i - 1]
    BY <2>1, SliceProps
  <2> HIDE DEF b
  <2> QED
    BY <1>1, <2>2
<1> HIDE DEF a, b
<1>4. /\ a \o b \in Seq(S)
      /\ Len(a \o b) = Len(a) + Len(b)
      /\ \A i \in 1 .. Len(a) + Len(b) :
           (a \o b)[i] = IF i <= Len(a) THEN a[i] ELSE b[i - Len(a)]
  BY <1>2, <1>3, ConcatProperties
<1>5. RemoveAt(q, n) = a \o b
  BY DEF RemoveAt, a, b
<1>6. Len(a) + Len(b) = Len(q) - 1
  BY <1>1, <1>2, <1>3
<1>7. ASSUME NEW i \in 1 .. Len(q) - 1
      PROVE  (a \o b)[i] = IF i < n THEN q[i] ELSE q[i + 1]
  <2>1. (a \o b)[i] = IF i <= n - 1 THEN a[i] ELSE b[i - (n - 1)]
    BY <1>2, <1>4, <1>6
  <2>2. CASE i < n
    BY <1>1, <1>2, <2>1, <2>2
  <2>3. CASE ~(i < n)
    <3>1. i - (n - 1) \in 1 .. Len(q) - n
      BY <1>1, <2>3
    <3>2. b[i - (n - 1)] = q[n + (i - (n - 1))]
      BY <1>3, <3>1
    <3> QED
      BY <1>1, <2>1, <2>3, <3>2
  <2> QED
    BY <2>2, <2>3
<1> QED
  BY <1>1, <1>4, <1>5, <1>6, <1>7

\* Putting an element in front shifts the others by one.
LEMMA ConsProps ==
  ASSUME NEW S, NEW q \in Seq(S), NEW k \in S
  PROVE  /\ Cons(k, q) \in Seq(S)
         /\ Len(Cons(k, q)) = Len(q) + 1
         /\ Cons(k, q)[1] = k
         /\ \A i \in 2 .. Len(q) + 1 : Cons(k, q)[i] = q[i - 1]
<1>1. Len(q) \in Nat
  BY LenProperties
<1>2. <<k>> \in Seq(S) /\ Len(<<k>>) = 1 /\ <<k>>[1] = k
  OBVIOUS
<1> QED
  BY <1>1, <1>2, ConcatProperties DEF Cons

-----------------------------------------------------------------------------
(* What the operations on one node preserve. *)

\* A ring that is not full has a free cell.
LEMMA FreeCellExists ==
  ASSUME NEW evs \in SUBSET Event, IsFiniteSet(evs),
         Cardinality(evs) < Threshold
  PROVE  FreeCell(evs) \in 1 .. Threshold
<1> USE ZoneAssumption
<1>1. SUFFICES ASSUME \A c \in 1 .. Threshold : \E e \in evs : e.cell = c
               PROVE  FALSE
  BY DEF FreeCell
<1> DEFINE f == [c \in 1 .. Threshold |-> CHOOSE e \in evs : e.cell = c]
<1>2. \A c \in 1 .. Threshold : f[c] \in evs /\ f[c].cell = c
  BY <1>1
<1>3. f \in [1 .. Threshold -> evs]
  BY <1>2
<1>4. IsFiniteSet(1 .. Threshold) /\ Cardinality(1 .. Threshold) = Threshold
  BY FS_Interval
<1> HIDE DEF f
<1>5. \E x, y \in 1 .. Threshold : x # y /\ f[x] = f[y]
  BY <1>3, <1>4, FS_PigeonHole
<1> QED
  BY <1>2, <1>5

\* Pruning keeps a finite set of the same events.
LEMMA PruneProps ==
  ASSUME NEW evs \in SUBSET Event, IsFiniteSet(evs), NEW t
  PROVE  /\ Prune(evs, t) \in SUBSET evs
         /\ IsFiniteSet(Prune(evs, t))
         /\ Cardinality(Prune(evs, t)) <= Cardinality(evs)
         /\ Cardinality(Prune(evs, t)) \in Nat
         /\ Cardinality(evs) \in Nat
<1>1. Prune(evs, t) \in SUBSET evs
  BY DEF Prune
<1> QED
  BY <1>1, FS_Subset, FS_CardinalityType

\* A worker's time: behind the clock, by no more than MaxLag.
WorkerTime(t) == t \in Nat /\ t <= clock /\ clock - t <= MaxLag

\* The empty ring.
LEMMA EmptyRing ==
  {} \in SUBSET Event /\ IsFiniteSet({}) /\ Cardinality({}) < Threshold
BY ZoneAssumption, FS_EmptySet

\* A sound node used at t, its block forgotten or its window pruned, is sound.
LEMMA LapseProps ==
  ASSUME NEW n \in Node, clock \in Nat, SoundNode(n, clock),
         NEW t, WorkerTime(t)
  PROVE  LET m == Lapse([n EXCEPT !.last_seen = t], t)
         IN  /\ m \in Node
             /\ SoundNode(m, clock)
             /\ m.last_seen = t
             /\ m.blocked_until = 0
             /\ m.events \subseteq n.events
             /\ n.blocked_until = 0 => m.events = Prune(n.events, t)
<1> USE ZoneAssumption
<1> DEFINE m == Lapse([n EXCEPT !.last_seen = t], t)
<1>0. t \in Nat /\ t <= clock /\ clock - t <= MaxLag
  BY DEF WorkerTime
<1>1. n.last_seen \in Nat /\ n.blocked_until \in Nat /\ n.events \in SUBSET Event
  BY DEF Node
<1>2. /\ \A e \in n.events : e.ts \in Nat /\ e.ts <= clock
      /\ n.blocked_until # 0 => n.events = {}
      /\ IsFiniteSet(n.events) /\ Cardinality(n.events) < Threshold
  BY <1>1 DEF SoundNode, Event
<1>3. CASE n.blocked_until = 0
  <2>1. m = [last_seen |-> t, blocked_until |-> 0,
             events |-> Prune(n.events, t)]
    BY <1>1, <1>3 DEF Lapse, Node
  <2>2. /\ Prune(n.events, t) \in SUBSET n.events
        /\ IsFiniteSet(Prune(n.events, t))
        /\ Cardinality(Prune(n.events, t)) < Threshold
    BY <1>1, <1>2, PruneProps
  <2> QED
    BY <1>0, <1>1, <1>2, <2>1, <2>2, <1>3 DEF Node, SoundNode
<1>4. CASE n.blocked_until # 0
  <2>1. m = [last_seen |-> t, blocked_until |-> 0, events |-> {}]
    BY <1>1, <1>4 DEF Lapse, Node
  <2> QED
    BY <1>0, <1>4, <2>1, EmptyRing DEF Node, SoundNode
<1> QED
  BY <1>3, <1>4

\* What a lookup writes back is sound.
LEMMA LookedProps ==
  ASSUME NEW n \in Node, clock \in Nat, SoundNode(n, clock),
         NEW t, WorkerTime(t)
  PROVE  /\ Looked(n, t) \in Node
         /\ SoundNode(Looked(n, t), clock)
         /\ Looked(n, t).last_seen = t
         /\ n.blocked_until > t => Looked(n, t).blocked_until = n.blocked_until
         /\ n.blocked_until = 0 => Looked(n, t).events = Prune(n.events, t)
<1> USE ZoneAssumption
<1>0. t \in Nat /\ t <= clock /\ clock - t <= MaxLag
  BY DEF WorkerTime
<1>1. n.last_seen \in Nat /\ n.blocked_until \in Nat /\ n.events \in SUBSET Event
  BY DEF Node
<1>2. CASE n.blocked_until > t
  <2>1. Looked(n, t) = [last_seen |-> t, blocked_until |-> n.blocked_until,
                        events |-> n.events]
    BY <1>1, <1>2 DEF Looked, Node
  <2>2. n.events = {}
    BY <1>0, <1>1, <1>2 DEF SoundNode
  <2> QED
    BY <1>0, <1>1, <1>2, <2>1, <2>2, EmptyRing DEF Node, SoundNode
<1>3. CASE ~(n.blocked_until > t)
  <2>1. Looked(n, t) = Lapse([n EXCEPT !.last_seen = t], t)
    BY <1>3 DEF Looked
  <2> QED
    BY <1>3, <2>1, LapseProps
<1> QED
  BY <1>2, <1>3

\* What a soft-ban writes back is sound.
LEMMA BannedProps ==
  ASSUME NEW n, clock \in Nat, NEW t, WorkerTime(t), NEW ttl \in Nat \ {0}
  PROVE  /\ Banned(n, t, ttl) \in Node
         /\ SoundNode(Banned(n, t, ttl), clock)
         /\ Banned(n, t, ttl).last_seen = t
         /\ Banned(n, t, ttl).blocked_until # 0
<1> USE ZoneAssumption
<1>0. t \in Nat /\ t <= clock /\ clock - t <= MaxLag
  BY DEF WorkerTime
<1> QED
  BY <1>0, EmptyRing DEF Banned, Node, SoundNode

\* What recording an event writes back is sound, it leaves a running block
\* alone, and an event it drops is outside the window or has caused a block.
LEMMA RecordedProps ==
  ASSUME NEW n \in Node, clock \in Nat, SoundNode(n, clock),
         NEW t, WorkerTime(t)
  PROVE  /\ Recorded(n, t) \in Node
         /\ SoundNode(Recorded(n, t), clock)
         /\ Recorded(n, t).last_seen = t
         /\ n.blocked_until > t => Recorded(n, t).blocked_until = n.blocked_until
         /\ \/ Recorded(n, t).blocked_until # 0
            \/ n.blocked_until # 0
            \/ Prune(n.events, t) \subseteq Recorded(n, t).events
<1> USE ZoneAssumption
<1> DEFINE seen == [n EXCEPT !.last_seen = t]
           open == Lapse(seen, t)
           new  == [cell |-> FreeCell(open.events), ts |-> t]
           evs  == open.events \cup {new}
<1>0. t \in Nat /\ t <= clock /\ clock - t <= MaxLag
  BY DEF WorkerTime
<1>1. n.last_seen \in Nat /\ n.blocked_until \in Nat /\ n.events \in SUBSET Event
  BY DEF Node
<1>2. CASE n.blocked_until > t
  <2>1. Recorded(n, t) = [last_seen |-> t, blocked_until |-> n.blocked_until,
                          events |-> n.events]
    <3>1. Recorded(n, t) = seen
      BY <1>0, <1>1, <1>2 DEF Recorded
    <3> QED
      BY <3>1 DEF Node
  <2>2. n.events = {}
    BY <1>0, <1>1, <1>2 DEF SoundNode
  <2> QED
    BY <1>0, <1>1, <1>2, <2>1, <2>2, EmptyRing DEF Node, SoundNode
<1>3. CASE ~(n.blocked_until > t)
  <2>1. /\ open \in Node /\ SoundNode(open, clock) /\ open.last_seen = t
        /\ open.blocked_until = 0
        /\ n.blocked_until = 0 => open.events = Prune(n.events, t)
    BY LapseProps
  <2>2. Recorded(n, t) = IF Cardinality(evs) >= Threshold
                         THEN Banned(open, t, Block)
                         ELSE [open EXCEPT !.events = evs]
    BY <1>0, <1>1, <1>3 DEF Recorded
  <2> HIDE DEF open
  <2>3. /\ open = [last_seen |-> t, blocked_until |-> 0, events |-> open.events]
        /\ open.events \in SUBSET Event
    BY <2>1 DEF Node
  <2>4. FreeCell(open.events) \in 1 .. Threshold
    BY <2>1, <2>3, FreeCellExists DEF SoundNode
  <2>5. new \in Event
    BY <1>0, <2>4 DEF Event
  <2>6. evs \in SUBSET Event /\ IsFiniteSet(evs) /\ Cardinality(evs) \in Nat
    <3>1. evs \in SUBSET Event
      BY <2>3, <2>5
    <3>2. IsFiniteSet(open.events)
      BY <2>1 DEF SoundNode
    <3>3. IsFiniteSet(evs)
      BY <3>2, FS_AddElement
    <3> QED
      BY <3>1, <3>3, FS_CardinalityType
  <2>7. CASE Cardinality(evs) >= Threshold
    <3>1. Recorded(n, t) = [last_seen |-> t, blocked_until |-> t + Block,
                            events |-> {}]
      BY <2>2, <2>7 DEF Banned
    <3> QED
      BY <1>0, <1>3, <3>1, EmptyRing DEF Node, SoundNode
  <2>8. CASE ~(Cardinality(evs) >= Threshold)
    <3>1. Recorded(n, t) = [last_seen |-> t, blocked_until |-> 0,
                            events |-> evs]
      BY <2>2, <2>3, <2>8
    <3>2. \A e \in evs : e.ts <= clock /\ e.ts <= t + MaxLag
      <4>1. \A e \in open.events : e.ts <= clock /\ e.ts <= t + MaxLag
        BY <2>1 DEF SoundNode
      <4>2. new.ts = t
        OBVIOUS
      <4> QED
        BY <1>0, <4>1, <4>2
    <3>3. Cardinality(evs) < Threshold
      BY <2>6, <2>8
    <3> HIDE DEF evs
    <3>4. Recorded(n, t) \in Node /\ SoundNode(Recorded(n, t), clock)
      BY <1>0, <2>6, <3>1, <3>2, <3>3 DEF Node, SoundNode
    <3>5. n.blocked_until = 0 => Prune(n.events, t) \subseteq evs
      BY <2>1 DEF evs
    <3> QED
      BY <1>3, <3>1, <3>4, <3>5
  <2> QED
    BY <2>7, <2>8
<1> QED
  BY <1>2, <1>3

\* A newly created node is sound.
LEMMA FreshProps ==
  ASSUME clock \in Nat, NEW t, WorkerTime(t)
  PROVE  /\ Fresh(t) \in Node
         /\ SoundNode(Fresh(t), clock)
BY ZoneAssumption, EmptyRing DEF Fresh, Node, SoundNode, WorkerTime

-----------------------------------------------------------------------------
(* What the operations on the queue preserve. *)

\* q is the queue with some expirable keys cut off its tail.
CutAt(q, t) ==
  /\ q \in Seq(Keys)
  /\ Len(q) \in Nat /\ Len(q) <= Len(queue)
  /\ \A i \in 1 .. Len(q) : q[i] = queue[i]
  /\ \A i \in Len(q) + 1 .. Len(queue) : Expirable(queue[i], t)

\* One look at the tail keeps the queue a cut of the original one, and what it
\* drops was expirable.
LEMMA ExpireTailProps ==
  ASSUME NEW q, NEW t, CutAt(q, t), Len(queue) \in Nat
  PROVE  CutAt(ExpireTail(q, t), t)
<1>1. CASE q # << >> /\ Expirable(Last(q), t)
  <2>1. ExpireTail(q, t) = Front(q)
    BY <1>1 DEF ExpireTail
  <2>2. /\ Len(q) \in Nat \ {0}
        /\ Front(q) \in Seq(Keys)
        /\ Len(Front(q)) = Len(q) - 1
        /\ Last(q) = q[Len(q)]
        /\ \A i \in 1 .. Len(q) - 1 : Front(q)[i] = q[i]
    BY <1>1, FrontProps DEF CutAt
  <2>3. Expirable(queue[Len(q)], t)
    BY <1>1, <2>2 DEF CutAt
  <2>4. \A i \in Len(q) .. Len(queue) : Expirable(queue[i], t)
    BY <2>2, <2>3 DEF CutAt
  <2> QED
    BY <2>1, <2>2, <2>4 DEF CutAt
<1>2. CASE ~(q # << >> /\ Expirable(Last(q), t))
  BY <1>2 DEF ExpireTail
<1> QED
  BY <1>1, <1>2

\* sentinel_shm_expire only cuts expirable keys off the tail.
LEMMA ExpireProps ==
  ASSUME queue \in Seq(Keys), NEW t
  PROVE  CutAt(Expire(t), t)
<1>1. Len(queue) \in Nat
  BY LenProperties
<1>2. CutAt(queue, t)
  BY <1>1 DEF CutAt
<1> QED
  BY <1>1, <1>2, ExpireTailProps DEF Expire

\* Touching moves one key to the head and keeps the order of the others.
LEMMA TouchProps ==
  ASSUME NEW q \in Seq(Keys), IsInjective(q), NEW k \in ToSet(q)
  PROVE  /\ Touch(q, k) \in Seq(Keys)
         /\ Len(Touch(q, k)) = Len(q)
         /\ Touch(q, k)[1] = k
         /\ \A i \in 2 .. Len(q) : Touch(q, k)[i] # k
         /\ \A i, j \in 2 .. Len(q) : i < j =>
              \E x, y \in 1 .. Len(q) :
                x < y /\ q[x] = Touch(q, k)[i] /\ q[y] = Touch(q, k)[j]
         /\ ToSet(Touch(q, k)) = ToSet(q)
         /\ IsInjective(Touch(q, k))
<1> DEFINE n == CHOOSE i \in DOMAIN q : q[i] = k
           r == RemoveAt(q, n)
           T == Touch(q, k)
<1>1. Len(q) \in Nat /\ DOMAIN q = 1 .. Len(q) /\ \A i \in 1 .. Len(q) : q[i] \in Keys
  BY LenProperties, ElementOfSeq
<1>2. n \in 1 .. Len(q) /\ q[n] = k
  BY <1>1 DEF ToSet
<1> HIDE DEF n
<1>3. /\ r \in Seq(Keys)
      /\ Len(r) = Len(q) - 1
      /\ \A i \in 1 .. Len(q) - 1 : r[i] = IF i < n THEN q[i] ELSE q[i + 1]
  BY <1>2, RemoveAtProps
<1>4. T = Cons(k, r)
  BY DEF Touch, n
<1> HIDE DEF r
<1>5. k \in Keys
  BY <1>1, <1>2
<1>6. /\ T \in Seq(Keys)
      /\ Len(T) = Len(r) + 1
      /\ T[1] = k
      /\ \A i \in 2 .. Len(r) + 1 : T[i] = r[i - 1]
  BY <1>3, <1>4, <1>5, ConsProps
<1> HIDE DEF T
<1>7. Len(T) = Len(q)
  BY <1>1, <1>3, <1>6
<1>8. \A i \in 2 .. Len(q) : T[i] = IF i <= n THEN q[i - 1] ELSE q[i]
  <2> TAKE i \in 2 .. Len(q)
  <2>1. T[i] = r[i - 1] /\ i - 1 \in 1 .. Len(q) - 1
    BY <1>1, <1>3, <1>6
  <2>2. r[i - 1] = IF i - 1 < n THEN q[i - 1] ELSE q[(i - 1) + 1]
    BY <1>3, <2>1
  <2> QED
    BY <1>1, <1>2, <2>1, <2>2
<1>9. \A x, y \in 1 .. Len(q) : q[x] = q[y] => x = y
  BY <1>1 DEF IsInjective
<1>10. \A i \in 2 .. Len(q) : T[i] # k
  BY <1>1, <1>2, <1>8, <1>9
<1>11. \A i, j \in 2 .. Len(q) : i < j =>
         \E x, y \in 1 .. Len(q) : x < y /\ q[x] = T[i] /\ q[y] = T[j]
  <2> TAKE i, j \in 2 .. Len(q)
  <2> HAVE i < j
  <2> DEFINE x == IF i <= n THEN i - 1 ELSE i
             y == IF j <= n THEN j - 1 ELSE j
  <2>1. x \in 1 .. Len(q) /\ y \in 1 .. Len(q) /\ x < y
    BY <1>1, <1>2
  <2>2. q[x] = T[i] /\ q[y] = T[j]
    BY <1>8
  <2> QED
    BY <2>1, <2>2
<1>12. DOMAIN T = 1 .. Len(q)
  BY <1>6, <1>7, LenProperties
<1>13. ToSet(T) = ToSet(q)
  <2>1. ASSUME NEW i \in 1 .. Len(q)
        PROVE  T[i] \in ToSet(q)
    <3>1. CASE i = 1
      BY <1>6, <3>1
    <3>2. CASE i # 1
      <4>1. i \in 2 .. Len(q)
        BY <1>1, <3>2
      <4>2. T[i] = IF i <= n THEN q[i - 1] ELSE q[i]
        BY <1>8, <4>1
      <4>3. i - 1 \in 1 .. Len(q)
        BY <1>1, <4>1
      <4> QED
        BY <1>1, <4>2, <4>3 DEF ToSet
    <3> QED
      BY <3>1, <3>2
  <2>2. ASSUME NEW i \in 1 .. Len(q)
        PROVE  q[i] \in ToSet(T)
    <3>1. CASE i = n
      <4>1. 1 \in 1 .. Len(q)
        BY <1>1, <1>2
      <4> QED
        BY <1>2, <1>6, <1>12, <3>1, <4>1 DEF ToSet
    <3>2. CASE i < n
      <4>1. i + 1 \in 2 .. Len(q) /\ i + 1 <= n /\ (i + 1) - 1 = i
        BY <1>1, <1>2, <3>2
      <4>2. T[i + 1] = q[i]
        BY <1>8, <4>1
      <4>3. i + 1 \in 1 .. Len(q)
        BY <1>1, <4>1
      <4> QED
        BY <1>12, <4>2, <4>3 DEF ToSet
    <3>3. CASE i > n
      <4>1. i \in 2 .. Len(q) /\ ~(i <= n)
        BY <1>1, <1>2, <3>3
      <4>2. T[i] = q[i]
        BY <1>8, <4>1
      <4> QED
        BY <1>12, <4>2 DEF ToSet
    <3> QED
      BY <1>1, <1>2, <3>1, <3>2, <3>3
  <2> QED
    BY <1>1, <1>12, <2>1, <2>2 DEF ToSet
<1>14. IsInjective(T)
  <2>1. ASSUME NEW i \in 1 .. Len(q), NEW j \in 1 .. Len(q), i < j
        PROVE  T[i] # T[j]
    <3>1. CASE i = 1
      BY <1>1, <1>6, <1>10, <2>1, <3>1
    <3>2. CASE i # 1
      BY <1>1, <1>9, <1>11, <2>1, <3>2
    <3> QED
      BY <3>1, <3>2
  <2> QED
    BY <1>1, <1>12, <2>1 DEF IsInjective
<1> QED
  BY <1>6, <1>7, <1>10, <1>11, <1>13, <1>14 DEF T

\* A new key at the head keeps the order of the others.
LEMMA PushProps ==
  ASSUME NEW q \in Seq(Keys), IsInjective(q), NEW k \in Keys, k \notin ToSet(q)
  PROVE  /\ Cons(k, q) \in Seq(Keys)
         /\ Len(Cons(k, q)) = Len(q) + 1
         /\ Cons(k, q)[1] = k
         /\ \A i \in 2 .. Len(q) + 1 : Cons(k, q)[i] # k
         /\ \A i, j \in 2 .. Len(q) + 1 : i < j =>
              \E x, y \in 1 .. Len(q) :
                x < y /\ q[x] = Cons(k, q)[i] /\ q[y] = Cons(k, q)[j]
         /\ ToSet(Cons(k, q)) = {k} \cup ToSet(q)
         /\ IsInjective(Cons(k, q))
<1> DEFINE T == Cons(k, q)
<1>1. Len(q) \in Nat /\ DOMAIN q = 1 .. Len(q)
  BY LenProperties
<1>2. /\ T \in Seq(Keys)
      /\ Len(T) = Len(q) + 1
      /\ T[1] = k
      /\ \A i \in 2 .. Len(q) + 1 : T[i] = q[i - 1]
  BY ConsProps
<1>3. DOMAIN T = 1 .. Len(q) + 1
  BY <1>2, LenProperties
<1> HIDE DEF T
<1>4. \A i \in 1 .. Len(q) : q[i] \in ToSet(q)
  BY <1>1 DEF ToSet
<1>5. \A i \in 2 .. Len(q) + 1 : i - 1 \in 1 .. Len(q)
  BY <1>1
<1>6. \A i \in 2 .. Len(q) + 1 : T[i] # k
  BY <1>2, <1>4, <1>5
<1>7. \A i, j \in 2 .. Len(q) + 1 : i < j =>
        \E x, y \in 1 .. Len(q) : x < y /\ q[x] = T[i] /\ q[y] = T[j]
  <2> TAKE i, j \in 2 .. Len(q) + 1
  <2> HAVE i < j
  <2>1. i - 1 \in 1 .. Len(q) /\ j - 1 \in 1 .. Len(q) /\ i - 1 < j - 1
    BY <1>1
  <2> QED
    BY <1>2, <2>1
<1>8. ToSet(T) = {k} \cup ToSet(q)
  <2>1. ASSUME NEW i \in 1 .. Len(q) + 1
        PROVE  T[i] \in {k} \cup ToSet(q)
    <3>1. CASE i = 1
      BY <1>2, <3>1
    <3>2. CASE i # 1
      <4>1. i \in 2 .. Len(q) + 1
        BY <1>1, <3>2
      <4> QED
        BY <1>2, <1>4, <1>5, <4>1
    <3> QED
      BY <3>1, <3>2
  <2>2. ASSUME NEW i \in 1 .. Len(q)
        PROVE  q[i] \in ToSet(T)
    <3>1. i + 1 \in 2 .. Len(q) + 1 /\ (i + 1) - 1 = i /\ i + 1 \in 1 .. Len(q) + 1
      BY <1>1
    <3>2. T[i + 1] = q[i]
      BY <1>2, <3>1
    <3> QED
      BY <1>3, <3>1, <3>2 DEF ToSet
  <2>3. k \in ToSet(T)
    <3>1. 1 \in 1 .. Len(q) + 1
      BY <1>1
    <3> QED
      BY <1>2, <1>3, <3>1 DEF ToSet
  <2> QED
    BY <1>1, <1>3, <2>1, <2>2, <2>3 DEF ToSet
<1>9. IsInjective(T)
  <2>1. \A x, y \in 1 .. Len(q) : q[x] = q[y] => x = y
    BY <1>1 DEF IsInjective
  <2>2. ASSUME NEW i \in 1 .. Len(q) + 1, NEW j \in 1 .. Len(q) + 1, i < j
        PROVE  T[i] # T[j]
    <3>1. CASE i = 1
      BY <1>1, <1>2, <1>6, <2>2, <3>1
    <3>2. CASE i # 1
      BY <1>1, <1>7, <2>1, <2>2, <3>2
    <3> QED
      BY <3>1, <3>2
  <2> QED
    BY <1>1, <1>3, <2>2 DEF IsInjective
<1> QED
  BY <1>2, <1>6, <1>7, <1>8, <1>9 DEF T

\* A cut of the queue holds keys of the table, once each, in order.
LEMMA CutProps ==
  ASSUME Inv, NEW q, NEW t, CutAt(q, t)
  PROVE  /\ IsInjective(q)
         /\ ToSet(q) \subseteq DOMAIN node
         /\ DOMAIN q = 1 .. Len(q)
         /\ Len(q) <= Capacity
         /\ \A i, j \in 1 .. Len(q) : i < j =>
              node[q[i]].last_seen >= node[q[j]].last_seen - MaxLag
         /\ \A k \in DOMAIN node : k \notin ToSet(q) => Expirable(k, t)
<1> USE ZoneAssumption
<1>1. /\ queue \in Seq(Keys) /\ Len(queue) \in Nat /\ DOMAIN queue = 1 .. Len(queue)
      /\ DOMAIN q = 1 .. Len(q)
  BY LenProperties DEF Inv, TypeOK, CutAt
<1>2. \A i \in 1 .. Len(q) : i \in 1 .. Len(queue) /\ q[i] = queue[i]
  BY <1>1 DEF CutAt
<1>3. IsInjective(q)
  BY <1>1, <1>2 DEF Inv, QueueIsTable, IsInjective
<1>4. ToSet(q) \subseteq DOMAIN node
  BY <1>1, <1>2 DEF Inv, QueueIsTable, ToSet
<1>5. Len(q) <= Capacity
  BY <1>1 DEF Inv, QueueIsTable, CutAt
<1>6. \A i, j \in 1 .. Len(q) : i < j =>
        node[q[i]].last_seen >= node[q[j]].last_seen - MaxLag
  BY <1>1, <1>2 DEF Inv, RecencyOrder
<1>7. ASSUME NEW k \in DOMAIN node, k \notin ToSet(q)
      PROVE  Expirable(k, t)
  <2>1. PICK i \in 1 .. Len(queue) : queue[i] = k
    BY <1>1, <1>7 DEF Inv, QueueIsTable, ToSet
  <2>2. i \notin 1 .. Len(q)
    BY <1>1, <1>2, <1>7, <2>1 DEF ToSet
  <2>3. i \in Len(q) + 1 .. Len(queue)
    BY <1>1, <2>2 DEF CutAt
  <2> QED
    BY <2>1, <2>3 DEF CutAt
<1> QED
  BY <1>1, <1>3, <1>4, <1>5, <1>6, <1>7

-----------------------------------------------------------------------------
(* The inductive invariant. *)

\* The empty zone satisfies the invariant.
LEMMA InitInv == Init => Inv
<1> SUFFICES ASSUME Init PROVE Inv
  OBVIOUS
<1> USE ZoneAssumption
<1>1. queue \in Seq(Keys) /\ Len(queue) = 0 /\ DOMAIN queue = {} /\ DOMAIN node = {}
  BY EmptySeq DEF Init
<1>2. ToSet(queue) = {}
  BY <1>1 DEF ToSet
<1>3. TypeOK
  BY <1>1, <1>2 DEF Init, TypeOK
<1>4. QueueIsTable
  BY <1>1, <1>2 DEF QueueIsTable, IsInjective
<1> QED
  BY <1>1, <1>3, <1>4 DEF Inv, RecencyOrder, NodesSound

\* An operation that only expires the tail preserves the invariant.
LEMMA CutStep ==
  ASSUME Inv, NEW w \in Workers,
         queue' = Expire(now[w]),
         node' = [x \in ToSet(Expire(now[w])) |-> node[x]],
         clock' = clock, now' = now
  PROVE  Inv'
<1> USE ZoneAssumption
<1> DEFINE q == Expire(now[w])
<1>1. CutAt(q, now[w])
  BY ExpireProps DEF Inv, TypeOK
<1>2. /\ IsInjective(q)
      /\ ToSet(q) \subseteq DOMAIN node
      /\ DOMAIN q = 1 .. Len(q)
      /\ Len(q) <= Capacity
      /\ \A i, j \in 1 .. Len(q) : i < j =>
           node[q[i]].last_seen >= node[q[j]].last_seen - MaxLag
  BY <1>1, CutProps
<1>3. q \in Seq(Keys)
  BY <1>1 DEF CutAt
<1>4. \A x \in DOMAIN node : node[x] \in Node /\ SoundNode(node[x], clock)
  BY DEF Inv, TypeOK, NodesSound
<1>5. node' = [x \in ToSet(q) |-> node[x]] /\ queue' = q
  OBVIOUS
<1> HIDE DEF q
<1>6. TypeOK'
  BY <1>2, <1>3, <1>4, <1>5 DEF Inv, TypeOK
<1>7. QueueIsTable'
  BY <1>2, <1>5 DEF QueueIsTable
<1>8. RecencyOrder'
  <2>1. \A i \in 1 .. Len(q) : q[i] \in ToSet(q)
    BY <1>2 DEF ToSet
  <2>2. \A i \in 1 .. Len(q) : node'[q[i]] = node[q[i]]
    BY <1>5, <2>1
  <2> QED
    BY <1>2, <1>5, <2>2 DEF RecencyOrder
<1>9. NodesSound'
  BY <1>2, <1>4, <1>5 DEF NodesSound
<1> QED
  BY <1>6, <1>7, <1>8, <1>9 DEF Inv

\* An operation that expires the tail and leaves a sound node, last seen now,
\* at the head preserves the invariant.
LEMMA HeadStep ==
  ASSUME Inv, NEW w \in Workers, NEW k \in Keys,
         NEW n \in Node, SoundNode(n, clock), n.last_seen = now[w],
         \/ k \in ToSet(Expire(now[w])) /\ queue' = Touch(Expire(now[w]), k)
         \/ /\ k \notin ToSet(Expire(now[w]))
            /\ Len(Expire(now[w])) < Capacity
            /\ queue' = Cons(k, Expire(now[w])),
         node' = [x \in {k} \cup ToSet(Expire(now[w])) |->
                    IF x = k THEN n ELSE node[x]],
         clock' = clock, now' = now
  PROVE  Inv'
<1> USE ZoneAssumption
<1> DEFINE q == Expire(now[w])
           r == queue'
<1>1. CutAt(q, now[w])
  BY ExpireProps DEF Inv, TypeOK
<1>2. /\ IsInjective(q)
      /\ ToSet(q) \subseteq DOMAIN node
      /\ DOMAIN q = 1 .. Len(q)
      /\ Len(q) <= Capacity
      /\ \A i, j \in 1 .. Len(q) : i < j =>
           node[q[i]].last_seen >= node[q[j]].last_seen - MaxLag
  BY <1>1, CutProps
<1>3. q \in Seq(Keys) /\ Len(q) \in Nat
  BY <1>1 DEF CutAt
<1>4. \A x \in DOMAIN node : node[x] \in Node /\ SoundNode(node[x], clock)
  BY DEF Inv, TypeOK, NodesSound
<1>5. node' = [x \in {k} \cup ToSet(q) |-> IF x = k THEN n ELSE node[x]]
  OBVIOUS
<1>6. \/ k \in ToSet(q) /\ r = Touch(q, k)
      \/ k \notin ToSet(q) /\ Len(q) < Capacity /\ r = Cons(k, q)
  OBVIOUS
<1> HIDE DEF q, r
<1>7. /\ r \in Seq(Keys)
      /\ Len(r) <= Capacity
      /\ ToSet(r) = {k} \cup ToSet(q)
      /\ IsInjective(r)
      /\ r[1] = k
      /\ \A i \in 2 .. Len(r) : r[i] # k
      /\ \A i, j \in 2 .. Len(r) : i < j =>
           \E x, y \in 1 .. Len(q) : x < y /\ q[x] = r[i] /\ q[y] = r[j]
  <2>1. CASE k \in ToSet(q) /\ r = Touch(q, k)
    <3>1. ToSet(q) = {k} \cup ToSet(q)
      BY <2>1
    <3>2. /\ Touch(q, k) \in Seq(Keys)
          /\ Len(Touch(q, k)) = Len(q)
          /\ Touch(q, k)[1] = k
          /\ \A i \in 2 .. Len(q) : Touch(q, k)[i] # k
          /\ \A i, j \in 2 .. Len(q) : i < j =>
               \E x, y \in 1 .. Len(q) :
                 x < y /\ q[x] = Touch(q, k)[i] /\ q[y] = Touch(q, k)[j]
          /\ ToSet(Touch(q, k)) = ToSet(q)
          /\ IsInjective(Touch(q, k))
      BY <1>2, <1>3, <2>1, TouchProps
    <3> QED
      BY <1>2, <2>1, <3>1, <3>2
  <2>2. CASE k \notin ToSet(q) /\ Len(q) < Capacity /\ r = Cons(k, q)
    <3>1. /\ Cons(k, q) \in Seq(Keys)
          /\ Len(Cons(k, q)) = Len(q) + 1
          /\ Cons(k, q)[1] = k
          /\ \A i \in 2 .. Len(q) + 1 : Cons(k, q)[i] # k
          /\ \A i, j \in 2 .. Len(q) + 1 : i < j =>
               \E x, y \in 1 .. Len(q) :
                 x < y /\ q[x] = Cons(k, q)[i] /\ q[y] = Cons(k, q)[j]
          /\ ToSet(Cons(k, q)) = {k} \cup ToSet(q)
          /\ IsInjective(Cons(k, q))
      BY <1>2, <1>3, <2>2, PushProps
    <3>2. Len(q) + 1 <= Capacity
      BY <1>3, <2>2
    <3>3. r = Cons(k, q)
      BY <2>2
    <3>4. /\ r \in Seq(Keys)
          /\ Len(r) = Len(q) + 1
          /\ r[1] = k
          /\ \A i \in 2 .. Len(q) + 1 : r[i] # k
          /\ \A i, j \in 2 .. Len(q) + 1 : i < j =>
               \E x, y \in 1 .. Len(q) : x < y /\ q[x] = r[i] /\ q[y] = r[j]
          /\ ToSet(r) = {k} \cup ToSet(q)
          /\ IsInjective(r)
      BY <3>1, <3>3
    <3> QED
      BY <3>2, <3>4
  <2> QED
    BY <1>6, <2>1, <2>2
<1>8. Len(r) \in Nat /\ DOMAIN r = 1 .. Len(r)
  BY <1>7, LenProperties
<1>9. \A x \in {k} \cup ToSet(q) : node'[x] \in Node /\ SoundNode(node'[x], clock)
  BY <1>2, <1>4, <1>5
<1>10. DOMAIN node' = {k} \cup ToSet(q)
  BY <1>5
<1>11. TypeOK'
  BY <1>7, <1>9, <1>10, <1>5 DEF Inv, TypeOK, r
<1>12. QueueIsTable'
  BY <1>7, <1>10 DEF QueueIsTable, r
<1>13. RecencyOrder'
  <2>1. now[w] \in Nat /\ clock \in Nat /\ clock - now[w] <= MaxLag
    BY DEF Inv, TypeOK
  <2>2. \A i \in 1 .. Len(r) : r[i] \in {k} \cup ToSet(q)
    BY <1>7, <1>8 DEF ToSet
  <2>3. ASSUME NEW i \in 1 .. Len(r), NEW j \in 1 .. Len(r), i < j
        PROVE  node'[r[i]].last_seen >= node'[r[j]].last_seen - MaxLag
    <3>1. j \in 2 .. Len(r) /\ r[j] # k
      BY <1>7, <1>8, <2>3
    <3>2. node'[r[j]] = node[r[j]] /\ r[j] \in DOMAIN node
      BY <1>2, <1>5, <2>2, <3>1
    <3>3. CASE i = 1
      <4>1. node'[r[i]].last_seen = now[w]
        BY <1>5, <1>7, <3>3
      <4>2. node[r[j]].last_seen <= clock /\ node[r[j]].last_seen \in Nat
        BY <1>4, <3>2 DEF SoundNode, Node
      <4> QED
        BY <2>1, <3>2, <4>1, <4>2
    <3>4. CASE i # 1
      <4>1. i \in 2 .. Len(r) /\ r[i] # k
        BY <1>7, <1>8, <3>4
      <4>2. node'[r[i]] = node[r[i]]
        BY <1>2, <1>5, <2>2, <4>1
      <4>3. PICK x, y \in 1 .. Len(q) : x < y /\ q[x] = r[i] /\ q[y] = r[j]
        BY <1>7, <2>3, <3>1, <4>1
      <4> QED
        BY <1>2, <3>2, <4>2, <4>3
    <3> QED
      BY <3>3, <3>4
  <2> QED
    BY <1>8, <2>3 DEF RecencyOrder, r
<1>14. NodesSound'
  BY <1>9, <1>10 DEF NodesSound
<1> QED
  BY <1>11, <1>12, <1>13, <1>14 DEF Inv

\* Every worker's cached time is a WorkerTime, every node is sound.
LEMMA InvFacts ==
  ASSUME Inv, NEW w \in Workers
  PROVE  /\ clock \in Nat
         /\ WorkerTime(now[w])
         /\ \A k \in DOMAIN node : node[k] \in Node /\ SoundNode(node[k], clock)
         /\ ToSet(Expire(now[w])) \subseteq DOMAIN node
<1>1. CutAt(Expire(now[w]), now[w])
  BY ExpireProps DEF Inv, TypeOK
<1>2. ToSet(Expire(now[w])) \subseteq DOMAIN node
  BY <1>1, CutProps
<1> QED
  BY <1>2 DEF Inv, TypeOK, NodesSound, WorkerTime

\* The node a write starts from is sound.
LEMMA BaseProps ==
  ASSUME Inv, NEW w \in Workers, NEW k \in Keys
  PROVE  Base(w, k) \in Node /\ SoundNode(Base(w, k), clock)
BY InvFacts, FreshProps DEF Base

\* sentinel_shm_errrate_lookup preserves the invariant.
LEMMA LookupInv ==
  ASSUME Inv, NEW w \in Workers, NEW k \in Keys, Lookup(w, k)
  PROVE  Inv'
<1> DEFINE q == Expire(now[w])
<1>1. /\ clock' = clock /\ now' = now
      /\ node' = [x \in ToSet(q) |->
                    IF x = k THEN Looked(node[x], now[w]) ELSE node[x]]
      /\ \/ k \notin ToSet(q) /\ queue' = q
         \/ k \in ToSet(q) /\ queue' = Touch(q, k)
  BY DEF Lookup
<1> HIDE DEF q
<1>2. CASE k \notin ToSet(q) /\ queue' = q
  <2>1. node' = [x \in ToSet(q) |-> node[x]]
    BY <1>1, <1>2
  <2> QED
    BY <1>1, <1>2, <2>1, CutStep DEF q
<1>3. CASE k \in ToSet(q) /\ queue' = Touch(q, k)
  <2> DEFINE n == Looked(node[k], now[w])
  <2>1. n \in Node /\ SoundNode(n, clock) /\ n.last_seen = now[w]
    BY <1>3, InvFacts, LookedProps DEF q
  <2> HIDE DEF n
  <2>2. node' = [x \in {k} \cup ToSet(q) |-> IF x = k THEN n ELSE node[x]]
    BY <1>1, <1>3 DEF n
  <2> QED
    BY <1>1, <1>3, <2>1, <2>2, HeadStep DEF q
<1> QED
  BY <1>1, <1>2, <1>3

\* A write that leaves a sound node at the head preserves the invariant.
LEMMA PutInv ==
  ASSUME Inv, NEW w \in Workers, NEW k \in Keys, NEW n \in Node,
         SoundNode(n, clock), n.last_seen = now[w], Put(w, k, n)
  PROVE  Inv'
BY HeadStep DEF Put

\* Every step of the specification preserves the invariant.
LEMMA NextInv == Inv /\ [Next]_vars => Inv'
<1> SUFFICES ASSUME Inv, [Next]_vars PROVE Inv'
  OBVIOUS
<1> USE ZoneAssumption
<1>1. CASE Tick
  <2>1. /\ clock' \in Nat /\ clock' = clock + 1 /\ clock \in Nat
        /\ queue' = queue /\ node' = node
    BY <1>1 DEF Tick, Inv, TypeOK
  <2>2. TypeOK'
    BY <1>1, <2>1 DEF Tick, Inv, TypeOK
  <2>3. NodesSound'
    <3> SUFFICES ASSUME NEW k \in DOMAIN node PROVE SoundNode(node[k], clock')
      BY <2>1 DEF NodesSound
    <3>1. node[k] \in Node /\ SoundNode(node[k], clock)
      BY DEF Inv, TypeOK, NodesSound
    <3> QED
      BY <2>1, <3>1 DEF SoundNode, Node, Event
  <2> QED
    BY <2>1, <2>2, <2>3 DEF Inv, QueueIsTable, RecencyOrder
<1>2. ASSUME NEW w \in Workers, TimeUpdate(w)
      PROVE  Inv'
  BY <1>2 DEF TimeUpdate, Inv, TypeOK, QueueIsTable, RecencyOrder, NodesSound
<1>3. ASSUME NEW w \in Workers, NEW k \in Keys, Lookup(w, k)
      PROVE  Inv'
  BY <1>3, LookupInv
<1>4. ASSUME NEW w \in Workers, NEW k \in Keys, Record(w, k)
      PROVE  Inv'
  <2>1. Base(w, k) \in Node /\ SoundNode(Base(w, k), clock)
    BY BaseProps
  <2>2. clock \in Nat /\ WorkerTime(now[w])
    BY InvFacts
  <2> DEFINE n == Recorded(Base(w, k), now[w])
  <2>3. n \in Node /\ SoundNode(n, clock) /\ n.last_seen = now[w]
    BY <2>1, <2>2, RecordedProps
  <2> HIDE DEF n
  <2>4. Put(w, k, n)
    BY <1>4 DEF Record, n
  <2> QED
    BY <2>3, <2>4, PutInv
<1>5. ASSUME NEW w \in Workers, NEW k \in Keys, ZoneFull(w, k)
      PROVE  Inv'
  BY <1>5, CutStep DEF ZoneFull, Kept
<1>6. ASSUME NEW w \in Workers, NEW k \in Keys, NEW ttl \in Ttls, Softban(w, k, ttl)
      PROVE  Inv'
  <2>1. clock \in Nat /\ WorkerTime(now[w])
    BY InvFacts
  <2> DEFINE n == Banned(Base(w, k), now[w], ttl)
  <2>2. n \in Node /\ SoundNode(n, clock) /\ n.last_seen = now[w]
    BY <2>1, BannedProps
  <2> HIDE DEF n
  <2>3. Put(w, k, n)
    BY <1>6 DEF Softban, n
  <2> QED
    BY <2>2, <2>3, PutInv
<1>7. CASE UNCHANGED vars
  BY <1>7 DEF vars, Inv, TypeOK, QueueIsTable, RecencyOrder, NodesSound
<1> QED
  BY <1>1, <1>2, <1>3, <1>4, <1>5, <1>6, <1>7 DEF Next

\* The table and the LRU queue of the zone agree in every reachable state, the
\* queue is ordered by recency up to the workers' lag, and every node is
\* sound, whatever the number of workers, keys and slab cells.
THEOREM ZoneInvariant == Spec => []Inv
<1>1. Init => Inv
  BY InitInv
<1>2. Inv /\ [Next]_vars => Inv'
  BY NextInv
<1> QED
  BY <1>1, <1>2, PTL DEF Spec

\* The parts of the invariant, one by one.
THEOREM ZoneSafety ==
  Spec => [](TypeOK /\ QueueIsTable /\ RecencyOrder /\ NodesSound)
<1>1. Inv => TypeOK /\ QueueIsTable /\ RecencyOrder /\ NodesSound
  BY DEF Inv
<1> QED
  BY <1>1, ZoneInvariant, PTL

\* The zone's state stays well formed under every operation of every worker:
\* sentinel_shm_record, _softban_set, _check and the expiry they begin with.
THEOREM ZoneTypeCorrect == Spec => []TypeOK
  BY ZoneSafety, PTL

-----------------------------------------------------------------------------
(* What a step never does. *)

\* A key that is not expirable for worker w survives w's expiry.
LEMMA Survives ==
  ASSUME Inv, NEW w \in Workers, NEW k \in DOMAIN node, ~Expirable(k, now[w])
  PROVE  k \in ToSet(Expire(now[w]))
<1>1. CutAt(Expire(now[w]), now[w])
  BY ExpireProps DEF Inv, TypeOK
<1> QED
  BY <1>1, CutProps

\* What a step of worker w on key k does to another key's node, or to its own.
LEMMA NodeAfter ==
  ASSUME Inv, NEW w \in Workers, NEW k \in Keys, NEW x \in DOMAIN node,
         ~Expirable(x, now[w])
  PROVE  /\ Lookup(w, k) =>
              /\ x \in DOMAIN node'
              /\ node'[x] = IF x = k THEN Looked(node[x], now[w]) ELSE node[x]
         /\ Record(w, k) =>
              /\ x \in DOMAIN node'
              /\ node'[x] = IF x = k THEN Recorded(node[x], now[w]) ELSE node[x]
         /\ \A ttl \in Ttls : Softban(w, k, ttl) =>
              /\ x \in DOMAIN node'
              /\ node'[x] = IF x = k THEN Banned(node[x], now[w], ttl)
                                      ELSE node[x]
         /\ ZoneFull(w, k) => x \in DOMAIN node' /\ node'[x] = node[x]
<1>1. x \in ToSet(Expire(now[w]))
  BY Survives
<1>2. x = k => Base(w, k) = node[x]
  BY <1>1 DEF Base
<1>3. ASSUME NEW n, Put(w, k, n)
      PROVE  x \in DOMAIN node' /\ node'[x] = IF x = k THEN n ELSE node[x]
  BY <1>1, <1>3 DEF Put
<1>4. Lookup(w, k) =>
        /\ x \in DOMAIN node'
        /\ node'[x] = IF x = k THEN Looked(node[x], now[w]) ELSE node[x]
  BY <1>1 DEF Lookup
<1>5. ZoneFull(w, k) => x \in DOMAIN node' /\ node'[x] = node[x]
  BY <1>1 DEF ZoneFull, Kept
<1>6. Record(w, k) =>
        /\ x \in DOMAIN node'
        /\ node'[x] = IF x = k THEN Recorded(node[x], now[w]) ELSE node[x]
  BY <1>2, <1>3 DEF Record
<1>7. ASSUME NEW ttl \in Ttls, Softban(w, k, ttl)
      PROVE  /\ x \in DOMAIN node'
             /\ node'[x] = IF x = k THEN Banned(node[x], now[w], ttl)
                                     ELSE node[x]
  BY <1>2, <1>3, <1>7 DEF Softban
<1> QED
  BY <1>4, <1>5, <1>6, <1>7

\* One step keeps a running ban, or is a soft-ban of that key.
LEMMA BanStep ==
  ASSUME Inv, [Next]_vars, NEW x \in DOMAIN node, node[x].blocked_until > clock
  PROVE  /\ x \in DOMAIN node'
         /\ \/ node'[x].blocked_until = node[x].blocked_until
            \/ \E w \in Workers, ttl \in Ttls : Softban(w, x, ttl)
<1> USE ZoneAssumption
<1>1. node[x] \in Node /\ SoundNode(node[x], clock) /\ clock \in Nat
  BY DEF Inv, TypeOK, NodesSound
<1>2. \A w \in Workers : /\ WorkerTime(now[w])
                        /\ node[x].blocked_until > now[w]
                        /\ ~Expirable(x, now[w])
  BY <1>1, InvFacts DEF WorkerTime, Expirable, Node
<1>3. ASSUME NEW w \in Workers, NEW k \in Keys,
             Lookup(w, k) \/ Record(w, k) \/ ZoneFull(w, k)
      PROVE  x \in DOMAIN node' /\ node'[x].blocked_until = node[x].blocked_until
  <2>1. /\ Looked(node[x], now[w]).blocked_until = node[x].blocked_until
        /\ Recorded(node[x], now[w]).blocked_until = node[x].blocked_until
    BY <1>1, <1>2, LookedProps, RecordedProps
  <2> QED
    BY <1>2, <1>3, <2>1, NodeAfter
<1>4. ASSUME NEW w \in Workers, NEW k \in Keys, NEW ttl \in Ttls, Softban(w, k, ttl)
      PROVE  /\ x \in DOMAIN node'
             /\ \/ node'[x].blocked_until = node[x].blocked_until
                \/ Softban(w, x, ttl)
  BY <1>2, <1>4, NodeAfter
<1>5. CASE Tick \/ UNCHANGED vars \/ \E w \in Workers : TimeUpdate(w)
  BY <1>5 DEF Tick, TimeUpdate, vars
<1> QED
  BY <1>3, <1>4, <1>5 DEF Next

\* A ban that is still running is never dropped, by eviction or otherwise, and
\* only a later soft-ban of the same client changes when it ends.
THEOREM BansAreHonoured == Spec => BanHonoured
<1>1. Inv /\ [Next]_vars =>
        [\A k \in DOMAIN node :
           node[k].blocked_until > clock =>
             /\ k \in DOMAIN node'
             /\ \/ node'[k].blocked_until = node[k].blocked_until
                \/ \E w \in Workers, ttl \in Ttls : Softban(w, k, ttl)]_vars
  BY BanStep
<1> QED
  BY <1>1, ZoneInvariant, PTL DEF Spec, BanHonoured

\* One step keeps an event of the window, or blocks its client.
LEMMA EventStep ==
  ASSUME Inv, [Next]_vars, NEW x \in DOMAIN node, NEW e \in node[x].events,
         e.ts > clock - Interval + MaxLag
  PROVE  /\ x \in DOMAIN node'
         /\ e \in node'[x].events \/ node'[x].blocked_until # 0
<1> USE ZoneAssumption
<1>1. node[x] \in Node /\ SoundNode(node[x], clock) /\ clock \in Nat
  BY DEF Inv, TypeOK, NodesSound
<1>2. /\ e \in Event /\ e.ts \in Nat /\ node[x].last_seen \in Nat
      /\ e.ts <= node[x].last_seen + MaxLag
      /\ node[x].blocked_until = 0
  BY <1>1 DEF Node, SoundNode, Event
<1>3. \A w \in Workers : /\ WorkerTime(now[w])
                        /\ e \in Prune(node[x].events, now[w])
                        /\ ~Expirable(x, now[w])
  BY <1>1, <1>2, InvFacts DEF WorkerTime, Expirable, Prune
<1>4. ASSUME NEW w \in Workers, NEW k \in Keys,
             Lookup(w, k) \/ Record(w, k) \/ ZoneFull(w, k)
      PROVE  /\ x \in DOMAIN node'
             /\ e \in node'[x].events \/ node'[x].blocked_until # 0
  <2>1. /\ e \in Looked(node[x], now[w]).events
        /\ \/ e \in Recorded(node[x], now[w]).events
           \/ Recorded(node[x], now[w]).blocked_until # 0
    BY <1>1, <1>2, <1>3, LookedProps, RecordedProps
  <2> QED
    BY <1>3, <1>4, <2>1, NodeAfter
<1>5. ASSUME NEW w \in Workers, NEW k \in Keys, NEW ttl \in Ttls, Softban(w, k, ttl)
      PROVE  /\ x \in DOMAIN node'
             /\ e \in node'[x].events \/ node'[x].blocked_until # 0
  <2>1. Banned(node[x], now[w], ttl).blocked_until # 0
    BY <1>1, <1>3, BannedProps
  <2> QED
    BY <1>3, <1>5, <2>1, NodeAfter
<1>6. CASE Tick \/ UNCHANGED vars \/ \E w \in Workers : TimeUpdate(w)
  BY <1>6 DEF Tick, TimeUpdate, vars
<1> QED
  BY <1>4, <1>5, <1>6 DEF Next

\* No event younger than Interval - MaxLag is forgotten, not even with its
\* node, except by the block it has just caused or been superseded by.
THEOREM EventsAreKept == Spec => NoEventLostEarly
<1>1. Inv /\ [Next]_vars =>
        [\A k \in DOMAIN node : \A e \in node[k].events :
           e.ts > clock - Interval + MaxLag =>
             /\ k \in DOMAIN node'
             /\ \/ e \in node'[k].events
                \/ node'[k].blocked_until # 0]_vars
  BY EventStep
<1> QED
  BY <1>1, ZoneInvariant, PTL DEF Spec, NoEventLostEarly

-----------------------------------------------------------------------------
(* The zone implements the limiter. *)

\* Some of evs is forgotten and evs2 is left; a ban that ended may be, too.
FadesTo(evs, u, evs2, u2) ==
  /\ evs2 \subseteq evs
  /\ \A e \in evs \ evs2 : e.ts <= clock - Interval + MaxLag
  /\ u2 = u \/ (u <= clock /\ u2 = 0)

\* The window open at t and the event of t.
Full(evs, t) ==
  Prune(evs, t) \cup {[cell |-> FreeCell(Prune(evs, t)), ts |-> t]}

\* Counting an event at t in the window evs leaves evs2 and a ban to u2.
CountsTo(evs, t, evs2, u2) ==
  IF Cardinality(Full(evs, t)) >= Threshold
  THEN evs2 = {} /\ u2 = t + Block
  ELSE evs2 = Full(evs, t) /\ u2 = 0

\* What a call of worker w for client k does to the clients' windows and bans.
CallStep(w, k) ==
  /\ \/ FadesTo(Held(k), BanEnd(k), Held(k)', BanEnd(k)')
     \/ /\ BanEnd(k) <= now[w]
        /\ \E evs \in SUBSET Held(k) :
             /\ \A e \in Held(k) \ evs : e.ts <= clock - Interval + MaxLag
             /\ CountsTo(evs, now[w], Held(k)', BanEnd(k)')
     \/ \E ttl \in Ttls : Held(k)' = {} /\ BanEnd(k)' = now[w] + ttl
  /\ \A j \in Keys \ {k} : FadesTo(Held(j), BanEnd(j), Held(j)', BanEnd(j)')
  /\ clock' = clock /\ now' = now

\* The limiter counts as the zone does.
LEMMA SameCount == \A S : Limiter!Cardinality(S) = Cardinality(S)
  BY Zenon DEF Limiter!Cardinality, Cardinality

\* Such a step is a call of the limiter.
LEMMA CallIsLimiters ==
  ASSUME NEW w \in Workers, NEW k \in Keys, CallStep(w, k)
  PROVE  Limiter!Call(w, k)
<1>1. ASSUME NEW j \in Keys, FadesTo(Held(j), BanEnd(j), Held(j)', BanEnd(j)')
      PROVE  Limiter!Fades(j)
  BY <1>1 DEF FadesTo, Limiter!Fades, Limiter!Rests, Limiter!Forgettable
<1>2. ASSUME BanEnd(k) <= now[w],
             NEW evs \in SUBSET Held(k),
             \A e \in Held(k) \ evs : e.ts <= clock - Interval + MaxLag,
             CountsTo(evs, now[w], Held(k)', BanEnd(k)')
      PROVE  Limiter!Count(w, k)
  <2>. DEFINE open == {e \in evs : e.ts > now[w] - Interval}
              full == open \cup {Limiter!NewEvent(open, now[w])}
  <2>1. evs \in Limiter!Rests(k)
    BY <1>2 DEF Limiter!Rests, Limiter!Forgettable
  <2>2. full = Full(evs, now[w])
    BY DEF Full, Prune, FreeCell, Limiter!NewEvent
  <2>3. IF Cardinality(full) >= Threshold
        THEN Held(k)' = {} /\ BanEnd(k)' = now[w] + Block
        ELSE Held(k)' = full /\ BanEnd(k)' = 0
    BY <1>2, <2>2, Zenon DEF CountsTo
  <2>4. /\ [j \in Keys |-> Held(j)]'[k] = Held(k)'
        /\ [j \in Keys |-> BanEnd(j)]'[k] = BanEnd(k)'
        /\ [j \in Keys |-> BanEnd(j)][k] = BanEnd(k)
    OBVIOUS
  <2>5. /\ [j \in Keys |-> BanEnd(j)][k] <= now[w]
        /\ IF Cardinality(full) >= Threshold
           THEN /\ [j \in Keys |-> Held(j)]'[k] = {}
                /\ [j \in Keys |-> BanEnd(j)]'[k] = now[w] + Block
           ELSE /\ [j \in Keys |-> Held(j)]'[k] = full
                /\ [j \in Keys |-> BanEnd(j)]'[k] = 0
    BY <1>2, <2>3, <2>4, Zenon
  <2>. QED
    BY <2>1, <2>5, SameCount, Zenon DEF Limiter!Count
<1>3. ASSUME NEW ttl \in Ttls, Held(k)' = {}, BanEnd(k)' = now[w] + ttl
      PROVE  Limiter!Ban(w, k, ttl)
  BY <1>3 DEF Limiter!Ban
<1>. QED
  BY <1>1, <1>2, <1>3 DEF CallStep, Limiter!Call

\* Pruning at a worker's time drops only what may be forgotten.
LEMMA PruneFades ==
  ASSUME NEW n \in Node, clock \in Nat, NEW t, WorkerTime(t)
  PROVE  /\ Prune(n.events, t) \subseteq n.events
         /\ \A e \in n.events \ Prune(n.events, t) :
              e.ts <= clock - Interval + MaxLag
<1>1. \A e \in n.events : e.ts \in Nat
  BY DEF Node, Event
<1>. QED
  BY <1>1, ZoneAssumption DEF Prune, WorkerTime

\* A lookup forgets a lapsed ban and what is out of the window, nothing else.
LEMMA LookedFades ==
  ASSUME NEW n \in Node, clock \in Nat, SoundNode(n, clock),
         NEW t, WorkerTime(t)
  PROVE  FadesTo(n.events, n.blocked_until,
                 Looked(n, t).events, Looked(n, t).blocked_until)
<1>1. /\ n.last_seen \in Nat /\ n.blocked_until \in Nat
      /\ n.blocked_until # 0 => n.events = {}
      /\ t \in Nat /\ t <= clock
  BY DEF Node, SoundNode, WorkerTime
<1>2. CASE n.blocked_until > t
  <2>1. Looked(n, t) = [last_seen |-> t, blocked_until |-> n.blocked_until,
                        events |-> n.events]
    BY <1>1, <1>2 DEF Looked, Node
  <2>. QED
    BY <2>1 DEF FadesTo
<1>3. CASE ~(n.blocked_until > t)
  <2>1. Looked(n, t) = Lapse([n EXCEPT !.last_seen = t], t)
    BY <1>3 DEF Looked
  <2>2. /\ Looked(n, t).blocked_until = 0
        /\ Looked(n, t).events \subseteq n.events
        /\ n.blocked_until = 0 => Looked(n, t).events = Prune(n.events, t)
    BY <2>1, LapseProps
  <2>3. n.blocked_until <= clock
    BY <1>1, <1>3
  <2>. QED
    BY <1>1, <2>2, <2>3, PruneFades DEF FadesTo
<1>. QED
  BY <1>2, <1>3

\* Recording leaves a banned client alone, and else counts the event in what
\* is left of the window.
LEMMA RecordedCounts ==
  ASSUME NEW n \in Node, clock \in Nat, SoundNode(n, clock),
         NEW t, WorkerTime(t)
  PROVE  IF n.blocked_until > t
         THEN /\ Recorded(n, t).events = n.events
              /\ Recorded(n, t).blocked_until = n.blocked_until
         ELSE CountsTo(n.events, t, Recorded(n, t).events,
                       Recorded(n, t).blocked_until)
<1>. DEFINE seen == [n EXCEPT !.last_seen = t]
            open == Lapse(seen, t)
<1>1. /\ n.last_seen \in Nat /\ n.blocked_until \in Nat
      /\ n.blocked_until # 0 => n.events = {}
      /\ t \in Nat /\ t <= clock
  BY DEF Node, SoundNode, WorkerTime
<1>2. CASE n.blocked_until > t
  <2>1. Recorded(n, t) = seen
    BY <1>1, <1>2 DEF Recorded
  <2>2. seen.events = n.events /\ seen.blocked_until = n.blocked_until
    BY DEF Node
  <2>. QED
    BY <1>2, <2>1, <2>2
<1>3. CASE ~(n.blocked_until > t)
  <2>1. /\ open \in Node /\ open.blocked_until = 0
        /\ open.events = Prune(n.events, t)
    <3>1. /\ open \in Node /\ open.blocked_until = 0
          /\ open.events \subseteq n.events
          /\ n.blocked_until = 0 => open.events = Prune(n.events, t)
      BY LapseProps
    <3>2. n.events = {} => Prune(n.events, t) = {}
      BY DEF Prune
    <3>. QED
      BY <1>1, <3>1, <3>2
  <2>2. Recorded(n, t) =
          LET evs == open.events
                       \cup {[cell |-> FreeCell(open.events), ts |-> t]}
          IN  IF Cardinality(evs) >= Threshold
              THEN Banned(open, t, Block)
              ELSE [open EXCEPT !.events = evs]
    BY <1>1, <1>3 DEF Recorded
  <2>. HIDE DEF open
  <2>3. Recorded(n, t) = IF Cardinality(Full(n.events, t)) >= Threshold
                         THEN Banned(open, t, Block)
                         ELSE [open EXCEPT !.events = Full(n.events, t)]
    BY <2>1, <2>2, Zenon DEF Full
  <2>4. /\ Banned(open, t, Block).events = {}
        /\ Banned(open, t, Block).blocked_until = t + Block
    BY DEF Banned
  <2>5. \A evs : /\ [open EXCEPT !.events = evs].events = evs
                 /\ [open EXCEPT !.events = evs].blocked_until = 0
    BY <2>1 DEF Node
  <2>6. CountsTo(n.events, t, Recorded(n, t).events, Recorded(n, t).blocked_until)
    BY <2>3, <2>4, <2>5, Zenon DEF CountsTo
  <2>. QED
    BY <1>3, <2>6, Zenon
<1>. QED
  BY <1>2, <1>3

\* An expired node is a client of whom everything may be forgotten.
LEMMA ExpiredFades ==
  ASSUME NEW n \in Node, clock \in Nat, SoundNode(n, clock),
         NEW t, WorkerTime(t), n.blocked_until <= t, t - n.last_seen >= Interval
  PROVE  /\ FadesTo(n.events, n.blocked_until, {}, 0)
         /\ \A e \in n.events : e.ts <= clock - Interval + MaxLag
<1>1. /\ n.last_seen \in Nat /\ n.blocked_until \in Nat /\ t \in Nat /\ t <= clock
      /\ \A e \in n.events : e.ts \in Nat /\ e.ts <= n.last_seen + MaxLag
  BY DEF Node, SoundNode, WorkerTime, Event
<1>2. \A e \in n.events : e.ts <= clock - Interval + MaxLag
  BY <1>1, ZoneAssumption
<1>3. n.blocked_until <= clock
  BY <1>1
<1>. QED
  BY <1>2, <1>3 DEF FadesTo

\* Of a client that worker w's operation does not concern, only what w's
\* expiry evicts is forgotten.
LEMMA OthersFade ==
  ASSUME Inv, NEW w \in Workers, NEW x,
         IF x \in ToSet(Expire(now[w]))
         THEN x \in DOMAIN node' /\ node'[x] = node[x]
         ELSE x \notin DOMAIN node'
  PROVE  FadesTo(Held(x), BanEnd(x), Held(x)', BanEnd(x)')
<1>1. /\ clock \in Nat /\ WorkerTime(now[w])
      /\ \A k \in DOMAIN node : node[k] \in Node /\ SoundNode(node[k], clock)
      /\ ToSet(Expire(now[w])) \subseteq DOMAIN node
  BY InvFacts
<1>2. CASE x \in ToSet(Expire(now[w]))
  <2>1. Held(x)' = Held(x) /\ BanEnd(x)' = BanEnd(x)
    BY <1>1, <1>2 DEF Held, BanEnd
  <2>. QED
    BY <2>1 DEF FadesTo
<1>3. CASE x \notin ToSet(Expire(now[w])) /\ x \in DOMAIN node
  <2>1. Held(x)' = {} /\ BanEnd(x)' = 0
    BY <1>3 DEF Held, BanEnd
  <2>2. Held(x) = node[x].events /\ BanEnd(x) = node[x].blocked_until
    BY <1>3 DEF Held, BanEnd
  <2>3. Expirable(x, now[w])
    BY <1>3, Survives
  <2>4. FadesTo(node[x].events, node[x].blocked_until, {}, 0)
    BY <1>1, <1>3, <2>3, ExpiredFades DEF Expirable
  <2>. QED
    BY <2>1, <2>2, <2>4
<1>4. CASE x \notin ToSet(Expire(now[w])) /\ x \notin DOMAIN node
  <2>1. Held(x)' = {} /\ BanEnd(x)' = 0 /\ Held(x) = {} /\ BanEnd(x) = 0
    BY <1>4 DEF Held, BanEnd
  <2>. QED
    BY <2>1 DEF FadesTo
<1>. QED
  BY <1>2, <1>3, <1>4

\* sentinel_shm_errrate_lookup.
LEMMA LookupCalls ==
  ASSUME Inv, NEW w \in Workers, NEW k \in Keys, Lookup(w, k)
  PROVE  CallStep(w, k)
<1>. DEFINE q == Expire(now[w])
<1>1. /\ clock' = clock /\ now' = now
      /\ node' = [x \in ToSet(q) |->
                    IF x = k THEN Looked(node[x], now[w]) ELSE node[x]]
  BY DEF Lookup
<1>2. ASSUME NEW j, j # k \/ k \notin ToSet(q)
      PROVE  FadesTo(Held(j), BanEnd(j), Held(j)', BanEnd(j)')
  <2>1. IF j \in ToSet(q) THEN j \in DOMAIN node' /\ node'[j] = node[j]
                          ELSE j \notin DOMAIN node'
    BY <1>1, <1>2
  <2>. QED
    BY <2>1, OthersFade
<1>3. CASE k \in ToSet(q)
  <2>1. /\ clock \in Nat /\ WorkerTime(now[w]) /\ k \in DOMAIN node
        /\ node[k] \in Node /\ SoundNode(node[k], clock)
    BY <1>3, InvFacts
  <2>2. /\ Held(k) = node[k].events /\ BanEnd(k) = node[k].blocked_until
        /\ Held(k)' = Looked(node[k], now[w]).events
        /\ BanEnd(k)' = Looked(node[k], now[w]).blocked_until
    BY <1>1, <1>3, <2>1 DEF Held, BanEnd
  <2>3. FadesTo(node[k].events, node[k].blocked_until,
                Looked(node[k], now[w]).events,
                Looked(node[k], now[w]).blocked_until)
    BY <2>1, LookedFades
  <2>. QED
    BY <1>1, <1>2, <2>2, <2>3 DEF CallStep
<1>. QED
  BY <1>1, <1>2, <1>3 DEF CallStep

\* A call that finds the zone full.
LEMMA FullCalls ==
  ASSUME Inv, NEW w \in Workers, NEW k \in Keys, ZoneFull(w, k)
  PROVE  CallStep(w, k)
<1>1. ASSUME NEW j PROVE FadesTo(Held(j), BanEnd(j), Held(j)', BanEnd(j)')
  BY OthersFade DEF ZoneFull, Kept
<1>. QED
  BY <1>1 DEF CallStep, ZoneFull

\* What a write leaves of k, and of the others.
LEMMA PutLeaves ==
  ASSUME Inv, NEW w \in Workers, NEW k \in Keys, NEW n, Put(w, k, n)
  PROVE  /\ clock' = clock /\ now' = now
         /\ Held(k)' = n.events /\ BanEnd(k)' = n.blocked_until
         /\ \A j \in Keys \ {k} :
              FadesTo(Held(j), BanEnd(j), Held(j)', BanEnd(j)')
<1>1. /\ clock' = clock /\ now' = now
      /\ node' = [x \in {k} \cup ToSet(Expire(now[w])) |->
                    IF x = k THEN n ELSE node[x]]
  BY DEF Put
<1>2. Held(k)' = n.events /\ BanEnd(k)' = n.blocked_until
  BY <1>1 DEF Held, BanEnd
<1>3. ASSUME NEW j \in Keys \ {k}
      PROVE  FadesTo(Held(j), BanEnd(j), Held(j)', BanEnd(j)')
  <2>1. IF j \in ToSet(Expire(now[w]))
        THEN j \in DOMAIN node' /\ node'[j] = node[j]
        ELSE j \notin DOMAIN node'
    BY <1>1
  <2>. QED
    BY <2>1, OthersFade
<1>. QED
  BY <1>1, <1>2, <1>3

\* What the node a write starts from says of its client: everything, or, when
\* it had to be created, nothing that may not be forgotten.
LEMMA BaseRests ==
  ASSUME Inv, NEW w \in Workers, NEW k \in Keys
  PROVE  \/ /\ Base(w, k).events = Held(k)
            /\ Base(w, k).blocked_until = BanEnd(k)
         \/ /\ Base(w, k).events = {} /\ Base(w, k).blocked_until = 0
            /\ BanEnd(k) <= now[w]
            /\ \A e \in Held(k) : e.ts <= clock - Interval + MaxLag
<1>1. /\ clock \in Nat /\ WorkerTime(now[w])
      /\ \A x \in DOMAIN node : node[x] \in Node /\ SoundNode(node[x], clock)
      /\ ToSet(Expire(now[w])) \subseteq DOMAIN node
  BY InvFacts
<1>2. CASE k \in ToSet(Expire(now[w]))
  BY <1>1, <1>2 DEF Base, Held, BanEnd
<1>3. CASE k \notin ToSet(Expire(now[w]))
  <2>1. Base(w, k).events = {} /\ Base(w, k).blocked_until = 0
    BY <1>3 DEF Base, Fresh
  <2>2. CASE k \in DOMAIN node
    <3>1. Expirable(k, now[w])
      BY <1>3, <2>2, Survives
    <3>2. \A e \in node[k].events : e.ts <= clock - Interval + MaxLag
      BY <1>1, <2>2, <3>1, ExpiredFades DEF Expirable
    <3>. QED
      BY <2>1, <2>2, <3>1, <3>2 DEF Held, BanEnd, Expirable
  <2>3. CASE k \notin DOMAIN node
    BY <1>1, <2>1, <2>3 DEF Held, BanEnd
  <2>. QED
    BY <2>2, <2>3
<1>. QED
  BY <1>2, <1>3

\* sentinel_shm_errrate_record.
LEMMA RecordCalls ==
  ASSUME Inv, NEW w \in Workers, NEW k \in Keys, Record(w, k)
  PROVE  CallStep(w, k)
<1>. DEFINE b == Base(w, k)
            n == Recorded(b, now[w])
<1>1. /\ b \in Node /\ SoundNode(b, clock) /\ clock \in Nat
      /\ WorkerTime(now[w])
  BY BaseProps, InvFacts
<1>2. IF b.blocked_until > now[w]
      THEN n.events = b.events /\ n.blocked_until = b.blocked_until
      ELSE CountsTo(b.events, now[w], n.events, n.blocked_until)
  BY <1>1, RecordedCounts
<1>3. \/ b.events = Held(k) /\ b.blocked_until = BanEnd(k)
      \/ /\ b.events = {} /\ b.blocked_until = 0 /\ BanEnd(k) <= now[w]
         /\ \A e \in Held(k) : e.ts <= clock - Interval + MaxLag
  BY BaseRests
<1>4. /\ b.blocked_until \in Nat /\ now[w] \in Nat
  BY <1>1 DEF Node, WorkerTime
<1>5. Put(w, k, n)
  BY DEF Record
<1>. HIDE DEF n, b
<1>6. /\ clock' = clock /\ now' = now
      /\ Held(k)' = n.events /\ BanEnd(k)' = n.blocked_until
      /\ \A j \in Keys \ {k} :
           FadesTo(Held(j), BanEnd(j), Held(j)', BanEnd(j)')
  BY <1>5, PutLeaves
<1>7. CASE b.blocked_until > now[w]
  <2>1. b.blocked_until # 0
    BY <1>4, <1>7
  <2>2. Held(k)' = Held(k) /\ BanEnd(k)' = BanEnd(k)
    BY <1>2, <1>3, <1>6, <1>7, <2>1
  <2>. QED
    BY <1>6, <2>2 DEF CallStep, FadesTo
<1>8. CASE ~(b.blocked_until > now[w])
  <2>1. BanEnd(k) <= now[w]
    BY <1>3, <1>4, <1>8
  <2>2. /\ b.events \in SUBSET Held(k)
        /\ \A e \in Held(k) \ b.events : e.ts <= clock - Interval + MaxLag
    BY <1>3
  <2>3. CountsTo(b.events, now[w], Held(k)', BanEnd(k)')
    BY <1>2, <1>6, <1>8
  <2>. QED
    BY <1>6, <2>1, <2>2, <2>3, Zenon DEF CallStep
<1>. QED
  BY <1>7, <1>8

\* sentinel_shm_softban_set.
LEMMA SoftbanCalls ==
  ASSUME Inv, NEW w \in Workers, NEW k \in Keys, NEW ttl \in Ttls,
         Softban(w, k, ttl)
  PROVE  CallStep(w, k)
<1>. DEFINE n == Banned(Base(w, k), now[w], ttl)
<1>1. n.events = {} /\ n.blocked_until = now[w] + ttl
  BY DEF Banned
<1>2. Put(w, k, n)
  BY DEF Softban
<1>. HIDE DEF n
<1>. QED
  BY <1>1, <1>2, PutLeaves DEF CallStep

\* Time passes for the limiter as for the zone.
LEMMA TicksAreLimiters ==
  ASSUME Inv, Tick \/ \E w \in Workers : TimeUpdate(w)
  PROVE  Limiter!Tick
<1>1. /\ clock \in Nat /\ now \in [Workers -> Nat]
      /\ \A w \in Workers : now[w] <= clock /\ clock - now[w] <= MaxLag
  BY DEF Inv, TypeOK
<1>2. node' = node
  BY DEF Tick, TimeUpdate
<1>3. \A k : Held(k)' = Held(k) /\ BanEnd(k)' = BanEnd(k)
  BY <1>2 DEF Held, BanEnd
<1>4. UNCHANGED <<[k \in Keys |-> Held(k)], [k \in Keys |-> BanEnd(k)]>>
  BY <1>3
<1>5. /\ clock' \in {clock, clock + 1}
      /\ now' \in [Workers -> {clock} \cup {clock'} \cup {now[w] : w \in Workers}]
      /\ \A w \in Workers : now'[w] >= now[w] /\ clock' - now'[w] <= MaxLag
  <2>1. CASE Tick
    BY <1>1, <2>1, ZoneAssumption DEF Tick
  <2>2. CASE \E w \in Workers : TimeUpdate(w)
    BY <1>1, <2>2, ZoneAssumption DEF TimeUpdate
  <2>. QED
    BY <2>1, <2>2
<1>. QED
  BY <1>4, <1>5 DEF Limiter!Tick

\* Expiry from the tail, lazy pruning and the reset of lapsed blocks are
\* invisible to a caller: for any number of clients and workers and any table
\* size, the zone is a sliding window with bans that forgets only what is out
\* of the window, give or take the workers' lag.
THEOREM ZoneImplementsLimiter == Spec => ImplementsLimiter
<1>1. Init => Limiter!Init
  BY DEF Init, Limiter!Init, Held, BanEnd
<1>2. Inv /\ [Next]_vars =>
        [Limiter!Next]_<<clock, now, [k \in Keys |-> Held(k)],
                         [k \in Keys |-> BanEnd(k)]>>
  <2>. SUFFICES ASSUME Inv, [Next]_vars
                PROVE  [Limiter!Next]_<<clock, now, [k \in Keys |-> Held(k)],
                                        [k \in Keys |-> BanEnd(k)]>>
    OBVIOUS
  <2>1. CASE Tick \/ \E w \in Workers : TimeUpdate(w)
    BY <2>1, TicksAreLimiters DEF Limiter!Next
  <2>2. ASSUME NEW w \in Workers, NEW k \in Keys,
               \/ Lookup(w, k) \/ Record(w, k) \/ ZoneFull(w, k)
               \/ \E ttl \in Ttls : Softban(w, k, ttl)
        PROVE  Limiter!Next
    <3>1. CallStep(w, k)
      BY <2>2, LookupCalls, RecordCalls, FullCalls, SoftbanCalls
    <3>. QED
      BY <3>1, CallIsLimiters DEF Limiter!Next
  <2>3. CASE UNCHANGED vars
    BY <2>3 DEF vars, Held, BanEnd
  <2>. QED
    BY <2>1, <2>2, <2>3 DEF Next
<1>. QED
  BY <1>1, <1>2, ZoneInvariant, PTL DEF Spec, ImplementsLimiter, Limiter!Spec
=============================================================================
