-------------------------- MODULE CrowdsecFeedProofs --------------------------
(***************************************************************************)
(* Theorems about CrowdsecFeed: for any number of workers, feeds and nodes *)
(* the zone stays consistent; and a worker that is the only loader of a    *)
(* zone with room for every client serves exactly the file it has loaded.  *)
(***************************************************************************)
EXTENDS CrowdsecFeed, TLAPS, SequenceTheorems, FiniteSetTheorems

\* The inductive invariant of the zone, whoever uses it.
Inv == TypeOK /\ ZoneConsistent

-----------------------------------------------------------------------------
(* What the theorems about the served file assume. *)

\* One worker process.
Lone == \A v, w \in Workers : v = w

\* A node for every client.
Room == IsFiniteSet(Keys) /\ Cardinality(Keys) <= Capacity

\* Of two files that the sidecar writes, the later has a later time.
FilesApart == SidecarPeriod # 0

-----------------------------------------------------------------------------
(* A load under way. *)

\* The lines that job j has passed.
Passed(j) == 1 .. Len(j.feed) - Len(j.rest)

\* Line i of job j is a running decision about client k.
Says(j, i, k) == Running(j.feed[i], j.now) /\ j.feed[i].ip = k

\* What was read is the file, unless that was replaced since the stat.
Timely(w) ==
  LET j == job[w]
  IN  /\ last_mtime[w] <= file.mtime
      /\ pc[w] # "idle" =>
           /\ j.mtime # 0 /\ j.mtime <= file.mtime
           /\ j.mtime <= j.now /\ j.now <= clock
           /\ last_mtime[w] # file.mtime
      /\ pc[w] \in {"bump", "apply", "sweep"} /\ j.mtime = file.mtime =>
           j.feed = file.feed.body

Times ==
  /\ clock >= 1
  /\ file.mtime <= clock
  /\ \A w \in Workers : Timely(w)

\* What is left to be applied is the end of what was read.
Suffix(j) ==
  /\ Len(j.rest) <= Len(j.feed)
  /\ \A n \in 1 .. Len(j.rest) : j.rest[n] = j.feed[Len(j.feed) - Len(j.rest) + n]

\* The node d holds what line i of job j, its last so far about client k, says.
Decides(j, i, k, d) ==
  /\ Says(j, i, k)
  /\ \A n \in Passed(j) : Says(j, n, k) => n <= i
  /\ d.action = j.feed[i].action
  /\ d.expiry = Expiry(j.feed[i], j.now)

\* The lines that job j has passed are in the table T under its stamp, and
\* nothing else is: the last line about a client decides.
Stamped(T, j) ==
  /\ \A i \in Passed(j), k \in Keys : Says(j, i, k) =>
       k \in DOMAIN T /\ T[k].generation = j.generation
  /\ \A k \in DOMAIN T : T[k].generation = j.generation =>
       \E i \in Passed(j) : Decides(j, i, k, T[k])

Sound(w) ==
  /\ pc[w] = "bump" => job[w].rest = job[w].feed
  /\ pc[w] \in {"apply", "sweep"} =>
       /\ job[w].generation = generation
       /\ Suffix(job[w])
       /\ Stamped(table, job[w])
  /\ pc[w] = "sweep" => job[w].rest = << >>

\* No node is stamped by a load to come.
Dated == \A k \in DOMAIN table : table[k].generation <= generation

LoadSound == Dated /\ \A w \in Workers : Sound(w)

\* The last line of body that a load at time t installs for client k.
Latest(body, k, t) ==
  {i \in Listed(body, k, t) : \A n \in Listed(body, k, t) : n <= i}

\* In table T client k has what a load of body at time t gave it, or had it and
\* its decision has ended at time c.
AsLoaded(T, body, c, k, t) ==
  /\ \A i \in Latest(body, k, t) : k \in DOMAIN T \/ Expiry(body[i], t) <= c
  /\ k \in DOMAIN T =>
       \E i \in Latest(body, k, t) :
         T[k].action = body[i].action /\ T[k].expiry = Expiry(body[i], t)

\* Worker w is not loading, and has loaded the file that is there.
Current(w) == pc[w] = "idle" /\ last_mtime[w] = file.mtime /\ file.mtime # 0

Loaded ==
  \A w \in Workers : Current(w) =>
    \E t \in file.mtime .. clock :
      \A k \in Keys : AsLoaded(table, file.feed.body, clock, k, t)

-----------------------------------------------------------------------------
(* Sequences. *)

\* The place of i among the members of S.
Rank(S, i) == Cardinality({j \in S : j <= i})

\* The members of a set of positions are numbered by their ranks.
LEMMA Ranks ==
  ASSUME NEW n \in Nat, NEW S \in SUBSET (1 .. n)
  PROVE  /\ IsFiniteSet(S) /\ Cardinality(S) \in Nat /\ Cardinality(S) <= n
         /\ S # 1 .. n => Cardinality(S) < n
         /\ \A i \in S : Rank(S, i) \in 1 .. Cardinality(S)
         /\ \A i, j \in S : Rank(S, i) = Rank(S, j) => i = j
         /\ \A m \in 1 .. Cardinality(S) : \E i \in S : Rank(S, i) = m
<1>1. IsFiniteSet(1 .. n) /\ Cardinality(1 .. n) = n
  BY FS_Interval
<1>2. /\ IsFiniteSet(S) /\ Cardinality(S) \in Nat /\ Cardinality(S) <= n
      /\ S # 1 .. n => Cardinality(S) < n
  <2>1. /\ IsFiniteSet(S) /\ Cardinality(S) <= Cardinality(1 .. n)
        /\ Cardinality(1 .. n) = Cardinality(S) => 1 .. n = S
    BY <1>1, FS_Subset
  <2>2. Cardinality(S) \in Nat
    BY <2>1, FS_CardinalityType
  <2>. QED
    BY <1>1, <2>1, <2>2
<1>. DEFINE U(i) == {j \in S : j <= i}
<1>3. ASSUME NEW i \in S
      PROVE  /\ U(i) \in SUBSET S /\ IsFiniteSet(U(i)) /\ i \in U(i)
             /\ Rank(S, i) = Cardinality(U(i))
             /\ Rank(S, i) \in Nat /\ Rank(S, i) \in 1 .. Cardinality(S)
  <2>1. i \in U(i)
    OBVIOUS
  <2>2. /\ IsFiniteSet(U(i)) /\ Cardinality(U(i)) <= Cardinality(S)
        /\ U(i) \in SUBSET S
    BY <1>2, FS_Subset
  <2>3. Cardinality(U(i)) \in Nat /\ Cardinality(U(i)) # 0
    BY <2>1, <2>2, FS_CardinalityType, FS_EmptySet
  <2>4. Rank(S, i) = Cardinality(U(i))
    BY DEF Rank
  <2>. HIDE DEF U
  <2>5. Cardinality(U(i)) \in 1 .. Cardinality(S)
    BY <1>2, <2>2, <2>3
  <2>. QED
    BY <2>1, <2>2, <2>3, <2>4, <2>5, Zenon
<1>4. ASSUME NEW i \in S, NEW j \in S, i < j
      PROVE  Rank(S, i) # Rank(S, j)
  <2>0. i \in Int /\ j \in Int /\ \A x \in S : x \in Int
    OBVIOUS
  <2>1. U(i) \in SUBSET U(j) /\ j \notin U(i) /\ j \in U(j)
    <3>1. \A x \in S : x <= i => x <= j
      BY <1>4, <2>0
    <3>2. ~(j <= i) /\ j <= j
      BY <1>4, <2>0
    <3>. QED
      BY <3>1, <3>2
  <2>2. IsFiniteSet(U(j)) /\ Rank(S, i) = Cardinality(U(i))
        /\ Rank(S, j) = Cardinality(U(j))
    BY <1>3
  <2>. HIDE DEF U
  <2>3. Cardinality(U(j)) = Cardinality(U(i)) => U(j) = U(i)
    BY <2>1, <2>2, FS_Subset
  <2>. QED
    BY <2>1, <2>2, <2>3
<1>5. ASSUME NEW i \in S, NEW j \in S, Rank(S, i) = Rank(S, j)
      PROVE  i = j
  <2>1. i \in Int /\ j \in Int /\ (i = j \/ i < j \/ j < i)
    OBVIOUS
  <2>. QED
    BY <1>4, <1>5, <2>1
<1>6. ASSUME NEW m \in 1 .. Cardinality(S), \A i \in S : Rank(S, i) # m
      PROVE  FALSE
  <2>. DEFINE c == Cardinality(S)
              T == (1 .. c) \ {m}
              f == [i \in S |-> Rank(S, i)]
  <2>1. f \in [S -> T]
    BY <1>3, <1>6
  <2>2. IsFiniteSet(1 .. c) /\ Cardinality(1 .. c) = c
    BY <1>2, FS_Interval
  <2>3. IsFiniteSet(T) /\ Cardinality(T) < c
    <3>1. /\ IsFiniteSet(T)
          /\ Cardinality(T) = IF m \in 1 .. c THEN Cardinality(1 .. c) - 1
                              ELSE Cardinality(1 .. c)
      BY <2>2, FS_RemoveElement
    <3>. HIDE DEF T
    <3>. QED
      BY <1>2, <2>2, <3>1
  <2>4. \A x, y \in S : f[x] = f[y] => x = y
    BY <1>5
  <2>. HIDE DEF f, T
  <2>5. \E x, y \in S : x # y /\ f[x] = f[y]
    BY <1>2, <2>1, <2>3, FS_PigeonHole
  <2>. QED
    BY <2>4, <2>5
<1>. QED
  BY <1>2, <1>3, <1>5, <1>6

\* Of some positions one is the last.
LEMMA LastPosition ==
  ASSUME NEW n \in Nat, NEW S \in SUBSET (1 .. n), S # {}
  PROVE  \E i \in S : \A j \in S : j <= i
<1>1. IsFiniteSet(S) /\ Cardinality(S) \in Nat
  BY Ranks
<1>2. Cardinality(S) # 0
  BY <1>1, FS_EmptySet
<1>3. PICK i \in S : Rank(S, i) = Cardinality(S)
  <2>1. Cardinality(S) \in 1 .. Cardinality(S)
    BY <1>1, <1>2
  <2>. QED
    BY <2>1, Ranks
<1>4. {j \in S : j <= i} = S
  <2>1. {j \in S : j <= i} \in SUBSET S
    OBVIOUS
  <2>2. Cardinality({j \in S : j <= i}) = Cardinality(S)
    BY <1>3 DEF Rank
  <2>. QED
    BY <1>1, <2>1, <2>2, FS_Subset
<1>. QED
  BY <1>4

\* Taking keys off a queue.
LEMMA WithoutProps ==
  ASSUME NEW q \in Seq(Keys), NEW G
  PROVE  /\ Without(q, G) \in Seq(Keys)
         /\ ToSet(Without(q, G)) = ToSet(q) \ G
         /\ Len(Without(q, G)) \in Nat
         /\ Len(Without(q, G)) <= Len(q)
         /\ ToSet(q) \cap G # {} => Len(Without(q, G)) < Len(q)
         /\ IsInjective(q) => IsInjective(Without(q, G))
<1>. DEFINE S == {i \in DOMAIN q : q[i] \notin G}
            c == Cardinality(S)
            at == [n \in 1 .. c |-> CHOOSE i \in S : Rank(S, i) = n]
            r == [n \in 1 .. c |-> q[at[n]]]
<1>1. Without(q, G) = r
  BY DEF Without, Rank
<1>2. Len(q) \in Nat /\ DOMAIN q = 1 .. Len(q) /\ \A i \in 1 .. Len(q) : q[i] \in Keys
  BY LenProperties, ElementOfSeq
<1>3. S \in SUBSET (1 .. Len(q))
  BY <1>2
<1>4. S # DOMAIN q <=> ToSet(q) \cap G # {}
  BY DEF ToSet
<1>5. \A i \in S : i \in DOMAIN q /\ q[i] \notin G
  OBVIOUS
<1>6. ToSet(q) \ G = {q[i] : i \in S}
  BY DEF ToSet
<1>. HIDE DEF S
<1>7. /\ IsFiniteSet(S) /\ c \in Nat /\ c <= Len(q)
      /\ S # 1 .. Len(q) => c < Len(q)
      /\ \A i \in S : Rank(S, i) \in 1 .. c
      /\ \A i, j \in S : Rank(S, i) = Rank(S, j) => i = j
      /\ \A m \in 1 .. c : \E i \in S : Rank(S, i) = m
  BY <1>2, <1>3, Ranks
<1>. HIDE DEF c
<1>8. \A n \in 1 .. c : at[n] \in S /\ Rank(S, at[n]) = n
  BY <1>7
<1>9. \A i \in S : at[Rank(S, i)] = i
  BY <1>7, <1>8
<1>. HIDE DEF at
<1>10. r \in Seq(Keys) /\ Len(r) = c /\ DOMAIN r = 1 .. c
  <2>1. \A n \in 1 .. c : q[at[n]] \in Keys
    BY <1>2, <1>5, <1>8
  <2>. QED
    BY <1>7, <2>1, SeqDef, LenProperties
<1>11. ToSet(r) = ToSet(q) \ G
  <2>1. ToSet(r) = {r[n] : n \in 1 .. c}
    BY <1>10 DEF ToSet
  <2>2. \A n \in 1 .. c : r[n] = q[at[n]]
    OBVIOUS
  <2>3. ASSUME NEW i \in S PROVE \E n \in 1 .. c : r[n] = q[i]
    BY <1>7, <1>9
  <2>. QED
    BY <1>6, <1>8, <2>1, <2>2, <2>3
<1>12. ASSUME IsInjective(q), NEW m \in 1 .. c, NEW n \in 1 .. c, r[m] = r[n]
       PROVE  m = n
  <2>1. at[m] = at[n]
    BY <1>5, <1>8, <1>12 DEF IsInjective
  <2>. QED
    BY <1>8, <2>1
<1>13. IsInjective(q) => IsInjective(r)
  BY <1>10, <1>12 DEF IsInjective
<1>. HIDE DEF r
<1>. QED
  BY <1>1, <1>2, <1>4, <1>7, <1>10, <1>11, <1>13

\* Linking a key at the head of a queue.
LEMMA TouchProps ==
  ASSUME NEW q \in Seq(Keys), IsInjective(q), NEW k \in Keys
  PROVE  /\ Touch(q, k) \in Seq(Keys)
         /\ IsInjective(Touch(q, k))
         /\ ToSet(Touch(q, k)) = {k} \cup ToSet(q)
         /\ Len(Touch(q, k)) <= Len(q) + 1
         /\ k \in ToSet(q) => Len(Touch(q, k)) <= Len(q)
<1>. DEFINE r == Without(q, {k})
            t == <<k>> \o r
<1>1. /\ r \in Seq(Keys) /\ ToSet(r) = ToSet(q) \ {k} /\ Len(r) \in Nat
      /\ Len(r) <= Len(q) /\ (ToSet(q) \cap {k} # {} => Len(r) < Len(q))
      /\ IsInjective(r)
  BY WithoutProps
<1>2. Len(q) \in Nat
  BY LenProperties
<1>3. Touch(q, k) = t
  BY DEF Touch, Cons
<1>. HIDE DEF r
<1>4. <<k>> \in Seq(Keys) /\ Len(<<k>>) = 1 /\ <<k>>[1] = k
  OBVIOUS
<1>5. /\ t \in Seq(Keys) /\ Len(t) = 1 + Len(r)
      /\ \A i \in 1 .. 1 + Len(r) : t[i] = IF i <= 1 THEN <<k>>[i] ELSE r[i - 1]
  BY <1>1, <1>4, ConcatProperties
<1>. HIDE DEF t
<1>6. DOMAIN t = 1 .. 1 + Len(r) /\ DOMAIN r = 1 .. Len(r)
  BY <1>1, <1>5, LenProperties
<1>7. t[1] = k /\ \A i \in 1 .. Len(r) : t[i + 1] = r[i]
  BY <1>1, <1>4, <1>5
<1>8. \A i \in DOMAIN t : i = 1 \/ (i - 1 \in 1 .. Len(r) /\ t[i] = r[i - 1])
  BY <1>1, <1>5, <1>6
<1>9. \A i \in 1 .. Len(r) : r[i] \in ToSet(r) /\ r[i] # k
  BY <1>1, <1>6 DEF ToSet
<1>10. ToSet(t) = {k} \cup ToSet(q)
  <2>1. \A i \in DOMAIN t : t[i] \in {k} \cup ToSet(r)
    BY <1>7, <1>8, <1>9
  <2>2. \A x \in {k} \cup ToSet(r) : \E i \in DOMAIN t : t[i] = x
    <3>1. 1 \in DOMAIN t
      BY <1>1, <1>6
    <3>2. \A i \in 1 .. Len(r) : i + 1 \in DOMAIN t
      BY <1>1, <1>6
    <3>3. \A x \in ToSet(r) : \E i \in 1 .. Len(r) : r[i] = x
      BY <1>6 DEF ToSet
    <3>. QED
      BY <1>7, <3>1, <3>2, <3>3
  <2>3. ToSet(t) = {k} \cup ToSet(r)
    BY <2>1, <2>2 DEF ToSet
  <2>. QED
    BY <1>1, <2>3
<1>11. IsInjective(t)
  <2>1. ASSUME NEW i \in DOMAIN t, NEW j \in DOMAIN t, t[i] = t[j]
        PROVE  i = j
    <3>1. i \in Int /\ j \in Int
      BY <1>1, <1>6
    <3>2. CASE i = 1 \/ j = 1
      BY <1>7, <1>8, <1>9, <2>1, <3>2
    <3>3. CASE i # 1 /\ j # 1
      <4>1. i - 1 = j - 1
        BY <1>1, <1>6, <1>8, <2>1, <3>3 DEF IsInjective
      <4>. QED
        BY <3>1, <4>1
    <3>. QED
      BY <3>2, <3>3
  <2>. QED
    BY <2>1 DEF IsInjective
<1>. QED
  BY <1>1, <1>2, <1>3, <1>5, <1>10, <1>11

\* Dropping the last element leaves a prefix.
LEMMA FrontProps ==
  ASSUME NEW q \in Seq(Keys), q # << >>
  PROVE  /\ Len(q) \in Nat \ {0}
         /\ Front(q) \in Seq(Keys)
         /\ Len(Front(q)) = Len(q) - 1
         /\ \A i \in 1 .. Len(q) - 1 : Front(q)[i] = q[i]
<1>1. Len(q) \in Nat \ {0} /\ \A i \in 1 .. Len(q) : q[i] \in Keys
  BY EmptySeq, LenProperties, ElementOfSeq
<1>. DEFINE n == Len(q) - 1
<1>2. n \in Nat /\ \A i \in 1 .. n : q[i] \in Keys
  BY <1>1
<1>3. Front(q) = SubSeq(q, 1, n)
  BY DEF Front
<1>. HIDE DEF n
<1>4. /\ SubSeq(q, 1, n) \in Seq(Keys)
      /\ Len(SubSeq(q, 1, n)) = IF 1 <= n THEN n - 1 + 1 ELSE 0
      /\ \A i \in 1 .. n - 1 + 1 : SubSeq(q, 1, n)[i] = q[1 + i - 1]
  BY <1>2, SubSeqProperties
<1>5. Len(SubSeq(q, 1, n)) = n /\ \A i \in 1 .. n : SubSeq(q, 1, n)[i] = q[i]
  BY <1>2, <1>4
<1>. QED
  BY <1>1, <1>3, <1>4, <1>5 DEF n

\* q is the queue with some ended decisions cut off its tail.
Cut(q) ==
  /\ q \in Seq(Keys)
  /\ Len(q) \in Nat /\ Len(q) <= Len(queue)
  /\ \A i \in 1 .. Len(q) : q[i] = queue[i]
  /\ \A i \in Len(q) + 1 .. Len(queue) : table[queue[i]].expiry <= clock

\* sentinel_shm_expire cuts the tail of what it is given.
LEMMA TailCut ==
  ASSUME queue \in Seq(Keys), NEW q, Cut(q)
  PROVE  Cut(ExpireTail(q))
<1>1. CASE ExpireTail(q) = q
  BY <1>1
<1>2. CASE ExpireTail(q) # q
  <2>1. /\ q # << >> /\ q \in Seq(Keys) /\ ExpireTail(q) = Front(q)
        /\ table[q[Len(q)]].expiry <= clock
    BY <1>2 DEF ExpireTail, Last, Cut
  <2>2. /\ Len(q) \in Nat \ {0}
        /\ Front(q) \in Seq(Keys)
        /\ Len(Front(q)) = Len(q) - 1
        /\ \A i \in 1 .. Len(q) - 1 : Front(q)[i] = q[i]
    BY <2>1, FrontProps
  <2>3. Len(queue) \in Nat
    BY LenProperties
  <2>4. \A i \in Len(q) .. Len(queue) : table[queue[i]].expiry <= clock
    BY <2>1, <2>2, <2>3 DEF Cut
  <2>. QED
    BY <2>1, <2>2, <2>3, <2>4 DEF Cut
<1>. QED
  BY <1>1, <1>2

\* What is left after sentinel_shm_expire: only ended decisions are gone.
LEMMA ExpireProps ==
  ASSUME Inv
  PROVE  /\ Expire(queue) \in Seq(Keys)
         /\ IsInjective(Expire(queue))
         /\ ToSet(Expire(queue)) \subseteq DOMAIN table
         /\ Len(Expire(queue)) \in Nat /\ Len(Expire(queue)) <= Len(queue)
         /\ \A k \in DOMAIN table :
              k \notin ToSet(Expire(queue)) => table[k].expiry <= clock
<1>. DEFINE q == Expire(queue)
<1>1. /\ queue \in Seq(Keys) /\ Len(queue) \in Nat
      /\ DOMAIN queue = 1 .. Len(queue)
      /\ IsInjective(queue) /\ DOMAIN table = ToSet(queue)
  BY LenProperties DEF Inv, TypeOK, ZoneConsistent
<1>2. Cut(queue)
  BY <1>1 DEF Cut
<1>3. Cut(q)
  BY <1>1, <1>2, TailCut DEF Expire
<1>. HIDE DEF q
<1>4. DOMAIN q = 1 .. Len(q)
  BY <1>3, LenProperties DEF Cut
<1>5. \A i \in 1 .. Len(q) : i \in 1 .. Len(queue) /\ q[i] = queue[i]
  BY <1>1, <1>3 DEF Cut
<1>6. IsInjective(q) /\ ToSet(q) \subseteq DOMAIN table
  BY <1>1, <1>4, <1>5 DEF IsInjective, ToSet
<1>7. ASSUME NEW k \in DOMAIN table, k \notin ToSet(q)
      PROVE  table[k].expiry <= clock
  <2>1. PICK i \in 1 .. Len(queue) : queue[i] = k
    BY <1>1 DEF ToSet
  <2>2. i \notin 1 .. Len(q)
    BY <1>4, <1>5, <1>7, <2>1 DEF ToSet
  <2>3. i \in Len(q) + 1 .. Len(queue)
    BY <1>1, <1>3, <2>2 DEF Cut
  <2>. QED
    BY <1>3, <2>1, <2>3 DEF Cut
<1>. QED
  BY <1>3, <1>6, <1>7 DEF q, Cut

-----------------------------------------------------------------------------
(* The zone stays consistent. *)

\* The two parts of the invariant: the structures under the mutex, and the
\* loads, the file and the mutex itself.
ZonePart ==
  /\ queue \in Seq(Keys)
  /\ table \in [ToSet(queue) -> Node]
  /\ IsInjective(queue)
  /\ Len(queue) <= Capacity

ControlPart ==
  /\ clock \in Nat
  /\ file \in [mtime : Nat, feed : Feed]
  /\ generation \in Nat
  /\ lock \in Workers \cup {None}
  /\ pc \in [Workers -> {"idle", "read", "bump", "apply", "sweep"}]
  /\ job \in [Workers -> Job]
  /\ last_mtime \in [Workers -> Nat]
  /\ env \in [writes : 0 .. MaxWrites, crashes : 0 .. MaxCrashes,
              pulls : 0 .. MaxPulls]
  /\ lock # None => pc[lock] = "apply"

LEMMA InvParts == Inv <=> ZonePart /\ ControlPart
  BY DEF Inv, TypeOK, ZoneConsistent, ZonePart, ControlPart

LEMMA InvPartsNext == ZonePart' /\ ControlPart' => Inv'
  BY DEF Inv, TypeOK, ZoneConsistent, ZonePart, ControlPart

\* sentinel_shm_crowdsec_upsert.
LEMMA UpsertZone ==
  ASSUME ZonePart, NEW k \in Keys, NEW n \in Node, HasRoom(k), Upsert(k, n)
  PROVE  ZonePart'
<1>1. /\ queue \in Seq(Keys) /\ IsInjective(queue)
      /\ table \in [ToSet(queue) -> Node] /\ Len(queue) <= Capacity
      /\ Len(queue) \in Nat
  BY LenProperties DEF ZonePart
<1>. DEFINE q == Touch(queue, k)
<1>2. /\ q \in Seq(Keys) /\ IsInjective(q) /\ ToSet(q) = {k} \cup ToSet(queue)
      /\ Len(q) <= Len(queue) + 1 /\ (k \in ToSet(queue) => Len(q) <= Len(queue))
  BY <1>1, TouchProps
<1>3. Len(q) \in Nat
  BY <1>2, LenProperties
<1>4. queue' = q
  BY DEF Upsert
<1>. HIDE DEF q
<1>5. table' = [x \in ToSet(q) |-> IF x = k THEN n ELSE table[x]]
  BY <1>1, <1>2 DEF Upsert
<1>6. table' \in [ToSet(q) -> Node]
  BY <1>1, <1>2, <1>5
<1>7. Len(q) <= Capacity
  BY <1>1, <1>2, <1>3, FeedAssumption DEF HasRoom
<1>. QED
  BY <1>2, <1>4, <1>6, <1>7 DEF ZonePart

\* sentinel_shm_crowdsec_lookup.
LEMMA LookupZone ==
  ASSUME Inv, NEW w \in Workers, NEW k \in Keys, Lookup(w, k)
  PROVE  ZonePart'
<1>. DEFINE q == Expire(queue)
<1>1. /\ queue \in Seq(Keys) /\ table \in [ToSet(queue) -> Node]
      /\ Len(queue) <= Capacity /\ Len(queue) \in Nat /\ clock \in Nat
  BY LenProperties DEF Inv, TypeOK, ZoneConsistent
<1>2. /\ q \in Seq(Keys) /\ IsInjective(q) /\ ToSet(q) \subseteq DOMAIN table
      /\ Len(q) \in Nat /\ Len(q) <= Len(queue)
  BY ExpireProps
<1>3. /\ queue' = IF k \in ToSet(q) THEN Touch(q, k) ELSE q
      /\ table' = [x \in ToSet(q) |->
                     IF x = k THEN [table[x] EXCEPT !.last_seen = clock]
                              ELSE table[x]]
  BY DEF Lookup
<1>. HIDE DEF q
<1>4. table' \in [ToSet(q) -> Node]
  <2>1. \A x \in ToSet(q) : table[x] \in Node
    BY <1>1, <1>2
  <2>2. \A n \in Node : [n EXCEPT !.last_seen = clock] \in Node
    BY <1>1 DEF Node
  <2>. QED
    BY <1>3, <2>1, <2>2
<1>5. CASE k \in ToSet(q)
  <2>1. /\ Touch(q, k) \in Seq(Keys) /\ IsInjective(Touch(q, k))
        /\ ToSet(Touch(q, k)) = {k} \cup ToSet(q)
        /\ Len(Touch(q, k)) <= Len(q)
    BY <1>2, <1>5, TouchProps
  <2>2. Len(Touch(q, k)) \in Nat
    BY <2>1, LenProperties
  <2>3. ToSet(Touch(q, k)) = ToSet(q) /\ Len(Touch(q, k)) <= Capacity
    BY <1>1, <1>2, <1>5, <2>1, <2>2, FeedAssumption
  <2>. QED
    BY <1>3, <1>4, <1>5, <2>1, <2>3 DEF ZonePart
<1>6. CASE k \notin ToSet(q)
  <2>1. Len(q) <= Capacity
    BY <1>1, <1>2, FeedAssumption
  <2>. QED
    BY <1>2, <1>3, <1>4, <1>6, <2>1 DEF ZonePart
<1>. QED
  BY <1>5, <1>6

\* sentinel_shm_crowdsec_sweep.
LEMMA SweepZone ==
  ASSUME ZonePart, NEW w \in Workers, SweepBatch(w)
  PROVE  ZonePart'
<1>. DEFINE G == Swept(job[w].generation)
            q == Without(queue, G)
<1>1. /\ queue \in Seq(Keys) /\ IsInjective(queue)
      /\ table \in [ToSet(queue) -> Node] /\ Len(queue) <= Capacity
      /\ Len(queue) \in Nat
  BY LenProperties DEF ZonePart
<1>2. /\ q \in Seq(Keys) /\ ToSet(q) = ToSet(queue) \ G /\ Len(q) \in Nat
      /\ Len(q) <= Len(queue) /\ IsInjective(q)
  BY <1>1, WithoutProps
<1>3. /\ queue' = q
      /\ table' = [k \in DOMAIN table \ G |-> table[k]]
  BY DEF SweepBatch
<1>. HIDE DEF q, G
<1>4. table' \in [ToSet(q) -> Node]
  BY <1>1, <1>2, <1>3
<1>5. Len(q) <= Capacity
  BY <1>1, <1>2, FeedAssumption
<1>. QED
  BY <1>2, <1>3, <1>4, <1>5 DEF ZonePart

Lines == Seq(Line \cup {Malformed})

\* Assigning to the locals of a load.
LEMMA JobFields ==
  /\ \A j \in Job, b \in Lines :
       [j EXCEPT !.feed = b] \in Job /\ [j EXCEPT !.rest = b] \in Job
  /\ \A j \in Job, g \in Nat :
       [j EXCEPT !.generation = g] \in Job /\ [j EXCEPT !.applied = g] \in Job
  BY DEF Job, Lines

\* A worker that is not loading.
LEMMA NoJobType == NoJob \in Job
<1>1. << >> \in Lines
  BY DEF Lines
<1>2. Job = [mtime : Nat, size : Nat, now : Nat, feed : Lines, rest : Lines,
             generation : Nat, applied : Nat]
  BY DEF Job, Lines
<1>. QED
  BY <1>1, <1>2 DEF NoJob

\* The locals of a load that starts.
NewJob(m, s, t) == [NoJob EXCEPT !.mtime = m, !.size = s, !.now = t]

LEMMA JobStarts ==
  ASSUME NEW m \in Nat, NEW s \in Nat, NEW t \in Nat
  PROVE  /\ NewJob(m, s, t) \in Job
         /\ NewJob(m, s, t).mtime = m /\ NewJob(m, s, t).now = t
<1>. DEFINE a == [NoJob EXCEPT !.mtime = m]
            b == [a EXCEPT !.size = s]
            c == [b EXCEPT !.now = t]
<1>1. NewJob(m, s, t) = c
  BY DEF NewJob
<1>2. a \in Job /\ a.mtime = m
  BY NoJobType DEF Job
<1>. HIDE DEF a
<1>3. b \in Job /\ b.mtime = m
  BY <1>2 DEF Job
<1>. HIDE DEF b
<1>4. c \in Job /\ c.mtime = m /\ c.now = t
  BY <1>3 DEF Job
<1>. HIDE DEF c
<1>. QED
  BY <1>1, <1>4

\* What the worker's own locals are after its step.
LEMMA JobAfter ==
  ASSUME ControlPart, NEW w \in Workers, NEW j \in Job,
         job' = [job EXCEPT ![w] = j]
  PROVE  job' \in [Workers -> Job]
BY DEF ControlPart

\* The first line of what is left, and the rest of it.
LEMMA RestProps ==
  ASSUME NEW r \in Lines, r # << >>
  PROVE  /\ Head(r) \in Line \cup {Malformed} /\ Head(r) = r[1]
         /\ Tail(r) \in Lines
         /\ Len(r) \in Nat \ {0} /\ Len(Tail(r)) = Len(r) - 1
         /\ \A n \in 1 .. Len(r) - 1 : Tail(r)[n] = r[n + 1]
<1>1. /\ Len(r) \in Nat \ {0} /\ \A n \in 1 .. Len(r) : r[n] \in Line \cup {Malformed}
  BY EmptySeq, LenProperties, ElementOfSeq DEF Lines
<1>2. /\ Head(r) \in Line \cup {Malformed} /\ Head(r) = r[1]
      /\ Tail(r) \in Lines /\ Len(Tail(r)) = Len(r) - 1
      /\ \A n \in 1 .. Len(Tail(r)) : Tail(r)[n] = r[n + 1]
  BY HeadTailProperties DEF Lines
<1>. QED
  BY <1>1, <1>2

\* Every load's locals, and the lines of a file, are what they should be.
LEMMA ControlFacts ==
  ASSUME ControlPart, NEW w \in Workers
  PROVE  /\ job[w] \in Job /\ job[w].feed \in Lines /\ job[w].rest \in Lines
         /\ job[w].mtime \in Nat /\ job[w].now \in Nat /\ job[w].size \in Nat
         /\ job[w].generation \in Nat /\ job[w].applied \in Nat
         /\ file.mtime \in Nat /\ file.feed \in Feed /\ file.feed.body \in Lines
         /\ Len(file.feed.body) \in Nat
         /\ last_mtime[w] \in Nat
<1>1. job[w] \in Job /\ file \in [mtime : Nat, feed : Feed] /\ last_mtime[w] \in Nat
  BY DEF ControlPart
<1>2. file.mtime \in Nat /\ file.feed \in Feed
  BY <1>1
<1>3. file.feed.body \in Lines
  BY <1>2 DEF Feed, Lines
<1>4. Len(file.feed.body) \in Nat
  BY <1>3, LenProperties DEF Lines
<1>. QED
  BY <1>1, <1>2, <1>3, <1>4 DEF Job, Lines

\* A step of worker w that moves its program counter, and one that does not.
LEMMA PcStep ==
  ASSUME ControlPart, NEW w \in Workers, pc[w] # "apply",
         NEW p \in {"idle", "read", "bump", "apply", "sweep"},
         pc' = [pc EXCEPT ![w] = p],
         job' \in [Workers -> Job], last_mtime' \in [Workers -> Nat],
         generation' \in Nat,
         clock' = clock, file' = file, lock' = lock, env' = env
  PROVE  ControlPart'
<1>1. /\ lock \in Workers \cup {None}
      /\ pc \in [Workers -> {"idle", "read", "bump", "apply", "sweep"}]
      /\ lock # None => lock \in Workers /\ lock # w /\ pc[lock] = "apply"
  BY DEF ControlPart
<1>2. /\ pc' \in [Workers -> {"idle", "read", "bump", "apply", "sweep"}]
      /\ lock' # None => pc'[lock'] = "apply"
  BY <1>1
<1>. QED
  BY <1>2 DEF ControlPart

LEMMA JobStep ==
  ASSUME ControlPart, job' \in [Workers -> Job],
         clock' = clock, file' = file, generation' = generation, lock' = lock,
         pc' = pc, last_mtime' = last_mtime, env' = env
  PROVE  ControlPart'
BY DEF ControlPart

\* The steps of a load keep the control part.
LEMMA LoadControl ==
  ASSUME ControlPart, NEW w \in Workers, Load(w)
  PROVE  ControlPart'
<1>1. /\ job[w] \in Job /\ job[w].feed \in Lines /\ job[w].rest \in Lines
      /\ job[w].mtime \in Nat /\ job[w].now \in Nat /\ job[w].size \in Nat
      /\ job[w].generation \in Nat /\ job[w].applied \in Nat
      /\ file.mtime \in Nat /\ file.feed \in Feed /\ file.feed.body \in Lines
      /\ Len(file.feed.body) \in Nat
  BY ControlFacts
<1>2. /\ clock \in Nat /\ generation \in Nat /\ lock \in Workers \cup {None}
      /\ pc \in [Workers -> {"idle", "read", "bump", "apply", "sweep"}]
      /\ job \in [Workers -> Job] /\ last_mtime \in [Workers -> Nat]
      /\ lock # None => pc[lock] = "apply"
  BY DEF ControlPart
<1>3. NoJob \in Job
  BY NoJobType
<1>4. CASE Stat(w)
  <2>0. PICK j : j = NewJob(file.mtime, Len(file.feed.body), clock)
    OBVIOUS
  <2>1. j \in Job
    BY <1>1, <1>2, <2>0, JobStarts
  <2>2. job' = [job EXCEPT ![w] = j]
    BY <1>4, <2>0 DEF Stat, NewJob
  <2>3. job' \in [Workers -> Job]
    BY <2>1, <2>2, JobAfter
  <2>4. /\ pc[w] = "idle" /\ pc' = [pc EXCEPT ![w] = "read"]
        /\ clock' = clock /\ file' = file /\ lock' = lock /\ env' = env
        /\ generation' = generation /\ last_mtime' = last_mtime
    BY <1>4 DEF Stat, zone
  <2>. QED
    BY <1>2, <2>3, <2>4, PcStep
<1>5. CASE Read(w)
  <2>. DEFINE y == [job[w] EXCEPT !.feed = file.feed.body]
              j == [y EXCEPT !.rest = file.feed.body]
  <2>1. job' = [job EXCEPT ![w] = j]
    BY <1>2, <1>5 DEF Read
  <2>2. y \in Job
    BY <1>1, JobFields
  <2>. HIDE DEF y
  <2>3. j \in Job
    BY <1>1, <2>2, JobFields
  <2>. HIDE DEF j
  <2>4. job' \in [Workers -> Job]
    BY <2>1, <2>3, JobAfter
  <2>5. /\ pc[w] = "read" /\ pc' = [pc EXCEPT ![w] = "bump"]
        /\ clock' = clock /\ file' = file /\ lock' = lock /\ env' = env
        /\ generation' = generation /\ last_mtime' = last_mtime
    BY <1>5 DEF Read, zone
  <2>. QED
    BY <1>2, <2>4, <2>5, PcStep
<1>6. CASE Reject(w)
  <2>1. job' \in [Workers -> Job]
    BY <1>3, <1>6, JobAfter DEF Reject
  <2>2. /\ pc[w] = "read" /\ pc' = [pc EXCEPT ![w] = "idle"]
        /\ clock' = clock /\ file' = file /\ lock' = lock /\ env' = env
        /\ generation' = generation /\ last_mtime' = last_mtime
    BY <1>6 DEF Reject, zone
  <2>. QED
    BY <1>2, <2>1, <2>2, PcStep
<1>7. CASE Bump(w)
  <2>1. generation' \in Nat /\ generation' = generation + 1
    BY <1>2, <1>7 DEF Bump
  <2>2. job' \in [Workers -> Job]
    <3>1. [job[w] EXCEPT !.generation = generation'] \in Job
      BY <1>1, <2>1, JobFields
    <3>2. job' = [job EXCEPT ![w] = [job[w] EXCEPT !.generation = generation']]
      BY <1>2, <1>7 DEF Bump
    <3>. QED
      BY <1>2, <3>1, <3>2
  <2>3. /\ pc[w] = "bump" /\ pc' = [pc EXCEPT ![w] = "apply"]
        /\ clock' = clock /\ file' = file /\ lock' = lock /\ env' = env
        /\ last_mtime' = last_mtime
    BY <1>7 DEF Bump, zone
  <2>. QED
    BY <1>2, <2>1, <2>2, <2>3, PcStep
<1>8. CASE Lock(w)
  <2>1. /\ pc[w] = "apply" /\ lock' = w /\ pc' = pc /\ clock' = clock
        /\ file' = file /\ generation' = generation /\ job' = job
        /\ last_mtime' = last_mtime /\ env' = env
    BY <1>8 DEF Lock, zone
  <2>. QED
    BY <2>1 DEF ControlPart
<1>9. CASE SkipLine(w)
  <2>1. Tail(job[w].rest) \in Lines
    BY <1>1, <1>9, RestProps DEF SkipLine
  <2>2. job' = [job EXCEPT ![w] = [job[w] EXCEPT !.rest = Tail(job[w].rest)]]
    BY <1>2, <1>9 DEF SkipLine
  <2>3. job' \in [Workers -> Job]
    BY <1>1, <2>1, <2>2, JobFields, JobAfter
  <2>4. /\ pc' = pc /\ lock' = lock
        /\ clock' = clock /\ file' = file /\ generation' = generation
        /\ last_mtime' = last_mtime /\ env' = env
    BY <1>9 DEF SkipLine, zone
  <2>. QED
    BY <2>3, <2>4, JobStep
<1>10. CASE ApplyLine(w)
  <2>. DEFINE y == [job[w] EXCEPT !.rest = Tail(job[w].rest)]
              j == [y EXCEPT !.applied = job[w].applied + 1]
  <2>1. Tail(job[w].rest) \in Lines
    BY <1>1, <1>10, RestProps DEF ApplyLine
  <2>2. job' = [job EXCEPT ![w] = j]
    BY <1>2, <1>10 DEF ApplyLine
  <2>3. y \in Job
    BY <1>1, <2>1, JobFields
  <2>. HIDE DEF y
  <2>4. j \in Job
    <3>1. job[w].applied + 1 \in Nat
      BY <1>1
    <3>. QED
      BY <2>3, <3>1, JobFields
  <2>. HIDE DEF j
  <2>5. job' \in [Workers -> Job]
    BY <2>2, <2>4, JobAfter
  <2>6. /\ lock = w /\ lock' \in {None, w} /\ pc' = pc /\ clock' = clock
        /\ file' = file /\ generation' = generation /\ last_mtime' = last_mtime
        /\ env' = env
    BY <1>10 DEF ApplyLine
  <2>. QED
    BY <1>2, <2>5, <2>6 DEF ControlPart
<1>11. CASE ApplyFull(w)
  <2>1. << >> \in Lines
    BY EmptySeq DEF Lines
  <2>2. job' = [job EXCEPT ![w] = [job[w] EXCEPT !.rest = << >>]]
    BY <1>2, <1>11 DEF ApplyFull
  <2>3. job' \in [Workers -> Job]
    BY <1>1, <2>1, <2>2, JobFields, JobAfter
  <2>4. /\ pc' = pc /\ lock' = lock
        /\ clock' = clock /\ file' = file /\ generation' = generation
        /\ last_mtime' = last_mtime /\ env' = env
    BY <1>11 DEF ApplyFull, zone
  <2>. QED
    BY <2>3, <2>4, JobStep
<1>12. CASE ApplyEnd(w)
  <2>1. /\ lock' = None /\ pc' = [pc EXCEPT ![w] = "sweep"] /\ job' = job
        /\ clock' = clock /\ file' = file /\ generation' = generation
        /\ last_mtime' = last_mtime /\ env' = env
    BY <1>12 DEF ApplyEnd, zone
  <2>. QED
    BY <1>2, <2>1 DEF ControlPart
<1>13. CASE SweepBatch(w)
  BY <1>13 DEF SweepBatch, ControlPart
<1>14. CASE SweepDone(w)
  <2>1. job' \in [Workers -> Job]
    BY <1>3, <1>14, JobAfter DEF SweepDone
  <2>2. last_mtime' \in [Workers -> Nat]
    BY <1>1, <1>14 DEF SweepDone, ControlPart
  <2>3. /\ pc[w] = "sweep" /\ pc' = [pc EXCEPT ![w] = "idle"]
        /\ clock' = clock /\ file' = file /\ lock' = lock /\ env' = env
        /\ generation' = generation
    BY <1>14 DEF SweepDone, zone
  <2>. QED
    BY <1>2, <2>1, <2>2, <2>3, PcStep
<1>. QED
  BY <1>4, <1>5, <1>6, <1>7, <1>8, <1>9, <1>10, <1>11, <1>12, <1>13, <1>14 DEF Load

\* What a step of a load does to the zone keeps it consistent.
LEMMA LoadZone ==
  ASSUME Inv, NEW w \in Workers, Load(w)
  PROVE  ZonePart'
<1>1. ZonePart /\ ControlPart
  BY InvParts
<1>2. CASE UNCHANGED <<table, queue>>
  BY <1>1, <1>2 DEF ZonePart
<1>3. CASE ApplyLine(w)
  <2>. DEFINE l == Head(job[w].rest)
              n == [expiry       |-> Expiry(l, job[w].now),
                    action       |-> l.action,
                    generation   |-> job[w].generation,
                    redis_pulled |-> FALSE,
                    last_seen    |-> job[w].now]
  <2>1. /\ job[w].rest # << >> /\ Running(l, job[w].now) /\ HasRoom(l.ip)
        /\ Upsert(l.ip, n)
    BY <1>3 DEF ApplyLine
  <2>2. /\ job[w].rest \in Lines /\ job[w].now \in Nat /\ job[w].generation \in Nat
    BY <1>1, ControlFacts
  <2>3. l \in Line \cup {Malformed}
    BY <2>1, <2>2, RestProps
  <2>. HIDE DEF l
  <2>4. l \in Line
    BY <2>1, <2>3 DEF Running
  <2>5. Expiry(l, job[w].now) \in Nat
    BY <2>2, <2>4, FeedAssumption DEF Expiry, Line
  <2>6. n \in Node /\ l.ip \in Keys
    BY <2>2, <2>4, <2>5 DEF Node, Line
  <2>. HIDE DEF n
  <2>. QED
    BY <1>1, <2>1, <2>6, UpsertZone
<1>4. CASE SweepBatch(w)
  BY <1>1, <1>4, SweepZone
<1>. QED
  BY <1>2, <1>3, <1>4 DEF Load, Stat, Read, Reject, Bump, Lock, SkipLine,
     ApplyFull, ApplyEnd, SweepDone, zone

\* A step of another user of the zone, of the sidecar, of the clock, or a crash.
LEMMA OtherInv ==
  ASSUME Inv,
         \/ Tick
         \/ \E f \in Feeds : Write(f)
         \/ \E w \in Workers : Crash(w)
         \/ \E w \in Workers, k \in Keys : Lookup(w, k)
         \/ \E w \in Workers, k \in Keys, v \in Pulled : Pull(w, k, v)
  PROVE  Inv'
<1>. USE FeedAssumption
<1>1. ZonePart /\ ControlPart
  BY InvParts
<1>2. CASE Tick
  BY <1>1, <1>2, InvPartsNext DEF Tick, zone, ZonePart, ControlPart
<1>3. ASSUME NEW f \in Feeds, Write(f) PROVE Inv'
  <2>1. env' \in [writes : 0 .. MaxWrites, crashes : 0 .. MaxCrashes,
                  pulls : 0 .. MaxPulls]
    <3>1. env \in [writes : 0 .. MaxWrites, crashes : 0 .. MaxCrashes,
                   pulls : 0 .. MaxPulls]
      BY <1>1 DEF ControlPart
    <3>2. env.writes + 1 \in 0 .. MaxWrites /\ env' = [env EXCEPT !.writes = @ + 1]
      BY <1>3, <3>1 DEF Write
    <3>. QED
      BY <3>1, <3>2
  <2>2. file' \in [mtime : Nat, feed : Feed]
    BY <1>1, <1>3 DEF Write, ControlPart
  <2>. QED
    BY <1>1, <1>3, <2>1, <2>2, InvPartsNext DEF Write, zone, ZonePart, ControlPart
<1>4. ASSUME NEW w \in Workers, Crash(w) PROVE Inv'
  <2>1. env' \in [writes : 0 .. MaxWrites, crashes : 0 .. MaxCrashes,
                  pulls : 0 .. MaxPulls]
    <3>1. env \in [writes : 0 .. MaxWrites, crashes : 0 .. MaxCrashes,
                   pulls : 0 .. MaxPulls]
      BY <1>1 DEF ControlPart
    <3>2. /\ env.crashes + 1 \in 0 .. MaxCrashes
          /\ env' = [env EXCEPT !.crashes = @ + 1]
      BY <1>4, <3>1 DEF Crash
    <3>. QED
      BY <3>1, <3>2
  <2>2. NoJob \in Job
    BY NoJobType
  <2>3. job' \in [Workers -> Job]
    BY <1>1, <1>4, <2>2, JobAfter DEF Crash
  <2>4. ControlPart'
    <3>1. /\ pc' = [pc EXCEPT ![w] = "idle"] /\ clock' = clock /\ file' = file
          /\ last_mtime' = [last_mtime EXCEPT ![w] = 0]
          /\ lock' = (IF lock = w THEN None ELSE lock)
          /\ generation' = generation
      BY <1>4 DEF Crash, zone
    <3>2. /\ lock \in Workers \cup {None} /\ None \notin Workers
          /\ pc \in [Workers -> {"idle", "read", "bump", "apply", "sweep"}]
          /\ last_mtime \in [Workers -> Nat]
          /\ lock # None => pc[lock] = "apply"
      BY <1>1, FeedAssumption DEF ControlPart
    <3>3. /\ pc' \in [Workers -> {"idle", "read", "bump", "apply", "sweep"}]
          /\ last_mtime' \in [Workers -> Nat]
          /\ lock' \in Workers \cup {None}
          /\ lock' # None => pc'[lock'] = "apply"
      BY <3>1, <3>2
    <3>. QED
      BY <1>1, <2>1, <2>3, <3>1, <3>3 DEF ControlPart
  <2>5. ZonePart'
    BY <1>1, <1>4 DEF Crash, zone, ZonePart
  <2>. QED
    BY <2>4, <2>5, InvPartsNext
<1>5. ASSUME NEW w \in Workers, NEW k \in Keys, Lookup(w, k) PROVE Inv'
  <2>1. ControlPart'
    BY <1>1, <1>5 DEF Lookup, ControlPart
  <2>. QED
    BY <1>5, <2>1, LookupZone, InvPartsNext
<1>6. ASSUME NEW w \in Workers, NEW k \in Keys, NEW v \in Pulled, Pull(w, k, v)
      PROVE  Inv'
  <2>1. env' \in [writes : 0 .. MaxWrites, crashes : 0 .. MaxCrashes,
                  pulls : 0 .. MaxPulls]
    <3>1. env \in [writes : 0 .. MaxWrites, crashes : 0 .. MaxCrashes,
                   pulls : 0 .. MaxPulls]
      BY <1>1 DEF ControlPart
    <3>2. /\ env.pulls + 1 \in 0 .. MaxPulls
          /\ env' = [env EXCEPT !.pulls = @ + 1]
      BY <1>6, <3>1 DEF Pull
    <3>. QED
      BY <3>1, <3>2
  <2>2. ControlPart'
    BY <1>1, <1>6, <2>1 DEF Pull, ControlPart
  <2>. DEFINE n == [expiry |-> v.expiry, action |-> v.action,
                    generation |-> generation, redis_pulled |-> TRUE,
                    last_seen |-> clock]
  <2>3. v \in [action : Actions, expiry : Nat]
    OBVIOUS
  <2>4. n \in Node
    BY <1>1, <2>3 DEF Node, ControlPart
  <2>5. HasRoom(k) /\ Upsert(k, n)
    BY <1>6 DEF Pull
  <2>. HIDE DEF n
  <2>6. ZonePart'
    BY <1>1, <2>4, <2>5, UpsertZone
  <2>. QED
    BY <2>2, <2>6, InvPartsNext
<1>. QED
  BY <1>2, <1>3, <1>4, <1>5, <1>6

LEMMA InitInv == Init => Inv
<1>. SUFFICES ASSUME Init PROVE Inv
  OBVIOUS
<1>1. ZonePart
  <2>1. queue = << >> /\ table = << >> /\ Capacity \in Nat \ {0}
    BY FeedAssumption DEF Init
  <2>2. /\ << >> \in Seq(Keys) /\ ToSet(<< >>) = {} /\ IsInjective(<< >>)
        /\ Len(<< >>) = 0 /\ << >> \in [{} -> Node]
    BY DEF ToSet, IsInjective
  <2>. QED
    BY <2>1, <2>2 DEF ZonePart
<1>2. ControlPart
  <2>1. << >> \in Lines
    BY DEF Lines
  <2>2. file \in [mtime : Nat, feed : Feed]
    <3>1. [body |-> << >>, count |-> 0, intact |-> FALSE] \in Feed
      BY <2>1 DEF Feed, Lines
    <3>. QED
      BY <3>1 DEF Init
  <2>3. env \in [writes : 0 .. MaxWrites, crashes : 0 .. MaxCrashes,
                 pulls : 0 .. MaxPulls]
    BY FeedAssumption DEF Init
  <2>4. /\ job \in [Workers -> Job] /\ last_mtime \in [Workers -> Nat]
        /\ pc \in [Workers -> {"idle", "read", "bump", "apply", "sweep"}]
    BY NoJobType DEF Init
  <2>. QED
    BY <2>2, <2>3, <2>4 DEF Init, ControlPart
<1>. QED
  BY <1>1, <1>2, InvParts

\* Every step keeps the invariant.
LEMMA NextInv ==
  ASSUME Inv, [Next]_vars
  PROVE  Inv'
<1>1. CASE UNCHANGED vars
  BY <1>1 DEF vars, zone, Inv, TypeOK, ZoneConsistent
<1>2. ASSUME NEW w \in Workers, Load(w) PROVE Inv'
  <2>1. ControlPart
    BY InvParts
  <2>. QED
    BY <1>2, <2>1, LoadControl, LoadZone, InvPartsNext
<1>. QED
  BY <1>1, <1>2, OtherInv DEF Next

\* Every variable keeps its type: a load's lines are those of a feed, its stamp
\* a generation, whatever other workers do between its batches.
THEOREM FeedTypeCorrect == Spec => []TypeOK
<1>1. Spec => []Inv
  BY InitInv, NextInv, PTL DEF Spec
<1>2. Inv => TypeOK
  BY DEF Inv
<1>. QED
  BY <1>1, <1>2, PTL

\* The zone's two structures agree after every step of every worker, also after
\* one that died between its batches: the LRU queue threads each node of the
\* rbtree once, the slab is never overcommitted, and only a worker in the apply
\* loop holds the mutex.
THEOREM ZoneStaysConsistent == Spec => []ZoneConsistent
<1>1. Spec => []Inv
  BY InitInv, NextInv, PTL DEF Spec
<1>2. Inv => ZoneConsistent
  BY DEF Inv
<1>. QED
  BY <1>1, <1>2, PTL

-----------------------------------------------------------------------------
(* The sweep is exact. *)

\* A zone with a node for every client is never full.
LEMMA AlwaysRoom ==
  ASSUME ZonePart, Room, NEW k \in Keys
  PROVE  HasRoom(k)
<1>1. /\ queue \in Seq(Keys) /\ IsInjective(queue) /\ DOMAIN table = ToSet(queue)
      /\ Len(queue) \in Nat /\ DOMAIN queue = 1 .. Len(queue)
      /\ \A i \in 1 .. Len(queue) : queue[i] \in Keys
  BY LenProperties, ElementOfSeq DEF ZonePart
<1>2. SUFFICES ASSUME k \notin ToSet(queue), ~(Len(queue) < Capacity)
               PROVE  FALSE
  BY <1>1 DEF HasRoom
<1>. DEFINE D == 1 .. Len(queue)
            S == Keys \ {k}
<1>3. IsFiniteSet(D) /\ Cardinality(D) = Len(queue)
  BY <1>1, FS_Interval
<1>4. /\ IsFiniteSet(S) /\ Cardinality(S) = Cardinality(Keys) - 1
      /\ Cardinality(Keys) \in Nat
  BY FS_RemoveElement, FS_CardinalityType DEF Room
<1>5. Cardinality(S) < Cardinality(D)
  <2>1. Capacity \in Nat /\ Cardinality(Keys) <= Capacity
    BY FeedAssumption DEF Room
  <2>. HIDE DEF D, S
  <2>. QED
    BY <1>1, <1>2, <1>3, <1>4, <2>1
<1>6. queue \in [D -> S]
  <2>1. \A i \in D : queue[i] \in S
    BY <1>1, <1>2 DEF ToSet
  <2>2. queue = [i \in D |-> queue[i]]
    BY <1>1
  <2>. QED
    BY <2>1, <2>2
<1>. HIDE DEF D, S
<1>7. \E x, y \in D : x # y /\ queue[x] = queue[y]
  BY <1>3, <1>4, <1>5, <1>6, FS_PigeonHole
<1>. QED
  BY <1>1, <1>7 DEF IsInjective, D

\* The line that job j is about to pass.
At(j) == Len(j.feed) - Len(j.rest) + 1

\* Job m is job j after its next line.
Further(j, m) ==
  /\ j \in Job /\ m \in Job
  /\ j.rest # << >>
  /\ m.rest = Tail(j.rest) /\ m.feed = j.feed
  /\ m.now = j.now /\ m.generation = j.generation

\* Passing a line: it is the head of what was left.
LEMMA FurtherProps ==
  ASSUME NEW j, NEW m, Further(j, m), Suffix(j)
  PROVE  /\ Suffix(m)
         /\ At(j) \in Nat /\ At(j) \in 1 .. Len(j.feed)
         /\ j.feed[At(j)] = Head(j.rest)
         /\ Passed(m) = Passed(j) \cup {At(j)}
         /\ \A i \in Passed(j) : i \in Int /\ i < At(j)
         /\ \A i, k : Says(m, i, k) <=> Says(j, i, k)
<1>1. j.rest \in Lines /\ j.feed \in Lines /\ j.rest # << >>
  BY DEF Further, Job, Lines
<1>2. /\ Head(j.rest) = j.rest[1] /\ Len(j.rest) \in Nat \ {0}
      /\ Len(Tail(j.rest)) = Len(j.rest) - 1
      /\ \A n \in 1 .. Len(j.rest) - 1 : Tail(j.rest)[n] = j.rest[n + 1]
  BY <1>1, RestProps
<1>3. Len(j.feed) \in Nat /\ Len(j.rest) <= Len(j.feed)
  BY <1>1, LenProperties DEF Lines, Suffix
<1>4. \A n \in 1 .. Len(j.rest) : j.rest[n] = j.feed[Len(j.feed) - Len(j.rest) + n]
  BY DEF Suffix
<1>5. m.rest = Tail(j.rest) /\ m.feed = j.feed /\ m.now = j.now
  BY DEF Further
<1>6. \A i, k : Says(m, i, k) <=> Says(j, i, k)
  BY <1>5 DEF Says
<1>7. PICK F, R : F = Len(j.feed) /\ R = Len(j.rest)
  OBVIOUS
<1>8. F \in Nat /\ R \in Nat /\ R # 0 /\ R <= F /\ Len(m.rest) = R - 1 /\ Len(m.feed) = F
  BY <1>2, <1>3, <1>5, <1>7
<1>9. At(j) = F - R + 1 /\ Passed(j) = 1 .. F - R /\ Passed(m) = 1 .. F - (R - 1)
  BY <1>7, <1>8 DEF At, Passed
<1>10. At(j) \in Nat /\ At(j) \in 1 .. F
  BY <1>8, <1>9
<1>11. j.feed[At(j)] = Head(j.rest)
  <2>1. 1 \in 1 .. R
    BY <1>8
  <2>. QED
    BY <1>2, <1>4, <1>7, <1>9, <2>1
<1>12. /\ Passed(m) = Passed(j) \cup {At(j)}
       /\ \A i \in Passed(j) : i \in Int /\ i < At(j)
  BY <1>8, <1>9
<1>13. Suffix(m)
  <2>1. Len(m.rest) <= Len(m.feed)
    BY <1>8
  <2>2. ASSUME NEW n \in 1 .. R - 1
        PROVE  m.rest[n] = m.feed[F - (R - 1) + n]
    <3>1. n \in Int /\ n + 1 \in 1 .. R /\ F - (R - 1) + n = F - R + (n + 1)
      BY <1>8
    <3>2. m.rest[n] = j.rest[n + 1]
      BY <1>2, <1>5, <1>7
    <3>3. j.rest[n + 1] = j.feed[F - R + (n + 1)]
      BY <1>4, <1>7, <3>1
    <3>. QED
      BY <1>5, <3>1, <3>2, <3>3
  <2>. QED
    BY <1>8, <2>1, <2>2 DEF Suffix
<1>. QED
  BY <1>6, <1>7, <1>10, <1>11, <1>12, <1>13

\* A line without a running decision changes nothing.
LEMMA StampedSkip ==
  ASSUME NEW j, NEW m, Further(j, m), Suffix(j), NEW T, Stamped(T, j),
         ~Running(Head(j.rest), j.now)
  PROVE  Stamped(T, m)
<1>1. /\ j.feed[At(j)] = Head(j.rest) /\ Passed(m) = Passed(j) \cup {At(j)}
      /\ \A i, k : Says(m, i, k) <=> Says(j, i, k)
  BY FurtherProps
<1>2. \A k : ~Says(j, At(j), k)
  BY <1>1 DEF Says
<1>3. m.generation = j.generation /\ m.feed = j.feed /\ m.now = j.now
  BY DEF Further
<1>4. \A i, k, d : Decides(j, i, k, d) => Decides(m, i, k, d)
  BY <1>1, <1>2, <1>3 DEF Decides
<1>. QED
  BY <1>1, <1>2, <1>3, <1>4 DEF Stamped

\* A line with one is stamped, and decides for its client.
LEMMA StampedApply ==
  ASSUME NEW j, NEW m, Further(j, m), Suffix(j), NEW T, Stamped(T, j),
         Running(Head(j.rest), j.now), NEW d,
         d.generation = j.generation,
         d.action = Head(j.rest).action,
         d.expiry = Expiry(Head(j.rest), j.now),
         NEW U, U = [x \in {Head(j.rest).ip} \cup DOMAIN T |->
                       IF x = Head(j.rest).ip THEN d ELSE T[x]]
  PROVE  Stamped(U, m)
<1>. DEFINE c == Head(j.rest).ip
<1>1. /\ At(j) \in Nat /\ j.feed[At(j)] = Head(j.rest)
      /\ Passed(m) = Passed(j) \cup {At(j)}
      /\ \A i \in Passed(j) : i \in Int /\ i < At(j)
      /\ \A i, k : Says(m, i, k) <=> Says(j, i, k)
  BY FurtherProps
<1>2. \A k : Says(j, At(j), k) <=> k = c
  BY <1>1 DEF Says
<1>3. m.generation = j.generation /\ m.feed = j.feed /\ m.now = j.now
  BY DEF Further
<1>4. DOMAIN U = {c} \cup DOMAIN T /\ U[c] = d /\ \A x \in DOMAIN T : x # c => U[x] = T[x]
  OBVIOUS
<1>. HIDE DEF c
<1>5. Decides(m, At(j), c, d)
  <2>1. \A n \in Passed(m) : n <= At(j)
    BY <1>1
  <2>. QED
    BY <1>1, <1>2, <1>3, <2>1 DEF Decides
<1>6. \A i, k, e : k # c /\ Decides(j, i, k, e) => Decides(m, i, k, e)
  BY <1>1, <1>2, <1>3 DEF Decides
<1>7. ASSUME NEW i \in Passed(m), NEW k \in Keys, Says(m, i, k)
      PROVE  k \in DOMAIN U /\ U[k].generation = m.generation
  <2>1. CASE k = c
    BY <1>3, <1>4, <2>1
  <2>2. CASE k # c
    BY <1>1, <1>2, <1>3, <1>4, <1>7, <2>2 DEF Stamped
  <2>. QED
    BY <2>1, <2>2
<1>8. ASSUME NEW k \in DOMAIN U, U[k].generation = m.generation
      PROVE  \E i \in Passed(m) : Decides(m, i, k, U[k])
  <2>1. CASE k = c
    BY <1>1, <1>4, <1>5, <2>1
  <2>2. CASE k # c
    BY <1>1, <1>3, <1>4, <1>6, <1>8, <2>2 DEF Stamped
  <2>. QED
    BY <2>1, <2>2
<1>. QED
  BY <1>7, <1>8 DEF Stamped

\* With one worker, what holds of it after the step holds of all.
LEMMA AllSound ==
  ASSUME Lone, NEW w \in Workers, Dated', Sound(w)'
  PROVE  LoadSound'
<1>1. \A v \in Workers : v = w
  BY DEF Lone
<1>. QED
  BY <1>1 DEF LoadSound

\* A worker that is idle, or that has only just read the file, is bound by
\* nothing.
LEMMA IdleSound ==
  ASSUME NEW w, pc'[w] \in {"idle", "read"}
  PROVE  Sound(w)'
BY DEF Sound

\* The new generation is carried by no node yet.
LEMMA BumpSound ==
  ASSUME Lone, Inv, LoadSound, NEW w \in Workers, Bump(w)
  PROVE  LoadSound'
<1>1. /\ job[w] \in Job /\ job[w].feed \in Lines
      /\ generation \in Nat /\ job \in [Workers -> Job]
      /\ pc \in [Workers -> {"idle", "read", "bump", "apply", "sweep"}]
      /\ table \in [ToSet(queue) -> Node]
  <2>1. ControlPart /\ ZonePart
    BY InvParts
  <2>. QED
    BY <2>1, ControlFacts DEF ControlPart, ZonePart
<1>2. PICK j : j = [job[w] EXCEPT !.generation = generation + 1]
  OBVIOUS
<1>3. /\ pc[w] = "bump" /\ pc' = [pc EXCEPT ![w] = "apply"] /\ table' = table
      /\ generation' = generation + 1 /\ job' = [job EXCEPT ![w] = j]
  BY <1>1, <1>2 DEF Bump
<1>4. job'[w] = j /\ pc'[w] = "apply"
  BY <1>1, <1>3
<1>5. job[w].rest = job[w].feed
  BY <1>3 DEF LoadSound, Sound
<1>6. j.rest = j.feed /\ j.feed \in Lines /\ j.generation = generation + 1
  BY <1>1, <1>2, <1>5 DEF Job
<1>7. Suffix(j) /\ Passed(j) = {}
  <2>1. PICK F : F = Len(j.feed)
    OBVIOUS
  <2>2. F \in Nat
    BY <1>6, <2>1, LenProperties DEF Lines
  <2>3. Len(j.rest) = F /\ 1 .. F - F = {} /\ \A n \in 1 .. F : F - F + n = n
    BY <1>6, <2>1, <2>2
  <2>. QED
    BY <1>6, <2>1, <2>2, <2>3 DEF Suffix, Passed
<1>8. ASSUME NEW k \in DOMAIN table
      PROVE  table[k].generation \in Nat /\ table[k].generation <= generation
  <2>1. table[k] \in Node
    BY <1>1
  <2>. QED
    BY <2>1 DEF Node, LoadSound, Dated
<1>9. Stamped(table, j)
  <2>1. \A k \in DOMAIN table : table[k].generation # generation + 1
    BY <1>1, <1>8
  <2>. QED
    BY <1>6, <1>7, <2>1 DEF Stamped
<1>10. Sound(w)'
  BY <1>3, <1>4, <1>6, <1>7, <1>9 DEF Sound
<1>11. Dated'
  BY <1>1, <1>3, <1>8 DEF Dated
<1>. QED
  BY <1>10, <1>11, AllSound

\* Passing a line keeps what the lines so far have done.
LEMMA LineSound ==
  ASSUME Lone, Inv, LoadSound, NEW w \in Workers, SkipLine(w) \/ ApplyLine(w)
  PROVE  LoadSound'
<1>1. /\ job[w] \in Job /\ job[w].rest \in Lines /\ generation \in Nat
      /\ job \in [Workers -> Job] /\ None \notin Workers
      /\ lock = w /\ pc[w] = "apply" /\ pc' = pc /\ generation' = generation
      /\ job[w].rest # << >> /\ DOMAIN table = ToSet(queue)
  <2>1. ControlPart /\ ZonePart
    BY InvParts
  <2>. QED
    BY <2>1, ControlFacts, FeedAssumption
       DEF ControlPart, ZonePart, SkipLine, ApplyLine, zone
<1>2. /\ job[w].generation = generation /\ Suffix(job[w])
      /\ Stamped(table, job[w]) /\ Dated
  BY <1>1 DEF LoadSound, Sound
<1>3. Tail(job[w].rest) \in Lines
  BY <1>1, RestProps
<1>4. CASE SkipLine(w)
  <2>1. PICK j : j = [job[w] EXCEPT !.rest = Tail(job[w].rest)]
    OBVIOUS
  <2>2. /\ table' = table /\ job' = [job EXCEPT ![w] = j]
        /\ ~Running(Head(job[w].rest), job[w].now)
    BY <1>1, <1>4, <2>1 DEF SkipLine, zone
  <2>3. job'[w] = j
    BY <1>1, <2>2
  <2>4. j \in Job /\ j.generation = generation
    BY <1>1, <1>2, <1>3, <2>1, JobFields DEF Job
  <2>5. Further(job[w], j)
    BY <1>1, <2>1, <2>4 DEF Further, Job
  <2>6. Suffix(j) /\ Stamped(table, j)
    BY <1>2, <2>2, <2>5, FurtherProps, StampedSkip
  <2>7. Sound(w)'
    BY <1>1, <2>2, <2>3, <2>4, <2>6 DEF Sound
  <2>8. Dated'
    BY <1>1, <1>2, <2>2 DEF Dated
  <2>. QED
    BY <2>7, <2>8, AllSound
<1>5. CASE ApplyLine(w)
  <2>1. PICK l : l = Head(job[w].rest)
    OBVIOUS
  <2>2. PICK d : d = [expiry       |-> Expiry(l, job[w].now),
                      action       |-> l.action,
                      generation   |-> job[w].generation,
                      redis_pulled |-> FALSE,
                      last_seen    |-> job[w].now]
    OBVIOUS
  <2>3. PICK y : y = [job[w] EXCEPT !.rest = Tail(job[w].rest)]
    OBVIOUS
  <2>4. PICK j : j = [y EXCEPT !.applied = job[w].applied + 1]
    OBVIOUS
  <2>5. y \in Job /\ y.rest = Tail(job[w].rest) /\ y.feed = job[w].feed
        /\ y.now = job[w].now /\ y.generation = job[w].generation
    BY <1>1, <1>3, <2>3, JobFields DEF Job
  <2>6. job[w].applied + 1 \in Nat
    BY <1>1 DEF Job
  <2>7. j \in Job /\ j.rest = Tail(job[w].rest) /\ j.feed = job[w].feed
        /\ j.now = job[w].now /\ j.generation = job[w].generation
    BY <2>4, <2>5, <2>6, JobFields DEF Job
  <2>8. /\ Running(l, job[w].now) /\ job' = [job EXCEPT ![w] = j]
        /\ table' = [x \in {l.ip} \cup DOMAIN table |->
                       IF x = l.ip THEN d ELSE table[x]]
    <3>1. job' = [job EXCEPT ![w].rest = Tail(@), ![w].applied = job[w].applied + 1]
      BY <1>5 DEF ApplyLine
    <3>2. job' = [job EXCEPT ![w] = j]
      BY <1>1, <2>3, <2>4, <3>1
    <3>. QED
      BY <1>5, <2>1, <2>2, <3>2 DEF ApplyLine, Upsert
  <2>9. job'[w] = j
    BY <1>1, <2>8
  <2>10. Further(job[w], j)
    BY <1>1, <2>7 DEF Further
  <2>11. /\ d.generation = job[w].generation /\ d.action = l.action
         /\ d.expiry = Expiry(l, job[w].now)
    BY <2>2
  <2>12. Suffix(j) /\ Stamped(table', j)
    BY <1>2, <2>1, <2>8, <2>10, <2>11, FurtherProps, StampedApply
  <2>13. Sound(w)'
    BY <1>1, <1>2, <2>7, <2>9, <2>12 DEF Sound
  <2>14. Dated'
    BY <1>1, <1>2, <2>8, <2>11 DEF Dated
  <2>. QED
    BY <2>13, <2>14, AllSound
<1>. QED
  BY <1>4, <1>5

\* What one sweep batch deletes carries another stamp, and a batch that finds
\* nothing to delete leaves only nodes with this one.
LEMMA SweptProps ==
  ASSUME ZonePart, NEW g
  PROVE  /\ \A k \in Swept(g) : k \in DOMAIN table /\ table[k].generation # g
         /\ Swept(g) = {} => \A k \in DOMAIN table : table[k].generation = g
<1>1. /\ queue \in Seq(Keys) /\ Len(queue) \in Nat /\ DOMAIN queue = 1 .. Len(queue)
      /\ DOMAIN table = ToSet(queue)
  BY LenProperties DEF ZonePart
<1>2. \A k \in Swept(g) : k \in DOMAIN table /\ table[k].generation # g
  BY <1>1 DEF Swept, ToSet
<1>. DEFINE S == {i \in DOMAIN queue : table[queue[i]].generation # g}
<1>3. ASSUME NEW k \in DOMAIN table, table[k].generation # g
      PROVE  Swept(g) # {}
  <2>1. PICK i \in S : queue[i] = k
    BY <1>1, <1>3 DEF ToSet
  <2>2. S \in SUBSET (1 .. Len(queue))
    BY <1>1
  <2>3. \A n \in S : n \in Int /\ n <= Len(queue)
    BY <1>1
  <2>. HIDE DEF S
  <2>4. PICK m \in S : \A n \in S : n <= m
    BY <1>1, <2>1, <2>2, LastPosition
  <2>5. {j \in S : j >= m} = {m}
    BY <2>3, <2>4
  <2>6. Cardinality({m}) = 1
    BY FS_Singleton
  <2>7. Cardinality({j \in S : j >= m}) <= Batch
    BY <2>5, <2>6, FeedAssumption
  <2>8. queue[m] \in Swept(g)
    BY <2>4, <2>7 DEF Swept, S
  <2>. QED
    BY <2>8
<1>. QED
  BY <1>2, <1>3

\* A sweep batch leaves the nodes that carry the load's stamp alone.
LEMMA SweepSound ==
  ASSUME Lone, Inv, LoadSound, NEW w \in Workers, SweepBatch(w)
  PROVE  LoadSound'
<1>1. ZonePart /\ pc[w] = "sweep" /\ pc' = pc /\ job' = job /\ generation' = generation
  BY InvParts DEF SweepBatch
<1>2. PICK g, G : g = job[w].generation /\ G = Swept(g)
  OBVIOUS
<1>3. table' = [k \in DOMAIN table \ G |-> table[k]]
  BY <1>2 DEF SweepBatch
<1>4. \A k \in G : k \in DOMAIN table /\ table[k].generation # g
  BY <1>1, <1>2, SweptProps
<1>5. /\ DOMAIN table' = DOMAIN table \ G
      /\ \A k \in DOMAIN table' : table'[k] = table[k]
  BY <1>3
<1>6. Sound(w) /\ Dated
  BY DEF LoadSound
<1>7. Stamped(table', job[w])
  <2>1. Stamped(table, job[w])
    BY <1>1, <1>6 DEF Sound
  <2>. QED
    BY <1>2, <1>4, <1>5, <2>1 DEF Stamped
<1>8. Sound(w)'
  BY <1>1, <1>6, <1>7 DEF Sound
<1>9. Dated'
  BY <1>1, <1>5, <1>6 DEF Dated
<1>. QED
  BY <1>8, <1>9, AllSound

\* The other steps of a load.
LEMMA LoadStepSound ==
  ASSUME Lone, Room, Inv, LoadSound, NEW w \in Workers, Load(w)
  PROVE  LoadSound'
<1>1. /\ ZonePart /\ job[w] \in Job /\ job[w].rest \in Lines
      /\ file.feed.body \in Lines /\ job \in [Workers -> Job]
      /\ None \notin Workers /\ (lock # None => pc[lock] = "apply")
      /\ pc \in [Workers -> {"idle", "read", "bump", "apply", "sweep"}]
  <2>1. ControlPart /\ ZonePart
    BY InvParts
  <2>. QED
    BY <2>1, ControlFacts, FeedAssumption DEF ControlPart
<1>2. Sound(w) /\ Dated
  BY DEF LoadSound
<1>3. CASE Stat(w) \/ Reject(w) \/ SweepDone(w)
  <2>1. /\ pc'[w] \in {"idle", "read"}
        /\ table' = table /\ generation' = generation
    BY <1>1, <1>3 DEF Stat, Reject, SweepDone, zone
  <2>2. Dated'
    BY <1>2, <2>1 DEF Dated
  <2>. QED
    BY <2>1, <2>2, IdleSound, AllSound
<1>4. CASE Read(w)
  <2>1. PICK y : y = [job[w] EXCEPT !.feed = file.feed.body]
    OBVIOUS
  <2>2. PICK j : j = [y EXCEPT !.rest = file.feed.body]
    OBVIOUS
  <2>3. /\ job' = [job EXCEPT ![w] = j] /\ pc' = [pc EXCEPT ![w] = "bump"]
        /\ table' = table /\ generation' = generation
    BY <1>1, <1>4, <2>1, <2>2 DEF Read, zone
  <2>4. y \in Job /\ y.feed = file.feed.body
    BY <1>1, <2>1, JobFields DEF Job
  <2>5. j.rest = j.feed
    BY <2>2, <2>4 DEF Job
  <2>6. Sound(w)'
    BY <1>1, <2>3, <2>5 DEF Sound
  <2>7. Dated'
    BY <1>2, <2>3 DEF Dated
  <2>. QED
    BY <2>6, <2>7, AllSound
<1>5. CASE Lock(w)
  <2>1. pc' = pc /\ job' = job /\ table' = table /\ generation' = generation
    BY <1>5 DEF Lock, zone
  <2>. QED
    BY <2>1 DEF LoadSound, Dated, Sound
<1>6. CASE ApplyFull(w)
  <2>1. PICK l : l = Head(job[w].rest)
    OBVIOUS
  <2>2. job[w].rest # << >> /\ Running(l, job[w].now) /\ ~HasRoom(l.ip)
    BY <1>6, <2>1 DEF ApplyFull
  <2>3. l \in Line
    BY <1>1, <2>1, <2>2, RestProps DEF Running
  <2>4. HasRoom(l.ip)
    BY <1>1, <2>3, AlwaysRoom DEF Line
  <2>. QED
    BY <2>2, <2>4
<1>7. CASE ApplyEnd(w)
  <2>1. /\ lock = w /\ job[w].rest = << >> /\ job' = job /\ table' = table
        /\ generation' = generation /\ pc' = [pc EXCEPT ![w] = "sweep"]
    BY <1>7 DEF ApplyEnd, zone
  <2>2. pc[w] = "apply" /\ pc'[w] = "sweep"
    BY <1>1, <2>1
  <2>3. Sound(w)'
    BY <1>2, <2>1, <2>2 DEF Sound
  <2>4. Dated'
    BY <1>2, <2>1 DEF Dated
  <2>. QED
    BY <2>3, <2>4, AllSound
<1>. QED
  BY <1>3, <1>4, <1>5, <1>6, <1>7, BumpSound, LineSound, SweepSound DEF Load

\* Nobody else's step concerns a load under way, except a crash, which ends it.
LEMMA OtherSound ==
  ASSUME Lone, Inv, LoadSound,
         \/ Tick
         \/ \E f \in Feeds : Write(f)
         \/ \E w \in Workers : Crash(w)
         \/ \E w \in Workers, k \in Keys : Lookup(w, k)
         \/ \E w \in Workers, k \in Keys, v \in Pulled : Pull(w, k, v)
  PROVE  LoadSound'
<1>1. /\ pc \in [Workers -> {"idle", "read", "bump", "apply", "sweep"}]
      /\ table \in [ToSet(queue) -> Node] /\ generation \in Nat /\ Dated
  BY DEF Inv, TypeOK, LoadSound
<1>2. CASE Tick \/ \E f \in Feeds : Write(f)
  <2>1. pc' = pc /\ job' = job /\ table' = table /\ generation' = generation
    BY <1>2 DEF Tick, Write, zone
  <2>. QED
    BY <2>1 DEF LoadSound, Dated, Sound
<1>3. ASSUME NEW w \in Workers, Crash(w) PROVE LoadSound'
  <2>1. pc'[w] = "idle" /\ table' = table /\ generation' = generation
    BY <1>1, <1>3 DEF Crash, zone
  <2>2. Dated'
    BY <1>1, <2>1 DEF Dated
  <2>. QED
    BY <2>1, <2>2, IdleSound, AllSound
<1>4. ASSUME NEW w \in Workers, NEW k \in Keys, Lookup(w, k) PROVE LoadSound'
  <2>1. PICK q, t : q = ToSet(Expire(queue)) /\ t = clock
    OBVIOUS
  <2>2. /\ pc' = pc /\ pc[w] = "idle" /\ generation' = generation
        /\ table' = [x \in q |-> IF x = k THEN [table[x] EXCEPT !.last_seen = t]
                                 ELSE table[x]]
    BY <1>4, <2>1 DEF Lookup
  <2>3. q \subseteq DOMAIN table
    BY <2>1, ExpireProps
  <2>4. ASSUME NEW x \in DOMAIN table'
        PROVE  table'[x].generation <= generation
    <3>1. x \in q /\ x \in DOMAIN table /\ table[x] \in Node
      BY <1>1, <2>2, <2>3
    <3>2. [table[x] EXCEPT !.last_seen = t].generation = table[x].generation
      BY <3>1 DEF Node
    <3>. QED
      BY <1>1, <2>2, <3>1, <3>2 DEF Dated
  <2>5. Dated'
    BY <2>2, <2>4 DEF Dated
  <2>. QED
    BY <2>2, <2>5, IdleSound, AllSound
<1>5. ASSUME NEW w \in Workers, NEW k \in Keys, NEW v \in Pulled, Pull(w, k, v)
      PROVE  LoadSound'
  <2>1. PICK d : d = [expiry |-> v.expiry, action |-> v.action,
                      generation |-> generation, redis_pulled |-> TRUE,
                      last_seen |-> clock]
    OBVIOUS
  <2>2. /\ pc' = pc /\ pc[w] = "idle" /\ generation' = generation
        /\ table' = [x \in {k} \cup DOMAIN table |-> IF x = k THEN d ELSE table[x]]
    BY <1>5, <2>1 DEF Pull, Upsert
  <2>3. d.generation = generation
    BY <2>1
  <2>4. Dated'
    BY <1>1, <2>2, <2>3 DEF Dated
  <2>. QED
    BY <2>2, <2>4, IdleSound, AllSound
<1>. QED
  BY <1>2, <1>3, <1>4, <1>5

LEMMA NextSound ==
  ASSUME Lone, Room, Inv, LoadSound, [Next]_vars
  PROVE  LoadSound'
<1>1. CASE UNCHANGED vars
  <2>1. pc' = pc /\ job' = job /\ table' = table /\ generation' = generation
    BY <1>1 DEF vars, zone
  <2>. QED
    BY <2>1 DEF LoadSound, Dated, Sound
<1>. QED
  BY <1>1, LoadStepSound, OtherSound DEF Next

LEMMA InitSound == Init => LoadSound
<1>. SUFFICES ASSUME Init PROVE LoadSound
  OBVIOUS
<1>1. DOMAIN table = {} /\ \A w \in Workers : pc[w] = "idle"
  BY DEF Init
<1>. QED
  BY <1>1 DEF LoadSound, Dated, Sound

\* While one worker loads a zone with room for every client, the sweep of a load
\* deletes only clients that the feed of that load does not list, however the
\* file, the clock, a crash or Redis pulls interfere between its batches.
THEOREM SweepIsExact ==
  ASSUME Lone, Room
  PROVE  Spec => SweptAreAbsent
<1>. DEFINE Exact ==
       \A w \in Workers :
         SweepBatch(w) =>
           \A k \in DOMAIN table \ DOMAIN table' :
             Listed(job[w].feed, k, job[w].now) = {}
<1>1. Spec => [](Inv /\ LoadSound)
  <2>1. Init => Inv /\ LoadSound
    BY InitInv, InitSound
  <2>2. Inv /\ LoadSound /\ [Next]_vars => Inv' /\ LoadSound'
    BY NextInv, NextSound
  <2>. QED
    BY <2>1, <2>2, PTL DEF Spec
<1>2. Inv /\ LoadSound => [Exact]_vars
  <2>. SUFFICES ASSUME Inv, LoadSound, NEW w \in Workers, SweepBatch(w),
                       NEW k \in DOMAIN table \ DOMAIN table',
                       NEW i \in Listed(job[w].feed, k, job[w].now)
                PROVE  FALSE
    OBVIOUS
  <2>1. ZonePart /\ job[w] \in Job /\ job[w].feed \in Lines
    BY InvParts, ControlFacts
  <2>2. pc[w] = "sweep" /\ k \in Swept(job[w].generation)
    BY DEF SweepBatch
  <2>3. k \in Keys /\ table[k].generation # job[w].generation
    <3>1. DOMAIN table \subseteq Keys
      BY <2>1, ElementOfSeq, LenProperties DEF ZonePart, ToSet
    <3>. QED
      BY <2>1, <2>2, <3>1, SweptProps
  <2>4. Stamped(table, job[w]) /\ job[w].rest = << >>
    BY <2>2 DEF LoadSound, Sound
  <2>5. Passed(job[w]) = DOMAIN job[w].feed
    <3>1. Len(job[w].feed) \in Nat /\ DOMAIN job[w].feed = 1 .. Len(job[w].feed)
      BY <2>1, LenProperties DEF Lines
    <3>2. Len(<< >>) = 0
      BY EmptySeq
    <3>. QED
      BY <2>4, <3>1, <3>2 DEF Passed
  <2>6. i \in Passed(job[w]) /\ Says(job[w], i, k)
    BY <2>5 DEF Listed, Says
  <2>. QED
    BY <2>3, <2>4, <2>6 DEF Stamped
<1>3. Spec => [][Exact]_vars
  BY <1>1, <1>2, PTL DEF Spec
<1>. QED
  BY <1>3 DEF SweptAreAbsent

-----------------------------------------------------------------------------
(* The loaded file is served. *)

\* What a step may do to worker w's load without making it untimely.
LEMMA TimelyFrame ==
  ASSUME Inv, NEW w \in Workers, Timely(w), file' = file,
         clock' \in Nat, clock <= clock', last_mtime'[w] = last_mtime[w],
         pc'[w] # "idle" =>
           /\ pc[w] # "idle"
           /\ job'[w].mtime = job[w].mtime /\ job'[w].now = job[w].now,
         pc'[w] \in {"bump", "apply", "sweep"} =>
           pc[w] \in {"bump", "apply", "sweep"} /\ job'[w].feed = job[w].feed
  PROVE  Timely(w)'
<1>1. job[w].now \in Nat /\ clock \in Nat
  BY InvParts, ControlFacts DEF ControlPart
<1>2. pc'[w] # "idle" => job'[w].now <= clock'
  BY <1>1 DEF Timely
<1>. QED
  BY <1>2 DEF Timely

\* The steps of worker w's load.
LEMMA LoadTimely ==
  ASSUME Inv, Times, NEW w \in Workers, Load(w)
  PROVE  Timely(w)'
<1>1. /\ job[w] \in Job /\ job[w].rest \in Lines /\ job[w].feed \in Lines
      /\ file.mtime \in Nat /\ file.feed.body \in Lines
      /\ Len(file.feed.body) \in Nat /\ last_mtime[w] \in Nat
      /\ clock \in Nat /\ job \in [Workers -> Job]
      /\ last_mtime \in [Workers -> Nat]
      /\ pc \in [Workers -> {"idle", "read", "bump", "apply", "sweep"}]
      /\ (lock # None => pc[lock] = "apply") /\ None \notin Workers
  <2>1. ControlPart
    BY InvParts
  <2>. QED
    BY <2>1, ControlFacts, FeedAssumption DEF ControlPart
<1>2. Timely(w) /\ file.mtime <= clock
  BY DEF Times
<1>3. CASE Stat(w)
  <2>1. PICK j : j = NewJob(file.mtime, Len(file.feed.body), clock)
    OBVIOUS
  <2>2. j.mtime = file.mtime /\ j.now = clock
    <3>1. file.mtime \in Nat /\ Len(file.feed.body) \in Nat /\ clock \in Nat
      BY <1>1
    <3>. QED
      BY <2>1, <3>1, JobStarts, ZenonT(60)
  <2>3. /\ job' = [job EXCEPT ![w] = j] /\ pc' = [pc EXCEPT ![w] = "read"]
        /\ file' = file /\ clock' = clock /\ last_mtime' = last_mtime
        /\ file.mtime # 0 /\ (last_mtime[w] = 0 \/ file.mtime # last_mtime[w])
    BY <1>3, <2>1 DEF Stat, NewJob
  <2>4. job'[w] = j /\ pc'[w] = "read"
    BY <1>1, <2>3
  <2>. QED
    BY <1>1, <1>2, <2>2, <2>3, <2>4 DEF Timely
<1>4. CASE Read(w)
  <2>1. PICK y : y = [job[w] EXCEPT !.feed = file.feed.body]
    OBVIOUS
  <2>2. PICK j : j = [y EXCEPT !.rest = file.feed.body]
    OBVIOUS
  <2>3. /\ job' = [job EXCEPT ![w] = j] /\ pc' = [pc EXCEPT ![w] = "bump"]
        /\ file' = file /\ clock' = clock /\ last_mtime' = last_mtime
        /\ pc[w] = "read"
    BY <1>1, <1>4, <2>1, <2>2 DEF Read
  <2>4. /\ y \in Job /\ y.feed = file.feed.body /\ y.mtime = job[w].mtime
        /\ y.now = job[w].now
    BY <1>1, <2>1, JobFields DEF Job
  <2>5. /\ j.feed = file.feed.body /\ j.mtime = job[w].mtime /\ j.now = job[w].now
    BY <2>2, <2>4 DEF Job
  <2>6. job'[w] = j /\ pc'[w] = "bump"
    BY <1>1, <2>3
  <2>. QED
    BY <1>2, <2>3, <2>5, <2>6 DEF Timely
<1>5. CASE Reject(w)
  <2>1. pc'[w] = "idle" /\ file' = file /\ last_mtime' = last_mtime
    BY <1>1, <1>5 DEF Reject
  <2>. QED
    BY <1>2, <2>1 DEF Timely
<1>6. CASE SweepDone(w)
  <2>1. /\ pc'[w] = "idle" /\ file' = file /\ last_mtime'[w] = job[w].mtime
        /\ pc[w] = "sweep"
    BY <1>1, <1>6 DEF SweepDone
  <2>. QED
    BY <1>2, <2>1 DEF Timely
<1>7. ASSUME file' = file, clock' = clock, last_mtime' = last_mtime,
             pc[w] \in {"bump", "apply", "sweep"},
             job'[w].mtime = job[w].mtime, job'[w].now = job[w].now,
             job'[w].feed = job[w].feed
      PROVE  Timely(w)'
  BY <1>1, <1>2, <1>7, TimelyFrame
<1>8. CASE Bump(w)
  <2>1. PICK j : j = [job[w] EXCEPT !.generation = generation + 1]
    OBVIOUS
  <2>2. /\ job' = [job EXCEPT ![w] = j] /\ pc[w] = "bump"
        /\ file' = file /\ clock' = clock /\ last_mtime' = last_mtime
    BY <1>1, <1>8, <2>1 DEF Bump
  <2>3. job'[w] = j /\ j.mtime = job[w].mtime /\ j.now = job[w].now
        /\ j.feed = job[w].feed
    BY <1>1, <2>1, <2>2 DEF Job
  <2>. QED
    BY <1>7, <2>2, <2>3
<1>9. CASE Lock(w) \/ ApplyEnd(w) \/ SweepBatch(w)
  <2>1. /\ job' = job /\ pc[w] \in {"apply", "sweep"}
        /\ file' = file /\ clock' = clock /\ last_mtime' = last_mtime
    BY <1>1, <1>9 DEF Lock, ApplyEnd, SweepBatch
  <2>. QED
    BY <1>7, <2>1
<1>10. CASE SkipLine(w) \/ ApplyFull(w)
  <2>1. PICK r : r \in Lines /\ job' = [job EXCEPT ![w] = [job[w] EXCEPT !.rest = r]]
    <3>1. CASE SkipLine(w)
      <4>1. Tail(job[w].rest) \in Lines
        BY <1>1, <3>1, RestProps DEF SkipLine
      <4>2. job' = [job EXCEPT ![w] = [job[w] EXCEPT !.rest = Tail(job[w].rest)]]
        BY <1>1, <3>1 DEF SkipLine
      <4>. QED
        BY <4>1, <4>2
    <3>2. CASE ApplyFull(w)
      <4>1. << >> \in Lines
        BY DEF Lines
      <4>2. job' = [job EXCEPT ![w] = [job[w] EXCEPT !.rest = << >>]]
        BY <1>1, <3>2 DEF ApplyFull
      <4>. QED
        BY <4>1, <4>2
    <3>. QED
      BY <1>10, <3>1, <3>2
  <2>2. PICK j : j = [job[w] EXCEPT !.rest = r]
    OBVIOUS
  <2>3. /\ pc[w] = "apply" /\ file' = file /\ clock' = clock
        /\ last_mtime' = last_mtime
    BY <1>1, <1>10 DEF SkipLine, ApplyFull
  <2>4. job'[w] = j /\ j.mtime = job[w].mtime /\ j.now = job[w].now
        /\ j.feed = job[w].feed
    BY <1>1, <2>1, <2>2 DEF Job
  <2>. QED
    BY <1>7, <2>3, <2>4
<1>11. CASE ApplyLine(w)
  <2>1. PICK y : y = [job[w] EXCEPT !.rest = Tail(job[w].rest)]
    OBVIOUS
  <2>2. PICK j : j = [y EXCEPT !.applied = job[w].applied + 1]
    OBVIOUS
  <2>3. job' = [job EXCEPT ![w] = j]
    <3>1. job' = [job EXCEPT ![w].rest = Tail(@), ![w].applied = job[w].applied + 1]
      BY <1>11 DEF ApplyLine
    <3>. QED
      BY <1>1, <2>1, <2>2, <3>1
  <2>4. Tail(job[w].rest) \in Lines
    BY <1>1, <1>11, RestProps DEF ApplyLine
  <2>5. y \in Job /\ y.mtime = job[w].mtime /\ y.now = job[w].now
        /\ y.feed = job[w].feed
    BY <1>1, <2>1, <2>4, JobFields DEF Job
  <2>6. j.mtime = job[w].mtime /\ j.now = job[w].now /\ j.feed = job[w].feed
    BY <2>2, <2>5 DEF Job
  <2>7. job'[w] = j
    BY <1>1, <2>3
  <2>8. /\ pc[w] = "apply" /\ file' = file /\ clock' = clock
        /\ last_mtime' = last_mtime
    BY <1>1, <1>11 DEF ApplyLine
  <2>. QED
    BY <1>7, <2>6, <2>7, <2>8
<1>. QED
  BY <1>3, <1>4, <1>5, <1>6, <1>8, <1>9, <1>10, <1>11 DEF Load

\* A worker's load is not affected by another worker's steps or by the clock,
\* and a new file is later than all that was loaded.
LEMMA NextTimes ==
  ASSUME FilesApart, Inv, Times, [Next]_vars
  PROVE  Times'
<1>1. /\ clock \in Nat /\ file.mtime \in Nat /\ job \in [Workers -> Job]
      /\ last_mtime \in [Workers -> Nat]
      /\ pc \in [Workers -> {"idle", "read", "bump", "apply", "sweep"}]
      /\ clock >= 1 /\ file.mtime <= clock
      /\ \A w \in Workers : Timely(w)
  BY InvParts DEF ControlPart, Times
<1>2. ASSUME file' = file, clock' = clock, NEW w \in Workers, NEW v \in Workers,
             w # v => /\ pc'[v] = pc[v] /\ job'[v] = job[v]
                      /\ last_mtime'[v] = last_mtime[v],
             w = v => Timely(v)'
      PROVE  Timely(v)'
  <2>1. CASE w # v
    BY <1>1, <1>2, <2>1, TimelyFrame
  <2>. QED
    BY <1>2, <2>1
<1>3. ASSUME NEW w \in Workers, Load(w) PROVE Times'
  <2>1. file' = file /\ clock' = clock
    BY <1>3 DEF Load, Stat, Read, Reject, Bump, Lock, SkipLine, ApplyLine,
       ApplyFull, ApplyEnd, SweepBatch, SweepDone
  <2>2. \A v \in Workers : w # v =>
          pc'[v] = pc[v] /\ job'[v] = job[v] /\ last_mtime'[v] = last_mtime[v]
    BY <1>1, <1>3 DEF Load, Stat, Read, Reject, Bump, Lock, SkipLine, ApplyLine,
       ApplyFull, ApplyEnd, SweepBatch, SweepDone
  <2>3. Timely(w)'
    BY <1>3, LoadTimely
  <2>4. \A v \in Workers : Timely(v)'
    BY <1>2, <2>1, <2>2, <2>3
  <2>. QED
    BY <1>1, <2>1, <2>4 DEF Times
<1>4. ASSUME NEW w \in Workers, Crash(w) PROVE Times'
  <2>1. file' = file /\ clock' = clock /\ last_mtime'[w] = 0 /\ pc'[w] = "idle"
    BY <1>1, <1>4 DEF Crash
  <2>2. \A v \in Workers : w # v =>
          pc'[v] = pc[v] /\ job'[v] = job[v] /\ last_mtime'[v] = last_mtime[v]
    BY <1>1, <1>4 DEF Crash
  <2>3. Timely(w)'
    BY <1>1, <2>1 DEF Timely
  <2>4. \A v \in Workers : Timely(v)'
    BY <1>2, <2>1, <2>2, <2>3
  <2>. QED
    BY <1>1, <2>1, <2>4 DEF Times
<1>5. ASSUME file' = file, clock' \in {clock, clock + 1}, pc' = pc, job' = job,
             last_mtime' = last_mtime
      PROVE  Times'
  <2>1. clock' \in Nat /\ clock <= clock' /\ clock' >= 1 /\ file.mtime <= clock'
    BY <1>1, <1>5
  <2>2. \A v \in Workers : Timely(v)'
    BY <1>1, <1>5, <2>1, TimelyFrame
  <2>. QED
    BY <1>5, <2>1, <2>2 DEF Times
<1>6. ASSUME NEW f \in Feeds, Write(f) PROVE Times'
  <2>1. /\ file' = [mtime |-> clock, feed |-> f] /\ clock' = clock /\ pc' = pc
        /\ job' = job /\ last_mtime' = last_mtime
        /\ file.mtime = 0 \/ clock - file.mtime >= SidecarPeriod
    BY <1>6 DEF Write
  <2>2. file'.mtime = clock /\ file.mtime < clock
    BY <1>1, <2>1, FeedAssumption DEF FilesApart
  <2>3. ASSUME NEW v \in Workers PROVE Timely(v)'
    <3>1. Timely(v) /\ last_mtime[v] \in Nat /\ job[v].mtime \in Nat
      BY <1>1 DEF Job
    <3>2. last_mtime[v] < clock /\ (pc[v] # "idle" => job[v].mtime < clock)
      BY <1>1, <2>2, <3>1 DEF Timely
    <3>. QED
      BY <1>1, <2>1, <2>2, <3>1, <3>2 DEF Timely
  <2>. QED
    BY <1>1, <2>1, <2>2, <2>3 DEF Times
<1>7. CASE Tick \/ UNCHANGED vars
  <2>1. /\ file' = file /\ clock' \in {clock, clock + 1} /\ pc' = pc /\ job' = job
        /\ last_mtime' = last_mtime
    BY <1>7 DEF Tick, vars
  <2>. QED
    BY <1>5, <2>1
<1>8. ASSUME NEW w \in Workers, NEW k \in Keys,
             Lookup(w, k) \/ \E v \in Pulled : Pull(w, k, v)
      PROVE  Times'
  <2>1. /\ file' = file /\ clock' = clock /\ pc' = pc /\ job' = job
        /\ last_mtime' = last_mtime
    BY <1>8 DEF Lookup, Pull
  <2>. QED
    BY <1>5, <2>1
<1>. QED
  BY <1>3, <1>4, <1>6, <1>7, <1>8 DEF Next

\* The lines of a feed: a listed one is a decision, and one line is the last.
LEMMA ListedProps ==
  ASSUME NEW body \in Lines, NEW k, NEW t \in Nat
  PROVE  /\ Len(body) \in Nat /\ Listed(body, k, t) \in SUBSET (1 .. Len(body))
         /\ \A i \in Listed(body, k, t) :
              /\ body[i] \in Line /\ body[i].expiry \in Nat
              /\ Expiry(body[i], t) \in Nat /\ Expiry(body[i], t) > t
<1>1. /\ Len(body) \in Nat /\ DOMAIN body = 1 .. Len(body)
      /\ \A i \in 1 .. Len(body) : body[i] \in Line \cup {Malformed}
  BY LenProperties, ElementOfSeq DEF Lines
<1>2. Listed(body, k, t) \in SUBSET (1 .. Len(body))
  BY <1>1 DEF Listed
<1>3. ASSUME NEW i \in Listed(body, k, t)
      PROVE  /\ body[i] \in Line /\ body[i].expiry \in Nat
             /\ Expiry(body[i], t) \in Nat /\ Expiry(body[i], t) > t
  <2>1. body[i] \in Line /\ Expiry(body[i], t) > t
    BY <1>1, <1>2 DEF Listed, Running
  <2>2. body[i].expiry \in Nat
    BY <2>1 DEF Line
  <2>. QED
    BY <2>1, <2>2, FeedAssumption DEF Expiry
<1>. QED
  BY <1>1, <1>2, <1>3

LEMMA LatestUnique ==
  ASSUME NEW body \in Lines, NEW k, NEW t \in Nat,
         NEW i \in Latest(body, k, t), NEW n \in Latest(body, k, t)
  PROVE  i = n
<1>1. i \in Int /\ n \in Int /\ i <= n /\ n <= i
  BY ListedProps DEF Latest
<1>. QED
  BY <1>1

\* At a load's end the table is what the feed says.
LEMMA DoneLoaded ==
  ASSUME Lone, Inv, LoadSound, Times, NEW w \in Workers, SweepDone(w)
  PROVE  Loaded'
<1>1. /\ ZonePart /\ job[w] \in Job /\ job[w].feed \in Lines
      /\ clock \in Nat /\ file.mtime \in Nat /\ job[w].now \in Nat
      /\ last_mtime \in [Workers -> Nat]
  <2>1. ControlPart /\ ZonePart
    BY InvParts
  <2>. QED
    BY <2>1, ControlFacts DEF ControlPart
<1>2. /\ pc[w] = "sweep" /\ Swept(job[w].generation) = {} /\ file' = file
      /\ clock' = clock /\ table' = table /\ last_mtime'[w] = job[w].mtime
  BY <1>1 DEF SweepDone, zone
<1>3. SUFFICES ASSUME Current(w)'
               PROVE  \E t \in file.mtime .. clock :
                        \A k \in Keys : AsLoaded(table, file.feed.body, clock, k, t)
  <2>1. \A v \in Workers : v = w
    BY DEF Lone
  <2>. QED
    BY <1>2, <2>1 DEF Loaded
<1>4. PICK j, t, b : j = job[w] /\ t = job[w].now /\ b = file.feed.body
  OBVIOUS
<1>5. t \in file.mtime .. clock /\ j.feed = b
  <2>1. j.mtime = file.mtime
    BY <1>2, <1>3, <1>4 DEF Current
  <2>2. Timely(w)
    BY DEF Times
  <2>3. file.mtime <= t /\ t <= clock /\ j.feed = b
    BY <1>2, <1>4, <2>1, <2>2 DEF Timely
  <2>. QED
    BY <1>1, <1>4, <2>3
<1>6. Stamped(table, j) /\ j.rest = << >>
  BY <1>2, <1>4 DEF LoadSound, Sound
<1>7. \A k \in DOMAIN table : table[k].generation = j.generation
  BY <1>1, <1>2, <1>4, SweptProps
<1>8. Passed(j) = DOMAIN b
  <2>1. Len(j.feed) \in Nat /\ DOMAIN j.feed = 1 .. Len(j.feed)
    BY <1>1, <1>4, LenProperties DEF Lines
  <2>2. Len(<< >>) = 0
    BY EmptySeq
  <2>. QED
    BY <1>5, <1>6, <2>1, <2>2 DEF Passed
<1>9. \A i \in Passed(j), k \in Keys : Says(j, i, k) <=> i \in Listed(b, k, t)
  BY <1>4, <1>5, <1>8 DEF Says, Listed
<1>10. \A k : Listed(b, k, t) \subseteq Passed(j)
  BY <1>8 DEF Listed
<1>11. ASSUME NEW k \in Keys
       PROVE  AsLoaded(table, b, clock, k, t)
  <2>1. \A i \in Listed(b, k, t) : k \in DOMAIN table
    BY <1>6, <1>9, <1>10 DEF Stamped
  <2>2. ASSUME k \in DOMAIN table
        PROVE  \E i \in Latest(b, k, t) :
                 /\ table[k].action = b[i].action
                 /\ table[k].expiry = Expiry(b[i], t)
    <3>1. PICK i \in Passed(j) : Decides(j, i, k, table[k])
      BY <1>6, <1>7, <2>2 DEF Stamped
    <3>2. i \in Latest(b, k, t)
      BY <1>9, <1>10, <3>1 DEF Decides, Latest
    <3>3. table[k].action = b[i].action /\ table[k].expiry = Expiry(b[i], t)
      BY <1>4, <1>5, <3>1 DEF Decides
    <3>. QED
      BY <3>2, <3>3
  <2>. QED
    BY <2>1, <2>2 DEF AsLoaded, Latest
<1>. QED
  BY <1>4, <1>5, <1>11

\* Every step keeps the table as the last load left it, but for ended decisions.
LEMMA NextLoaded ==
  ASSUME Lone, Pulled = {}, FilesApart,
         Inv, LoadSound, Times, Loaded, [Next]_vars
  PROVE  Loaded'
<1>1. /\ clock \in Nat /\ file.mtime \in Nat /\ table \in [ToSet(queue) -> Node]
      /\ last_mtime \in [Workers -> Nat]
      /\ pc \in [Workers -> {"idle", "read", "bump", "apply", "sweep"}]
      /\ file.mtime <= clock /\ \A v \in Workers : Timely(v)
      /\ (lock # None => pc[lock] = "apply") /\ None \notin Workers
      /\ file.feed.body \in Lines
  <2>1. ControlPart /\ ZonePart
    BY InvParts
  <2>2. file.feed.body \in Lines
    BY <2>1 DEF ControlPart, Feed, Lines
  <2>. QED
    BY <2>1, <2>2, FeedAssumption DEF ControlPart, ZonePart, Times
<1>2. ASSUME NEW w \in Workers, ~Current(w)'
      PROVE  Loaded'
  <2>1. \A v \in Workers : v = w
    BY DEF Lone
  <2>. QED
    BY <1>2, <2>1 DEF Loaded
<1>3. ASSUME file' = file, table' = table, pc' = pc, last_mtime' = last_mtime,
             clock' \in {clock, clock + 1}
      PROVE  Loaded'
  <2>1. SUFFICES ASSUME NEW w \in Workers, Current(w)
                 PROVE  \E t \in file.mtime .. clock' :
                          \A k \in Keys : AsLoaded(table, file.feed.body, clock', k, t)
    BY <1>3 DEF Loaded, Current
  <2>2. PICK t \in file.mtime .. clock :
          \A k \in Keys : AsLoaded(table, file.feed.body, clock, k, t)
    BY <2>1 DEF Loaded
  <2>3. t \in file.mtime .. clock'
    BY <1>1, <1>3
  <2>4. ASSUME NEW k \in Keys
        PROVE  AsLoaded(table, file.feed.body, clock', k, t)
    <3>1. \A i \in Latest(file.feed.body, k, t) :
            Expiry(file.feed.body[i], t) \in Nat
      BY <1>1, <2>3, ListedProps DEF Latest
    <3>2. \A e \in Nat : e <= clock => e <= clock'
      BY <1>1, <1>3
    <3>. QED
      BY <2>2, <3>1, <3>2 DEF AsLoaded
  <2>. QED
    BY <2>3, <2>4
<1>4. ASSUME NEW w \in Workers, Load(w) PROVE Loaded'
  <2>1. CASE SweepDone(w)
    BY <2>1, DoneLoaded
  <2>2. CASE Reject(w)
    <3>1. file' = file /\ last_mtime' = last_mtime /\ pc[w] = "read"
      BY <2>2 DEF Reject
    <3>2. last_mtime[w] # file.mtime
      BY <1>1, <3>1 DEF Timely
    <3>. QED
      BY <1>2, <3>1, <3>2 DEF Current
  <2>3. CASE ~SweepDone(w) /\ ~Reject(w)
    <3>1. pc'[w] # "idle"
      BY <1>1, <1>4, <2>3 DEF Load, Stat, Read, Bump, Lock, SkipLine, ApplyLine,
         ApplyFull, ApplyEnd, SweepBatch
    <3>. QED
      BY <1>2, <3>1 DEF Current
  <2>. QED
    BY <2>1, <2>2, <2>3
<1>5. ASSUME NEW w \in Workers, Crash(w) PROVE Loaded'
  <2>1. last_mtime'[w] = 0
    BY <1>1, <1>5 DEF Crash
  <2>. QED
    BY <1>2, <2>1 DEF Current
<1>6. ASSUME NEW f \in Feeds, Write(f) PROVE Loaded'
  <2>1. /\ last_mtime' = last_mtime /\ file' = [mtime |-> clock, feed |-> f]
        /\ file.mtime = 0 \/ clock - file.mtime >= SidecarPeriod
    BY <1>6 DEF Write
  <2>2. file'.mtime = clock /\ file.mtime < clock
    BY <1>1, <2>1, FeedAssumption DEF FilesApart, Times
  <2>3. \A v \in Workers : last_mtime[v] <= file.mtime /\ last_mtime[v] \in Nat
    BY <1>1 DEF Timely
  <2>4. \A v \in Workers : ~Current(v)'
    BY <1>1, <2>1, <2>2, <2>3 DEF Current
  <2>. QED
    BY <2>4 DEF Loaded
<1>7. ASSUME NEW w \in Workers, NEW k \in Keys, Lookup(w, k) PROVE Loaded'
  <2>1. PICK q, c : q = ToSet(Expire(queue)) /\ c = clock
    OBVIOUS
  <2>2. /\ pc' = pc /\ file' = file /\ clock' = clock /\ last_mtime' = last_mtime
        /\ table' = [x \in q |-> IF x = k THEN [table[x] EXCEPT !.last_seen = c]
                                 ELSE table[x]]
    BY <1>7, <2>1 DEF Lookup
  <2>3. /\ q \subseteq DOMAIN table
        /\ \A x \in DOMAIN table : x \notin q => table[x].expiry <= clock
    BY <2>1, ExpireProps
  <2>4. ASSUME NEW x \in DOMAIN table'
        PROVE  /\ x \in DOMAIN table
               /\ table'[x].action = table[x].action
               /\ table'[x].expiry = table[x].expiry
    <3>1. x \in q /\ x \in DOMAIN table /\ table[x] \in Node
      BY <1>1, <2>2, <2>3
    <3>2. /\ [table[x] EXCEPT !.last_seen = c].action = table[x].action
          /\ [table[x] EXCEPT !.last_seen = c].expiry = table[x].expiry
      BY <3>1 DEF Node
    <3>. QED
      BY <2>2, <3>1, <3>2
  <2>5. DOMAIN table' = q
    BY <2>2
  <2>6. SUFFICES ASSUME NEW v \in Workers, Current(v)
                 PROVE  \E t \in file.mtime .. clock :
                          \A x \in Keys : AsLoaded(table', file.feed.body, clock, x, t)
    BY <2>2 DEF Loaded, Current
  <2>7. PICK t \in file.mtime .. clock :
          \A x \in Keys : AsLoaded(table, file.feed.body, clock, x, t)
    BY <2>6 DEF Loaded
  <2>8. t \in Nat
    BY <1>1
  <2>9. ASSUME NEW x \in Keys
        PROVE  AsLoaded(table', file.feed.body, clock, x, t)
    <3>1. AsLoaded(table, file.feed.body, clock, x, t)
      BY <2>7
    <3>2. \A i, n \in Latest(file.feed.body, x, t) : i = n
      BY <1>1, <2>8, LatestUnique
    <3>3. ASSUME NEW i \in Latest(file.feed.body, x, t), x \notin q
          PROVE  Expiry(file.feed.body[i], t) <= clock
      BY <2>3, <3>1, <3>2, <3>3 DEF AsLoaded
    <3>4. ASSUME x \in q
          PROVE  \E i \in Latest(file.feed.body, x, t) :
                   /\ table'[x].action = file.feed.body[i].action
                   /\ table'[x].expiry = Expiry(file.feed.body[i], t)
      BY <2>4, <2>5, <3>1, <3>4 DEF AsLoaded
    <3>. QED
      BY <2>5, <3>3, <3>4 DEF AsLoaded
  <2>. QED
    BY <2>9
<1>8. CASE Tick \/ UNCHANGED vars
  <2>1. /\ file' = file /\ table' = table /\ pc' = pc /\ last_mtime' = last_mtime
        /\ clock' \in {clock, clock + 1}
    BY <1>8 DEF Tick, vars, zone
  <2>. QED
    BY <1>3, <2>1
<1>. QED
  BY <1>4, <1>5, <1>6, <1>7, <1>8 DEF Next

\* A table that is as a load at time t left it serves the file.
LEMMA LoadedServes ==
  ASSUME Inv, file.mtime \in Nat, clock \in Nat, file.feed.body \in Lines,
         NEW t \in file.mtime .. clock, NEW k \in Keys,
         AsLoaded(table, file.feed.body, clock, k, t)
  PROVE  Served(k)
<1>1. PICK b, m, c : b = file.feed.body /\ m = file.mtime /\ c = clock
  OBVIOUS
<1>2. b \in Lines /\ m \in Nat /\ c \in Nat /\ t \in Nat /\ m <= t /\ t <= c
  BY <1>1
<1>3. \A l, x, y : l \in Line /\ x \in Nat /\ y \in Nat /\ x <= y /\ Running(l, y)
        => Running(l, x)
  <2>1. \A l \in Line : l.expiry \in Nat /\ l # Malformed
    BY FeedAssumption DEF Line
  <2>. QED
    BY <2>1, FeedAssumption DEF Running, Expiry
<1>4. /\ \A i \in Listed(b, k, m) : b[i] \in Line /\ b[i].expiry \in Nat
      /\ \A i \in Listed(b, k, t) : b[i] \in Line /\ b[i].expiry \in Nat
      /\ Listed(b, k, m) \in SUBSET (1 .. Len(b)) /\ Len(b) \in Nat
  BY <1>2, ListedProps
<1>5. Listed(b, k, t) \subseteq Listed(b, k, m)
  BY <1>2, <1>3, <1>4 DEF Listed
<1>6. AsLoaded(table, b, c, k, t)
  BY <1>1
<1>. DEFINE S == Listed(b, k, m)
            n == CHOOSE i \in S : \A j \in S : j <= i
<1>7. ASSUME S # {}, b[n].expiry > c
      PROVE  /\ k \in DOMAIN table
             /\ table[k].action = b[n].action
             /\ table[k].expiry = b[n].expiry
  <2>1. n \in S /\ \A j \in S : j <= n
    <3>1. \E i \in S : \A j \in S : j <= i
      BY <1>4, <1>7, LastPosition
    <3>. QED
      BY <3>1
  <2>. HIDE DEF n
  <2>2. Expiry(b[n], t) = b[n].expiry /\ b[n] \in Line /\ b[n].expiry > t
    BY <1>2, <1>4, <1>7, <2>1 DEF Expiry
  <2>3. n \in Listed(b, k, t)
    BY <2>1, <2>2, FeedAssumption DEF Listed, Running
  <2>4. n \in Latest(b, k, t)
    BY <1>5, <2>1, <2>3 DEF Latest
  <2>5. k \in DOMAIN table
    <3>1. ~(Expiry(b[n], t) <= c)
      BY <1>2, <1>4, <1>7, <2>1, <2>2
    <3>. QED
      BY <1>6, <2>4, <3>1 DEF AsLoaded
  <2>6. PICK i \in Latest(b, k, t) :
          table[k].action = b[i].action /\ table[k].expiry = Expiry(b[i], t)
    BY <1>6, <2>5 DEF AsLoaded
  <2>7. i = n
    BY <1>2, <2>4, <2>6, LatestUnique
  <2>. QED
    BY <2>2, <2>5, <2>6, <2>7
<1>8. ASSUME k \in DOMAIN table, table[k].expiry > c
      PROVE  Listed(b, k, c) # {}
  <2>1. PICK i \in Latest(b, k, t) :
          table[k].action = b[i].action /\ table[k].expiry = Expiry(b[i], t)
    BY <1>6, <1>8 DEF AsLoaded
  <2>2. i \in Listed(b, k, t) /\ b[i] \in Line /\ b[i].expiry \in Nat
    BY <1>4, <2>1 DEF Latest
  <2>3. Expiry(b[i], c) > c
    BY <1>2, <1>8, <2>1, <2>2, FeedAssumption DEF Expiry
  <2>4. i \in Listed(b, k, c)
    BY <2>2, <2>3 DEF Listed, Running
  <2>. QED
    BY <2>4
<1>. QED
  BY <1>1, <1>7, <1>8 DEF Served

\* Once the only loader of a zone with room for every client has loaded the file
\* that is there, the running bans are exactly the file's, each with the action
\* and the end that its last line gives: however often the file is replaced,
\* also between a load's stat and its read, and wherever a load was cut short by
\* a crash.
THEOREM LoadedFileIsServed ==
  ASSUME Lone, Room, FilesApart, Pulled = {}
  PROVE  Spec => []LoadedFeedServed
<1>. DEFINE IInv == Inv /\ LoadSound /\ Times /\ Loaded
<1>1. Init => IInv
  <2>. SUFFICES ASSUME Init PROVE IInv
    OBVIOUS
  <2>1. Inv /\ LoadSound
    BY InitInv, InitSound
  <2>2. /\ clock = 1 /\ file.mtime = 0
        /\ \A w \in Workers : pc[w] = "idle" /\ last_mtime[w] = 0
    BY DEF Init
  <2>3. Times /\ Loaded
    BY <2>2 DEF Times, Timely, Loaded, Current
  <2>. QED
    BY <2>1, <2>3
<1>2. IInv /\ [Next]_vars => IInv'
  BY NextInv, NextSound, NextTimes, NextLoaded
<1>3. IInv => LoadedFeedServed
  <2>. SUFFICES ASSUME IInv, \A w \in Workers : pc[w] = "idle",
                       NEW w \in Workers,
                       last_mtime[w] = file.mtime, file.mtime # 0,
                       NEW k \in Keys
                PROVE  Served(k)
    BY DEF LoadedFeedServed
  <2>1. PICK t \in file.mtime .. clock :
          AsLoaded(table, file.feed.body, clock, k, t)
    BY DEF Loaded, Current
  <2>2. file.mtime \in Nat /\ clock \in Nat /\ file.feed.body \in Lines
    BY InvParts, ControlFacts DEF ControlPart
  <2>. QED
    BY <2>1, <2>2, LoadedServes
<1>4. Spec => []IInv
  BY <1>1, <1>2, PTL DEF Spec
<1>. QED
  BY <1>3, <1>4, PTL
=============================================================================
