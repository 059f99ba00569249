---------------------------- MODULE FcrdnsProofs ----------------------------
(***************************************************************************)
(* Proofs about Fcrdns, for any addresses, names, locations, workers and   *)
(* number of lookups under way: the state stays well formed, a cached      *)
(* verdict is backed by what the DNS said while its lookup ran, and a      *)
(* verdict that runs is never lost.                                        *)
(*                                                                         *)
(* VerdictBacked is not inductive: a lookup that waits for its second      *)
(* answer carries a name the DNS gave earlier.  Inv says of it what the    *)
(* verdict will need: the name was given when the carrier says, it passed  *)
(* the location's suffixes, and the question is at most Timeout old.       *)
(***************************************************************************)
EXTENDS Fcrdns, SequenceTheorems, TLAPS

\* The DNS says now what the history records for this second.
NowRecorded == world \in hist[clock]

\* A carrier is not older than its timer allows, and its name is an answer.
FlightsBacked ==
  \A s \in Slots :
    flight[s] # Idle =>
      /\ flight[s].since <= clock
      /\ clock <= flight[s].since + Timeout
      /\ flight[s].at = "fwd" =>
           /\ flight[s].name \in Names
           /\ flight[s].name \in Accepts[flight[s].loc]
           /\ Said(flight[s].since, flight[s].ip, flight[s].name)

Inv == TypeOK /\ NowRecorded /\ FlightsBacked /\ VerdictBacked

-----------------------------------------------------------------------------
(* The LRU queue. *)

\* Dropping the tail loses the tail's address at most.
LEMMA FrontProps ==
  ASSUME NEW S, NEW q \in Seq(S), q # << >>
  PROVE  /\ Front(q) \in Seq(S)
         /\ ToSet(Front(q)) \subseteq ToSet(q)
         /\ \A x \in ToSet(q) : x # Last(q) => x \in ToSet(Front(q))
         /\ Last(q) \in ToSet(q)
<1>1. Len(q) \in Nat /\ Len(q) > 0 /\ DOMAIN q = 1 .. Len(q)
  BY EmptySeq, LenProperties
<1>2. PICK n \in Nat : n = Len(q) - 1
  <2>1. Len(q) - 1 \in Nat
    BY <1>1
  <2>. QED
    BY <2>1
<1>3. Front(q) = SubSeq(q, 1, n)
  BY <1>2 DEF Front
<1>4. \A i \in 1 .. n : q[i] \in S
  BY <1>1, <1>2, ElementOfSeq
<1>5. /\ SubSeq(q, 1, n) \in Seq(S)
      /\ Len(SubSeq(q, 1, n)) = IF 1 <= n THEN n - 1 + 1 ELSE 0
      /\ \A i \in 1 .. n - 1 + 1 : SubSeq(q, 1, n)[i] = q[1 + i - 1]
  BY <1>4, SubSeqProperties
<1>6. /\ Front(q) \in Seq(S) /\ DOMAIN Front(q) = 1 .. n
      /\ \A i \in 1 .. n : Front(q)[i] = q[i]
  <2>1. PICK f : f = Front(q)
    OBVIOUS
  <2>2. f \in Seq(S) /\ Len(f) = n
    BY <1>2, <1>3, <1>5, <2>1
  <2>3. DOMAIN f = 1 .. Len(f)
    BY <2>2, LenProperties
  <2>4. \A i \in 1 .. n : f[i] = q[i]
    BY <1>2, <1>3, <1>5, <2>1
  <2>. QED
    BY <2>1, <2>2, <2>3, <2>4
<1>7. Last(q) = q[Len(q)]
  BY DEF Last
<1>. QED
  BY <1>1, <1>2, <1>6, <1>7 DEF ToSet

\* A new node at the head of the queue.
LEMMA ConsProps ==
  ASSUME NEW S, NEW q \in Seq(S), NEW k \in S
  PROVE  Cons(k, q) \in Seq(S) /\ ToSet(Cons(k, q)) = {k} \cup ToSet(q)
<1>1. Len(q) \in Nat /\ DOMAIN q = 1 .. Len(q)
  BY LenProperties
<1>2. <<k>> \in Seq(S) /\ Len(<<k>>) = 1 /\ <<k>>[1] = k
  OBVIOUS
<1>3. PICK c : c = Cons(k, q)
  OBVIOUS
<1>4. /\ c \in Seq(S) /\ Len(c) = Len(q) + 1 /\ c[1] = k
      /\ \A i \in 2 .. Len(q) + 1 : c[i] = q[i - 1]
  BY <1>1, <1>2, <1>3, ConcatProperties DEF Cons
<1>5. DOMAIN c = 1 .. Len(q) + 1
  BY <1>4, LenProperties
<1>6. ASSUME NEW i \in 1 .. Len(q) PROVE q[i] \in ToSet(c)
  <2>1. i + 1 \in 2 .. Len(q) + 1 /\ (i + 1) - 1 = i /\ i + 1 \in DOMAIN c
    BY <1>1, <1>5
  <2>2. c[i + 1] = q[i]
    BY <1>4, <2>1
  <2>. QED
    BY <2>1, <2>2 DEF ToSet
<1>7. ASSUME NEW i \in 1 .. Len(q) + 1 PROVE c[i] \in {k} \cup ToSet(q)
  <2>1. CASE i = 1
    BY <1>4, <2>1
  <2>2. CASE i # 1
    <3>1. i \in 2 .. Len(q) + 1 /\ i - 1 \in DOMAIN q
      BY <1>1, <2>2
    <3>. QED
      BY <1>4, <3>1 DEF ToSet
  <2>. QED
    BY <2>1, <2>2
<1>8. k \in ToSet(c)
  BY <1>1, <1>4, <1>5 DEF ToSet
<1>9. \A x : x \in ToSet(c) <=> x \in {k} \cup ToSet(q)
  BY <1>1, <1>5, <1>6, <1>7, <1>8 DEF ToSet
<1>. QED
  BY <1>3, <1>4, <1>9

\* Moving a node to the head keeps the nodes.
LEMMA TouchProps ==
  ASSUME NEW S, NEW q \in Seq(S), NEW k \in ToSet(q)
  PROVE  Touch(q, k) \in Seq(S) /\ ToSet(Touch(q, k)) = ToSet(q)
<1>1. /\ Len(q) \in Nat /\ DOMAIN q = 1 .. Len(q)
      /\ \A i \in 1 .. Len(q) : q[i] \in S
  BY LenProperties, ElementOfSeq
<1>2. PICK n : n = CHOOSE i \in DOMAIN q : q[i] = k
  OBVIOUS
<1>3. n \in 1 .. Len(q) /\ q[n] = k
  <2>1. \E i \in DOMAIN q : q[i] = k
    BY DEF ToSet
  <2>. QED
    BY <1>1, <1>2, <2>1
<1>4. PICK a, b : a = SubSeq(q, 1, n - 1) /\ b = SubSeq(q, n + 1, Len(q))
  OBVIOUS
<1>5. a \in Seq(S) /\ Len(a) = n - 1 /\ \A i \in 1 .. n - 1 : a[i] = q[i]
  <2>1. PICK m \in Int : m = n - 1
    BY <1>3
  <2>2. \A i \in 1 .. m : q[i] \in S
    BY <1>1, <1>3, <2>1
  <2>3. /\ SubSeq(q, 1, m) \in Seq(S)
        /\ Len(SubSeq(q, 1, m)) = IF 1 <= m THEN m - 1 + 1 ELSE 0
        /\ \A i \in 1 .. m - 1 + 1 : SubSeq(q, 1, m)[i] = q[1 + i - 1]
    BY <2>2, SubSeqProperties
  <2>. QED
    BY <1>3, <1>4, <2>1, <2>3
<1>6. /\ b \in Seq(S) /\ Len(b) = Len(q) - n
      /\ \A i \in 1 .. Len(q) - n : b[i] = q[n + i]
  <2>0. n + 1 \in Int /\ Len(q) \in Int
    BY <1>1, <1>3
  <2>1. PICK m \in Int, l \in Int : m = n + 1 /\ l = Len(q)
    BY <2>0
  <2>2. \A i \in m .. l : q[i] \in S
    BY <1>1, <1>3, <2>1
  <2>3. /\ SubSeq(q, m, l) \in Seq(S)
        /\ Len(SubSeq(q, m, l)) = IF m <= l THEN l - m + 1 ELSE 0
        /\ \A i \in 1 .. l - m + 1 : SubSeq(q, m, l)[i] = q[m + i - 1]
    BY <2>2, SubSeqProperties
  <2>4. b = SubSeq(q, m, l)
    BY <1>4, <2>1
  <2>5. b \in Seq(S) /\ Len(b) = Len(q) - n
    <3>1. Len(b) = IF m <= l THEN l - m + 1 ELSE 0
      BY <2>3, <2>4
    <3>2. n \in Int /\ n <= l
      BY <1>1, <1>3, <2>1
    <3>3. CASE m <= l
      BY <2>1, <2>3, <2>4, <3>1, <3>2, <3>3
    <3>4. CASE ~(m <= l)
      <4>1. l - n = 0
        BY <2>1, <3>2, <3>4
      <4>. QED
        BY <2>1, <2>3, <2>4, <3>1, <3>4, <4>1
    <3>. QED
      BY <3>3, <3>4
  <2>6. ASSUME NEW i \in 1 .. Len(q) - n PROVE b[i] = q[n + i]
    <3>1. i \in 1 .. l - m + 1 /\ m + i - 1 = n + i
      BY <1>1, <1>3, <2>1
    <3>. QED
      BY <2>3, <2>4, <3>1
  <2>. QED
    BY <2>5, <2>6
<1>7. /\ a \o b \in Seq(S)
      /\ Len(a \o b) = Len(a) + Len(b)
      /\ \A i \in 1 .. Len(a) + Len(b) :
           (a \o b)[i] = IF i <= Len(a) THEN a[i] ELSE b[i - Len(a)]
  BY <1>5, <1>6, ConcatProperties
<1>8. PICK r : r = RemoveAt(q, n)
  OBVIOUS
<1>9. r = a \o b
  BY <1>4, <1>8 DEF RemoveAt
<1>10. r \in Seq(S) /\ DOMAIN r = 1 .. Len(q) - 1
  <2>0. Len(a) + Len(b) = Len(q) - 1
    BY <1>1, <1>3, <1>5, <1>6
  <2>1. r \in Seq(S) /\ Len(r) = Len(q) - 1
    BY <1>7, <1>9, <2>0
  <2>2. DOMAIN r = 1 .. Len(r)
    BY <2>1, LenProperties
  <2>. QED
    BY <2>1, <2>2
<1>11. ASSUME NEW i \in 1 .. Len(q) - 1
       PROVE  r[i] = IF i < n THEN q[i] ELSE q[i + 1]
  <2>1. r[i] = IF i <= n - 1 THEN a[i] ELSE b[i - (n - 1)]
    BY <1>1, <1>3, <1>5, <1>6, <1>7, <1>9
  <2>2. CASE i < n
    BY <1>1, <1>3, <1>5, <2>1, <2>2
  <2>3. CASE ~(i < n)
    <3>1. i - (n - 1) \in 1 .. Len(q) - n
      BY <1>1, <1>3, <2>3
    <3>2. b[i - (n - 1)] = q[n + (i - (n - 1))]
      BY <1>6, <3>1
    <3>3. n + (i - (n - 1)) = i + 1 /\ ~(i <= n - 1)
      BY <1>1, <1>3, <2>3
    <3>. QED
      BY <2>1, <2>3, <3>2, <3>3
  <2>. QED
    BY <2>2, <2>3
<1>12. k \in S
  BY <1>1, <1>3
<1>13. Touch(q, k) = Cons(k, r)
  BY <1>2, <1>8 DEF Touch
<1>14. Touch(q, k) \in Seq(S) /\ ToSet(Touch(q, k)) = {k} \cup ToSet(r)
  BY <1>10, <1>12, <1>13, ConsProps
<1>15. ASSUME NEW i \in 1 .. Len(q) PROVE q[i] \in {k} \cup ToSet(r)
  <2>1. CASE i = n
    BY <1>3, <2>1
  <2>2. CASE i < n
    <3>1. i \in 1 .. Len(q) - 1
      BY <1>1, <1>3, <2>2
    <3>. QED
      BY <1>10, <1>11, <2>2, <3>1 DEF ToSet
  <2>3. CASE i > n
    <3>1. /\ i - 1 \in 1 .. Len(q) - 1 /\ ~(i - 1 < n) /\ (i - 1) + 1 = i
      BY <1>1, <1>3, <2>3
    <3>2. r[i - 1] = q[i]
      BY <1>11, <3>1
    <3>. QED
      BY <1>10, <3>1, <3>2 DEF ToSet
  <2>. QED
    BY <1>1, <1>3, <2>1, <2>2, <2>3
<1>16. ASSUME NEW i \in 1 .. Len(q) - 1 PROVE r[i] \in ToSet(q)
  <2>1. i \in DOMAIN q /\ i + 1 \in DOMAIN q
    BY <1>1
  <2>. QED
    BY <1>11, <2>1 DEF ToSet
<1>17. ToSet(q) \subseteq {k} \cup ToSet(r)
  BY <1>1, <1>15 DEF ToSet
<1>18. ToSet(r) \subseteq ToSet(q)
  BY <1>10, <1>16 DEF ToSet
<1>. QED
  BY <1>14, <1>17, <1>18

-----------------------------------------------------------------------------
(* The zone. *)

\* The numbers among the constants.
LEMMA Bounds ==
  /\ MaxTime \in Nat /\ Timeout \in Nat /\ MaxChanges \in Nat
  /\ \A l \in Locs : Ttl[l] \in Nat
  BY FcrdnsAssumption

\* Expiry never drops a verdict that runs.
LEMMA ExpireTailProps ==
  ASSUME TypeOK, NEW q \in Seq(Ips), ToSet(q) \subseteq DOMAIN cache
  PROVE  /\ ExpireTail(q) \in Seq(Ips)
         /\ ToSet(ExpireTail(q)) \subseteq ToSet(q)
         /\ \A x \in ToSet(q) : Known(x) => x \in ToSet(ExpireTail(q))
<1>1. CASE /\ q # << >>
           /\ cache[Last(q)].expiry <= clock
           /\ clock - cache[Last(q)].last_seen >= Interval
  <2>1. ExpireTail(q) = Front(q)
    BY <1>1 DEF ExpireTail
  <2>2. /\ Front(q) \in Seq(Ips)
        /\ ToSet(Front(q)) \subseteq ToSet(q)
        /\ \A x \in ToSet(q) : x # Last(q) => x \in ToSet(Front(q))
        /\ Last(q) \in ToSet(q)
    BY <1>1, FrontProps
  <2>3. ~Known(Last(q))
    <3>1. cache[Last(q)] \in Entry
      BY <2>2 DEF TypeOK
    <3>2. cache[Last(q)].expiry \in Int /\ clock \in Int
      BY <3>1, Bounds DEF TypeOK, Entry
    <3>. QED
      BY <1>1, <3>2 DEF Known
  <2>. QED
    BY <2>1, <2>2, <2>3
<1>2. CASE ~(/\ q # << >>
             /\ cache[Last(q)].expiry <= clock
             /\ clock - cache[Last(q)].last_seen >= Interval)
  BY <1>2 DEF ExpireTail
<1>. QED
  BY <1>1, <1>2

\* What a read of the cache leaves: fewer nodes perhaps, each as it was but for
\* the time it was last asked for, and every verdict that runs.
LEMMA GetProps ==
  ASSUME TypeOK, NEW ip, Get(ip)
  PROVE  /\ queue' \in Seq(Ips)
         /\ cache' \in [ToSet(queue') -> Entry]
         /\ \A x \in DOMAIN cache' :
              /\ x \in DOMAIN cache
              /\ cache'[x].verdict = cache[x].verdict
              /\ cache'[x].expiry = cache[x].expiry
         /\ \A x \in DOMAIN cache : Known(x) => x \in DOMAIN cache'
<1>1. /\ queue \in Seq(Ips) /\ DOMAIN cache = ToSet(queue)
      /\ \A x \in DOMAIN cache : cache[x] \in Entry
      /\ clock \in Nat
  BY Bounds DEF TypeOK
<1>2. PICK once : once = ExpireTail(queue)
  OBVIOUS
<1>3. /\ once \in Seq(Ips) /\ ToSet(once) \subseteq DOMAIN cache
      /\ \A x \in DOMAIN cache : Known(x) => x \in ToSet(once)
  BY <1>1, <1>2, ExpireTailProps
<1>4. PICK kept : kept = ExpireTail(once)
  OBVIOUS
<1>5. /\ kept \in Seq(Ips) /\ ToSet(kept) \subseteq DOMAIN cache
      /\ \A x \in DOMAIN cache : Known(x) => x \in ToSet(kept)
  BY <1>3, <1>4, ExpireTailProps
<1>6. /\ queue' = IF ip \in ToSet(kept) THEN Touch(kept, ip) ELSE kept
      /\ cache' = [x \in ToSet(kept) |->
                     IF x = ip THEN [cache[x] EXCEPT !.last_seen = clock]
                     ELSE cache[x]]
  BY <1>2, <1>4 DEF Get
<1>7. queue' \in Seq(Ips) /\ ToSet(queue') = ToSet(kept)
  BY <1>5, <1>6, TouchProps
<1>8. ASSUME NEW x \in ToSet(kept)
      PROVE  /\ cache'[x] \in Entry
             /\ cache'[x].verdict = cache[x].verdict
             /\ cache'[x].expiry = cache[x].expiry
  <2>1. cache[x] \in Entry
    BY <1>1, <1>5
  <2>2. [cache[x] EXCEPT !.last_seen = clock] \in Entry
    BY <1>1, <2>1 DEF Entry
  <2>3. cache'[x] = IF x = ip THEN [cache[x] EXCEPT !.last_seen = clock]
                    ELSE cache[x]
    BY <1>6
  <2>. QED
    BY <2>1, <2>2, <2>3 DEF Entry
<1>9. DOMAIN cache' = ToSet(kept)
  BY <1>6
<1>10. cache' \in [ToSet(kept) -> Entry]
  BY <1>6, <1>8
<1>. QED
  BY <1>5, <1>7, <1>8, <1>9, <1>10

\* What a write to the cache leaves: every node, and the new verdict at most.
LEMMA SetProps ==
  ASSUME TypeOK, NEW ip \in Ips, NEW v \in Verdicts, NEW ttl \in Nat,
         Set(ip, v, ttl)
  PROVE  /\ queue' \in Seq(Ips)
         /\ cache' \in [ToSet(queue') -> Entry]
         /\ \A x \in DOMAIN cache : x \in DOMAIN cache'
         /\ \A x \in DOMAIN cache' :
              \/ x \in DOMAIN cache /\ cache'[x] = cache[x]
              \/ x = ip /\ cache'[x] = [verdict |-> v, expiry |-> clock + ttl,
                                        last_seen |-> clock]
<1>1. /\ queue \in Seq(Ips) /\ DOMAIN cache = ToSet(queue)
      /\ \A x \in DOMAIN cache : cache[x] \in Entry
      /\ cache \in [ToSet(queue) -> Entry]
      /\ clock \in Nat
  BY Bounds DEF TypeOK
<1>2. CASE ip \in DOMAIN cache \/ Len(queue) < Capacity
  <2>1. PICK e : e = [verdict |-> v, expiry |-> clock + ttl,
                      last_seen |-> clock]
    OBVIOUS
  <2>2. e \in Entry
    <3>1. clock + ttl \in Nat
      BY <1>1
    <3>. QED
      BY <1>1, <2>1, <3>1 DEF Entry
  <2>3. /\ queue' = IF ip \in DOMAIN cache THEN Touch(queue, ip)
                                           ELSE Cons(ip, queue)
        /\ cache' = [x \in {ip} \cup DOMAIN cache |->
                       IF x = ip THEN e ELSE cache[x]]
    BY <1>2, <2>1 DEF Set
  <2>4. queue' \in Seq(Ips) /\ ToSet(queue') = {ip} \cup DOMAIN cache
    <3>1. CASE ip \in DOMAIN cache
      BY <1>1, <2>3, <3>1, TouchProps
    <3>2. CASE ip \notin DOMAIN cache
      BY <1>1, <2>3, <3>2, ConsProps
    <3>. QED
      BY <3>1, <3>2
  <2>5. \A x \in {ip} \cup DOMAIN cache :
          cache'[x] \in Entry /\ cache'[x] = IF x = ip THEN e ELSE cache[x]
    BY <1>1, <2>2, <2>3
  <2>6. cache' \in [{ip} \cup DOMAIN cache -> Entry]
    BY <2>3, <2>5
  <2>. QED
    BY <2>1, <2>3, <2>4, <2>5, <2>6
<1>3. CASE ~(ip \in DOMAIN cache \/ Len(queue) < Capacity)
  BY <1>1, <1>3 DEF Set
<1>. QED
  BY <1>2, <1>3

-----------------------------------------------------------------------------
(* What a verdict rests on stays recorded. *)

\* The history of the seconds up to now only grows.
Grows == /\ DOMAIN hist' = DOMAIN hist
         /\ \A u \in 0 .. clock : hist[u] \subseteq hist'[u]

LEMMA SaidKept ==
  ASSUME Grows, NEW t \in 0 .. clock, NEW ip, NEW n, Said(t, ip, n)
  PROVE  Said(t, ip, n)'
  BY DEF Grows, Said

LEMMA BackedKept ==
  ASSUME TypeOK, Grows, NEW t \in 0 .. clock, NEW ip, NEW v, NEW l,
         Backed(ip, v, l, t)
  PROVE  Backed(ip, v, l, t)'
<1>1. PICK u \in t - Timeout .. t, n \in Names :
        /\ u \in DOMAIN hist
        /\ Said(u, ip, n)
        /\ IF n \in Accepts[l]
           THEN \E w \in hist[t] :
                  /\ w.fwd[n] # {}
                  /\ v = IF ip \in w.fwd[n] THEN "verified" ELSE "failed"
           ELSE v = "failed" /\ u = t
  BY DEF Backed
<1>2. u \in 0 .. clock
  <2>1. DOMAIN hist = 0 .. MaxTime /\ clock \in Nat
    BY Bounds DEF TypeOK
  <2>. QED
    BY <1>1, <2>1, Bounds
<1>3. Said(u, ip, n)' /\ u \in DOMAIN hist'
  BY <1>1, <1>2, SaidKept DEF Grows
<1>4. IF n \in Accepts[l]
      THEN \E w \in hist'[t] :
             /\ w.fwd[n] # {}
             /\ v = IF ip \in w.fwd[n] THEN "verified" ELSE "failed"
      ELSE v = "failed" /\ u = t
  BY <1>1 DEF Grows
<1>. QED
  BY <1>1, <1>3, <1>4 DEF Backed

\* Steps that leave every verdict's content alone.
LEMMA VerdictsKept ==
  ASSUME TypeOK, VerdictBacked, Grows, clock' \in Nat, clock <= clock',
         \A x \in DOMAIN cache' :
           /\ x \in DOMAIN cache
           /\ cache'[x].verdict = cache[x].verdict
           /\ cache'[x].expiry = cache[x].expiry
  PROVE  VerdictBacked'
<1>1. ASSUME NEW x \in DOMAIN cache'
      PROVE  \E l \in Locs :
               /\ cache'[x].expiry >= Ttl[l]
               /\ cache'[x].expiry - Ttl[l] <= clock'
               /\ Backed(x, cache[x].verdict, l, cache[x].expiry - Ttl[l])'
  <2>1. /\ x \in DOMAIN cache
        /\ cache'[x].verdict = cache[x].verdict
        /\ cache'[x].expiry = cache[x].expiry
    OBVIOUS
  <2>2. cache[x].expiry \in Nat /\ clock \in Nat
    <3>1. cache[x] \in Entry
      BY <2>1 DEF TypeOK
    <3>. QED
      BY <3>1, Bounds DEF TypeOK, Entry
  <2>3. PICK l \in Locs :
          /\ cache[x].expiry >= Ttl[l]
          /\ cache[x].expiry - Ttl[l] <= clock
          /\ Backed(x, cache[x].verdict, l, cache[x].expiry - Ttl[l])
    BY <2>1 DEF VerdictBacked
  <2>4. PICK v, t : v = cache[x].verdict /\ t = cache[x].expiry - Ttl[l]
    OBVIOUS
  <2>5. t \in 0 .. clock
    BY <2>2, <2>3, <2>4, Bounds
  <2>6. Backed(x, v, l, t)'
    BY <2>3, <2>4, <2>5, BackedKept
  <2>7. cache[x].expiry - Ttl[l] <= clock'
    BY <2>2, <2>3, Bounds
  <2>8. v = cache'[x].verdict /\ t = cache'[x].expiry - Ttl[l]
    BY <2>1, <2>4
  <2>9. Backed(x, cache[x].verdict, l, cache[x].expiry - Ttl[l])'
    BY <2>6, <2>8
  <2>. QED
    BY <2>1, <2>3, <2>7, <2>9
<1>. QED
  BY <1>1 DEF VerdictBacked

\* Steps that leave the carriers alone.
LEMMA FlightsKept ==
  ASSUME TypeOK, FlightsBacked, Grows, clock' = clock,
         \A s \in Slots : flight'[s] = flight[s] \/ flight'[s] = Idle
  PROVE  FlightsBacked'
<1>1. ASSUME NEW s \in Slots, flight'[s] # Idle
      PROVE  /\ flight'[s] = flight[s]
             /\ flight[s].since <= clock
             /\ clock <= flight[s].since + Timeout
             /\ flight[s].at = "fwd" =>
                  /\ flight[s].name \in Names
                  /\ flight[s].name \in Accepts[flight[s].loc]
                  /\ Said(flight[s].since, flight[s].ip, flight[s].name)'
  <2>1. flight'[s] = flight[s] /\ flight[s] # Idle
    BY <1>1
  <2>2. /\ flight[s].since <= clock
        /\ clock <= flight[s].since + Timeout
        /\ flight[s].at = "fwd" =>
             /\ flight[s].name \in Names
             /\ flight[s].name \in Accepts[flight[s].loc]
             /\ Said(flight[s].since, flight[s].ip, flight[s].name)
    BY <2>1 DEF FlightsBacked
  <2>3. flight[s] \in Carrier
    BY <2>1 DEF TypeOK
  <2>4. flight[s].since \in 0 .. clock
    BY <2>2, <2>3, Bounds DEF Carrier, TypeOK
  <2>5. PICK t, a, n :
          /\ t \in 0 .. clock
          /\ t = flight[s].since /\ a = flight[s].ip /\ n = flight[s].name
    BY <2>4
  <2>6. flight[s].at = "fwd" => Said(t, a, n)'
    BY <2>2, <2>5, SaidKept
  <2>. QED
    BY <2>1, <2>2, <2>5, <2>6
<1>. QED
  BY <1>1 DEF FlightsBacked

-----------------------------------------------------------------------------
(* The steps. *)

LEMMA InitInv == Init => Inv
<1>. SUFFICES ASSUME Init PROVE Inv
  OBVIOUS
<1>1. ToSet(queue) = {} /\ DOMAIN cache = {} /\ queue \in Seq(Ips)
  BY DEF Init, ToSet
<1>2. 0 \in 0 .. MaxTime /\ 0 \in 0 .. MaxChanges
  BY Bounds
<1>3. cache \in [ToSet(queue) -> Entry]
  BY <1>1 DEF Init
<1>4. TypeOK
  BY <1>1, <1>2, <1>3 DEF Init, TypeOK
<1>5. NowRecorded
  BY <1>2 DEF Init, NowRecorded
<1>6. FlightsBacked
  BY DEF Init, FlightsBacked
<1>7. VerdictBacked
  BY <1>1 DEF VerdictBacked
<1>. QED
  BY <1>4, <1>5, <1>6, <1>7 DEF Inv

\* A request reads the cache and may take a carrier.
LEMMA RequestInv ==
  ASSUME Inv, NEW ip \in Ips, Request(ip)
  PROVE  Inv'
<1>. USE DEF Inv
<1>1. Get(ip) /\ UNCHANGED <<clock, world, hist, changes>>
  BY DEF Request, Answered, NoLookup, ResolveStart
<1>2. /\ queue' \in Seq(Ips)
      /\ cache' \in [ToSet(queue') -> Entry]
      /\ \A x \in DOMAIN cache' :
           /\ x \in DOMAIN cache
           /\ cache'[x].verdict = cache[x].verdict
           /\ cache'[x].expiry = cache[x].expiry
  BY <1>1, GetProps
<1>3. Grows
  BY <1>1 DEF Grows
<1>4. clock \in Nat
  BY Bounds DEF TypeOK
<1>5. VerdictBacked'
  BY <1>1, <1>2, <1>3, <1>4, VerdictsKept
<1>6. NowRecorded'
  BY <1>1 DEF NowRecorded
<1>7. CASE flight' = flight
  <2>1. TypeOK'
    BY <1>1, <1>2, <1>7 DEF TypeOK
  <2>2. FlightsBacked'
    BY <1>1, <1>3, <1>7, FlightsKept
  <2>. QED
    BY <1>5, <1>6, <2>1, <2>2
<1>8. ASSUME NEW s \in Slots, NEW l \in Locs, ResolveStart(s, l, ip)
      PROVE  Inv'
  <2>1. PICK c : c = [ip |-> ip, loc |-> l, at |-> "ptr", name |-> None,
                      since |-> clock]
    OBVIOUS
  <2>2. c \in Carrier
    BY <1>4, <2>1 DEF Carrier
  <2>3. flight' = [flight EXCEPT ![s] = c]
    BY <1>8, <2>1 DEF ResolveStart
  <2>4. flight' \in [Slots -> Carrier \cup {Idle}]
    BY <2>2, <2>3 DEF TypeOK
  <2>5. TypeOK'
    BY <1>1, <1>2, <2>4 DEF TypeOK
  <2>6. FlightsBacked'
    <3>1. ASSUME NEW z \in Slots, flight'[z] # Idle, z # s
          PROVE  (/\ flight[z].since <= clock
                  /\ clock <= flight[z].since + Timeout
                  /\ flight[z].at = "fwd" =>
                       /\ flight[z].name \in Names
                       /\ flight[z].name \in Accepts[flight[z].loc]
                       /\ Said(flight[z].since, flight[z].ip, flight[z].name))'
      <4>1. flight'[z] = flight[z]
        BY <2>3, <3>1 DEF TypeOK
      <4>. QED
        BY <1>1, <3>1, <4>1 DEF FlightsBacked, Said
    <3>2. flight'[s] = c /\ c.at = "ptr" /\ c.since = clock
      BY <2>1, <2>3 DEF TypeOK
    <3>3. clock <= clock + Timeout /\ clock <= clock
      BY <1>4, Bounds
    <3>. QED
      BY <1>1, <3>1, <3>2, <3>3 DEF FlightsBacked
  <2>. QED
    BY <1>5, <1>6, <2>5, <2>6
<1>. QED
  BY <1>7, <1>8 DEF Request, Answered, NoLookup

\* A lookup that ends without a verdict, and the death of a worker, only free
\* carriers.
LEMMA FreedInv ==
  ASSUME Inv, flight' \in [Slots -> Carrier \cup {Idle}],
         \A s \in Slots : flight'[s] = flight[s] \/ flight'[s] = Idle,
         UNCHANGED <<clock, world, hist, cache, queue, changes>>
  PROVE  Inv'
<1>. USE DEF Inv
<1>1. Grows
  BY DEF Grows
<1>2. clock \in Nat
  BY Bounds DEF TypeOK
<1>3. TypeOK'
  BY DEF TypeOK
<1>4. NowRecorded'
  BY DEF NowRecorded
<1>5. FlightsBacked'
  BY <1>1, FlightsKept
<1>6. VerdictBacked'
  BY <1>1, <1>2, VerdictsKept
<1>. QED
  BY <1>3, <1>4, <1>5, <1>6

\* A verdict is cached; the answers it rests on are in the history.
LEMMA FinishInv ==
  ASSUME Inv, NEW s \in Slots, flight[s] \in Carrier, NEW v \in Verdicts,
         Finish(s, v), Backed(flight[s].ip, v, flight[s].loc, clock)
  PROVE  Inv'
<1>. USE DEF Inv
<1>1. PICK ip \in Ips, l \in Locs : ip = flight[s].ip /\ l = flight[s].loc
  BY DEF Carrier
<1>2. Set(ip, v, Ttl[l]) /\ UNCHANGED <<clock, world, hist, changes>>
  BY <1>1 DEF Finish
<1>3. Ttl[l] \in Nat /\ clock \in Nat
  BY Bounds DEF TypeOK
<1>4. /\ queue' \in Seq(Ips)
      /\ cache' \in [ToSet(queue') -> Entry]
      /\ \A x \in DOMAIN cache' :
           \/ x \in DOMAIN cache /\ cache'[x] = cache[x]
           \/ x = ip /\ cache'[x] = [verdict |-> v, expiry |-> clock + Ttl[l],
                                     last_seen |-> clock]
  BY <1>2, <1>3, SetProps
<1>5. /\ flight' \in [Slots -> Carrier \cup {Idle}]
      /\ \A z \in Slots : flight'[z] = flight[z] \/ flight'[z] = Idle
  BY DEF TypeOK, Finish
<1>6. Grows
  BY <1>2 DEF Grows
<1>7. TypeOK'
  BY <1>2, <1>4, <1>5 DEF TypeOK
<1>8. NowRecorded'
  BY <1>2 DEF NowRecorded
<1>9. FlightsBacked'
  BY <1>2, <1>5, <1>6, FlightsKept
<1>10. VerdictBacked'
  <2>1. ASSUME NEW x \in DOMAIN cache'
        PROVE  (\E m \in Locs :
                  /\ cache[x].expiry >= Ttl[m]
                  /\ cache[x].expiry - Ttl[m] <= clock
                  /\ Backed(x, cache[x].verdict, m, cache[x].expiry - Ttl[m]))'
    <3>1. CASE x \in DOMAIN cache /\ cache'[x] = cache[x]
      <4>1. PICK m \in Locs :
              /\ cache[x].expiry >= Ttl[m]
              /\ cache[x].expiry - Ttl[m] <= clock
              /\ Backed(x, cache[x].verdict, m, cache[x].expiry - Ttl[m])
        BY <3>1 DEF VerdictBacked
      <4>. QED
        BY <1>2, <3>1, <4>1 DEF Backed, Said
    <3>2. CASE x = ip /\ cache'[x] = [verdict |-> v, expiry |-> clock + Ttl[l],
                                      last_seen |-> clock]
      <4>1. /\ cache'[x].verdict = v /\ cache'[x].expiry = clock + Ttl[l]
            /\ (clock + Ttl[l]) - Ttl[l] = clock /\ clock + Ttl[l] >= Ttl[l]
        BY <1>3, <3>2
      <4>2. Backed(ip, v, l, clock)
        BY <1>1
      <4>3. Backed(ip, v, l, clock)'
        BY <1>2, <4>2 DEF Backed, Said
      <4>4. cache'[x].expiry - Ttl[l] = clock' /\ clock <= clock
        BY <1>2, <1>3, <4>1
      <4>5. Backed(x, cache[x].verdict, l, cache[x].expiry - Ttl[l])'
        BY <3>2, <4>1, <4>3, <4>4
      <4>. QED
        BY <1>2, <4>1, <4>4, <4>5
    <3>. QED
      BY <1>4, <3>1, <3>2
  <2>. QED
    BY <2>1 DEF VerdictBacked
<1>. QED
  BY <1>7, <1>8, <1>9, <1>10

\* The resolver's callbacks.
LEMMA CallbackInv ==
  ASSUME Inv, NEW s \in Slots, Callback(s)
  PROVE  Inv'
<1>. USE DEF Inv
<1>1. /\ flight \in [Slots -> Carrier \cup {Idle}] /\ clock \in Nat
      /\ DOMAIN hist = 0 .. MaxTime /\ clock \in 0 .. MaxTime
  BY Bounds DEF TypeOK
<1>2. flight[s] # Idle /\ flight[s] \in Carrier
  <2>1. flight[s] # Idle
    BY DEF Callback, Failed, PtrWrong, PtrRight, FwdAnswer, Idle
  <2>. QED
    BY <1>1, <2>1
<1>3. /\ flight[s].ip \in Ips /\ flight[s].loc \in Locs
      /\ flight[s].since \in Nat
  BY <1>2 DEF Carrier
<1>4. /\ world.ptr \in [Ips -> Names \cup {None}]
      /\ world.fwd \in [Names -> SUBSET Ips]
      /\ world \in hist[clock]
  BY FcrdnsAssumption DEF TypeOK, NowRecorded
<1>5. CASE Failed(s)
  <2>1. /\ flight' = [flight EXCEPT ![s] = Idle]
        /\ UNCHANGED <<clock, world, hist, cache, queue, changes>>
    BY <1>5 DEF Failed, Release
  <2>2. /\ flight' \in [Slots -> Carrier \cup {Idle}]
        /\ \A z \in Slots : flight'[z] = flight[z] \/ flight'[z] = Idle
    BY <1>1, <2>1
  <2>. QED
    BY <2>1, <2>2, FreedInv
<1>6. CASE PtrWrong(s)
  <2>1. PICK n \in Names : n = PtrOf(s)
    BY <1>3, <1>4, <1>6 DEF PtrWrong, PtrOf
  <2>2. n # None /\ n \notin Accepts[flight[s].loc] /\ Finish(s, "failed")
    BY <1>6, <2>1 DEF PtrWrong
  <2>3. Said(clock, flight[s].ip, n)
    BY <1>4, <2>1, <2>2 DEF Said, PtrOf
  <2>4. clock \in clock - Timeout .. clock /\ clock \in DOMAIN hist
    BY <1>1, Bounds
  <2>5. Backed(flight[s].ip, "failed", flight[s].loc, clock)
    BY <2>2, <2>3, <2>4 DEF Backed
  <2>6. "failed" \in Verdicts
    BY DEF Verdicts
  <2>. QED
    BY <1>2, <2>2, <2>5, <2>6, FinishInv
<1>7. CASE PtrRight(s)
  <2>1. PICK n \in Names : n = PtrOf(s)
    BY <1>3, <1>4, <1>7 DEF PtrRight, PtrOf
  <2>2. /\ n # None /\ n \in Accepts[flight[s].loc]
        /\ UNCHANGED <<clock, world, hist, cache, queue, changes>>
    BY <1>7, <2>1 DEF PtrRight
  <2>3. PICK c : c = [flight[s] EXCEPT !.at = "fwd", !.name = n,
                                       !.since = clock]
    OBVIOUS
  <2>4. /\ c \in Carrier /\ c.ip = flight[s].ip /\ c.loc = flight[s].loc
        /\ c.at = "fwd" /\ c.name = n /\ c.since = clock
    BY <1>1, <1>2, <2>3 DEF Carrier
  <2>5. flight' = [flight EXCEPT ![s] = c]
    BY <1>1, <1>7, <2>1, <2>3 DEF PtrRight
  <2>6. /\ flight' \in [Slots -> Carrier \cup {Idle}] /\ flight'[s] = c
        /\ \A z \in Slots \ {s} : flight'[z] = flight[z]
    BY <1>1, <2>4, <2>5
  <2>7. TypeOK' /\ NowRecorded'
    BY <2>2, <2>6 DEF TypeOK, NowRecorded
  <2>8. FlightsBacked'
    <3>1. Said(clock, c.ip, n)
      BY <1>4, <2>1, <2>2, <2>4 DEF Said, PtrOf
    <3>2. Said(clock, c.ip, n)'
      BY <2>2, <3>1 DEF Said
    <3>3. ASSUME NEW z \in Slots, flight'[z] # Idle
          PROVE  (/\ flight[z].since <= clock
                  /\ clock <= flight[z].since + Timeout
                  /\ flight[z].at = "fwd" =>
                       /\ flight[z].name \in Names
                       /\ flight[z].name \in Accepts[flight[z].loc]
                       /\ Said(flight[z].since, flight[z].ip, flight[z].name))'
      <4>1. CASE z = s
        <5>1. clock <= clock + Timeout /\ clock <= clock
          BY <1>1, Bounds
        <5>2. Said(flight[z].since, flight[z].ip, flight[z].name)'
          BY <2>2, <2>4, <2>6, <3>2, <4>1
        <5>. QED
          BY <2>1, <2>2, <2>4, <2>6, <4>1, <5>1, <5>2
      <4>2. CASE z # s
        <5>1. flight'[z] = flight[z]
          BY <2>6, <4>2
        <5>. QED
          BY <2>2, <3>3, <5>1 DEF FlightsBacked, Said
      <4>. QED
        BY <4>1, <4>2
    <3>. QED
      BY <3>3 DEF FlightsBacked
  <2>9. VerdictBacked'
    <3>1. Grows
      BY <2>2 DEF Grows
    <3>. QED
      BY <1>1, <2>2, <3>1, VerdictsKept
  <2>. QED
    BY <2>7, <2>8, <2>9
<1>8. CASE FwdAnswer(s)
  <2>1. PICK v : v = IF flight[s].ip \in world.fwd[flight[s].name]
                     THEN "verified" ELSE "failed"
    OBVIOUS
  <2>2. /\ v \in Verdicts /\ Finish(s, v) /\ flight[s].at = "fwd"
        /\ world.fwd[flight[s].name] # {}
    BY <1>8, <2>1 DEF FwdAnswer, Verdicts
  <2>3. /\ flight[s].name \in Names
        /\ flight[s].name \in Accepts[flight[s].loc]
        /\ Said(flight[s].since, flight[s].ip, flight[s].name)
        /\ flight[s].since <= clock
        /\ clock <= flight[s].since + Timeout
    BY <1>2, <2>2 DEF FlightsBacked
  <2>4. /\ flight[s].since \in clock - Timeout .. clock
        /\ flight[s].since \in DOMAIN hist
    BY <1>1, <1>3, <2>3, Bounds
  <2>5. Backed(flight[s].ip, v, flight[s].loc, clock)
    BY <1>4, <2>1, <2>2, <2>3, <2>4 DEF Backed
  <2>. QED
    BY <1>2, <2>2, <2>5, FinishInv
<1>. QED
  BY <1>5, <1>6, <1>7, <1>8 DEF Callback

\* Time and the DNS: the history of the past stays.
LEMMA WorldInv ==
  ASSUME Inv, Tick \/ \E v \in Worlds : Change(v)
  PROVE  Inv'
<1>. USE DEF Inv
<1>1. /\ clock \in Nat /\ clock <= MaxTime /\ hist \in [0 .. MaxTime -> SUBSET Worlds]
      /\ clock \in 0 .. MaxTime /\ world \in Worlds /\ changes \in 0 .. MaxChanges
  BY Bounds DEF TypeOK
<1>2. UNCHANGED <<cache, queue, flight>>
  BY DEF Tick, Change
<1>3. /\ clock' \in 0 .. MaxTime /\ clock' \in Nat /\ clock <= clock'
      /\ world' \in Worlds /\ world' \in hist'[clock']
      /\ hist' \in [0 .. MaxTime -> SUBSET Worlds]
      /\ changes' \in 0 .. MaxChanges
      /\ Grows
  <2>1. CASE Tick
    <3>1. clock' = clock + 1 /\ clock' \in 0 .. MaxTime
      BY <1>1, <2>1, Bounds DEF Tick
    <3>2. /\ hist' = [hist EXCEPT ![clock'] = {world}]
          /\ world' = world /\ changes' = changes
      BY <2>1 DEF Tick
    <3>3. \A u \in 0 .. clock : u # clock' /\ u \in 0 .. MaxTime
      BY <1>1, <3>1, Bounds
    <3>. QED
      BY <1>1, <3>1, <3>2, <3>3 DEF Grows
  <2>2. ASSUME NEW v \in Worlds, Change(v)
        PROVE  /\ clock' \in 0 .. MaxTime /\ clock' \in Nat /\ clock <= clock'
               /\ world' \in Worlds /\ world' \in hist'[clock']
               /\ hist' \in [0 .. MaxTime -> SUBSET Worlds]
               /\ changes' \in 0 .. MaxChanges
               /\ Grows
    <3>1. /\ hist' = [hist EXCEPT ![clock] = @ \cup {v}]
          /\ world' = v /\ clock' = clock
          /\ changes < MaxChanges /\ changes' = changes + 1
      BY <2>2 DEF Change
    <3>2. changes' \in 0 .. MaxChanges /\ clock <= clock
      BY <1>1, <3>1, Bounds
    <3>3. \A u \in 0 .. clock : u \in 0 .. MaxTime
      BY <1>1, Bounds
    <3>. QED
      BY <1>1, <3>1, <3>2, <3>3 DEF Grows
  <2>. QED
    BY <2>1, <2>2
<1>4. TypeOK' /\ NowRecorded'
  BY <1>2, <1>3 DEF TypeOK, NowRecorded
<1>5. VerdictBacked'
  BY <1>2, <1>3, VerdictsKept
<1>6. FlightsBacked'
  <2>1. CASE Tick
    <3>1. ASSUME NEW z \in Slots, flight'[z] # Idle
          PROVE  (/\ flight[z].since <= clock
                  /\ clock <= flight[z].since + Timeout
                  /\ flight[z].at = "fwd" =>
                       /\ flight[z].name \in Names
                       /\ flight[z].name \in Accepts[flight[z].loc]
                       /\ Said(flight[z].since, flight[z].ip, flight[z].name))'
      <4>1. flight'[z] = flight[z] /\ flight[z] # Idle
        BY <1>2, <3>1
      <4>2. flight[z] \in Carrier
        BY <4>1 DEF TypeOK
      <4>3. flight[z].since \in Nat
        BY <4>2 DEF Carrier
      <4>4. /\ flight[z].since <= clock
            /\ flight[z].at = "fwd" =>
                 /\ flight[z].name \in Names
                 /\ flight[z].name \in Accepts[flight[z].loc]
                 /\ Said(flight[z].since, flight[z].ip, flight[z].name)
        BY <4>1 DEF FlightsBacked
      <4>5. clock' = clock + 1 /\ ~(clock - flight[z].since >= Timeout)
        BY <2>1, <4>1 DEF Tick, Due
      <4>6. /\ flight[z].since <= clock'
            /\ clock' <= flight[z].since + Timeout
            /\ flight[z].since \in 0 .. clock
        BY <1>1, <4>3, <4>4, <4>5, Bounds
      <4>7. PICK t, a, n :
              /\ t \in 0 .. clock
              /\ t = flight[z].since /\ a = flight[z].ip /\ n = flight[z].name
        BY <4>6
      <4>8. flight[z].at = "fwd" => Said(t, a, n)'
        BY <1>3, <4>4, <4>7, SaidKept
      <4>9. flight'[z].at = "fwd" =>
              Said(flight[z].since, flight[z].ip, flight[z].name)'
        BY <4>1, <4>7, <4>8
      <4>. QED
        BY <4>1, <4>4, <4>6, <4>9
    <3>. QED
      BY <3>1 DEF FlightsBacked
  <2>2. CASE ~Tick
    <3>1. clock' = clock
      BY <2>2 DEF Change
    <3>. QED
      BY <1>2, <1>3, <3>1, FlightsKept
  <2>. QED
    BY <2>1, <2>2
<1>. QED
  BY <1>4, <1>5, <1>6

LEMMA NextInv == Inv /\ [Next]_vars => Inv'
<1>. SUFFICES ASSUME Inv, [Next]_vars PROVE Inv'
  OBVIOUS
<1>1. flight \in [Slots -> Carrier \cup {Idle}]
  BY DEF Inv, TypeOK
<1>2. ASSUME NEW w \in Workers, Kill(w) PROVE Inv'
  <2>1. /\ flight' = [s \in Slots |-> IF s[1] = w THEN Idle ELSE flight[s]]
        /\ UNCHANGED <<clock, world, hist, cache, queue, changes>>
    BY <1>2 DEF Kill
  <2>2. /\ flight' \in [Slots -> Carrier \cup {Idle}]
        /\ \A z \in Slots : flight'[z] = flight[z] \/ flight'[z] = Idle
    BY <1>1, <2>1
  <2>. QED
    BY <2>1, <2>2, FreedInv
<1>3. CASE UNCHANGED vars
  BY <1>1, <1>3, FreedInv DEF vars
<1>. QED
  BY <1>2, <1>3, RequestInv, CallbackInv, WorldInv DEF Next

-----------------------------------------------------------------------------
\* The cache, its queue and the carriers stay well formed under every
\* interleaving of requests, callbacks, timeouts and deaths of workers: each
\* node of the tree is in the LRU queue and the other way round.
THEOREM LookupsTypeCorrect == Spec => []TypeOK
<1>1. Inv => TypeOK
  BY DEF Inv
<1>. QED
  BY <1>1, InitInv, NextInv, PTL DEF Spec

\* A verdict in the cache is what the DNS said, name and address, while its
\* lookup ran, under the suffixes of a location whose time to live it has
\* (sentinel_fcrdns_ptr_handler, _fwd_handler and _finish).
THEOREM VerdictsAreBacked == Spec => []VerdictBacked
<1>1. Inv => VerdictBacked
  BY DEF Inv
<1>. QED
  BY <1>1, InitInv, NextInv, PTL DEF Spec

\* No step loses a verdict that runs, neither expiry in sentinel_shm_fcrdns_get
\* nor a full zone in sentinel_shm_fcrdns_set; only a lookup of the same
\* address that ends replaces it.
THEOREM VerdictsAreKept == Spec => VerdictKept
<1>1. ASSUME TypeOK, [Next]_vars, NEW ip \in DOMAIN cache, Known(ip)
      PROVE  /\ ip \in DOMAIN cache'
             /\ \/ cache'[ip].expiry = cache[ip].expiry
                \/ \E s \in Slots : flight[s].ip = ip /\ flight'[s] = Idle
  <2>1. ASSUME NEW x \in Ips, Request(x)
        PROVE  ip \in DOMAIN cache' /\ cache'[ip].expiry = cache[ip].expiry
    <3>1. Get(x)
      BY <2>1 DEF Request, Answered, NoLookup, ResolveStart
    <3>. QED
      BY <1>1, <3>1, GetProps
  <2>2. ASSUME NEW s \in Slots, NEW v \in Verdicts, Finish(s, v),
               flight[s].at \in {"ptr", "fwd"}
        PROVE  /\ ip \in DOMAIN cache'
               /\ \/ cache'[ip].expiry = cache[ip].expiry
                  \/ flight[s].ip = ip /\ flight'[s] = Idle
    <3>1. flight[s] \in Carrier /\ flight'[s] = Idle
      BY <1>1, <2>2 DEF TypeOK, Idle, Finish
    <3>2. PICK x \in Ips, ttl \in Nat :
            x = flight[s].ip /\ ttl = Ttl[flight[s].loc]
      BY <3>1, Bounds DEF Carrier
    <3>3. Set(x, v, ttl)
      BY <2>2, <3>2 DEF Finish
    <3>4. /\ \A y \in DOMAIN cache : y \in DOMAIN cache'
          /\ \A y \in DOMAIN cache' :
               (y \in DOMAIN cache /\ cache'[y] = cache[y]) \/ y = x
      BY <1>1, <3>3, SetProps
    <3>. QED
      BY <1>1, <3>1, <3>2, <3>4
  <2>3. ASSUME NEW s \in Slots, Callback(s)
        PROVE  /\ ip \in DOMAIN cache'
               /\ \/ cache'[ip].expiry = cache[ip].expiry
                  \/ flight[s].ip = ip /\ flight'[s] = Idle
    <3>1. CASE Failed(s) \/ PtrRight(s)
      <4>1. cache' = cache
        BY <3>1 DEF Failed, Release, PtrRight
      <4>. QED
        BY <1>1, <4>1
    <3>2. CASE PtrWrong(s) \/ FwdAnswer(s)
      <4>1. \E v \in Verdicts : Finish(s, v) /\ flight[s].at \in {"ptr", "fwd"}
        BY <3>2 DEF PtrWrong, FwdAnswer, Verdicts
      <4>. QED
        BY <2>2, <4>1
    <3>. QED
      BY <2>3, <3>1, <3>2 DEF Callback
  <2>4. CASE Tick \/ (\E v \in Worlds : Change(v)) \/ (\E w \in Workers : Kill(w))
                  \/ UNCHANGED vars
    <3>1. cache' = cache
      BY <2>4 DEF Tick, Change, Kill, vars
    <3>. QED
      BY <1>1, <3>1
  <2>. QED
    BY <1>1, <2>1, <2>3, <2>4 DEF Next
<1>2. TypeOK /\ [Next]_vars =>
        [\A ip \in DOMAIN cache :
           Known(ip) =>
             /\ ip \in DOMAIN cache'
             /\ \/ cache'[ip].expiry = cache[ip].expiry
                \/ \E s \in Slots : flight[s].ip = ip /\ flight'[s] = Idle]_vars
  BY <1>1
<1>. QED
  BY <1>2, LookupsTypeCorrect, PTL DEF Spec, VerdictKept
=============================================================================
