----------------------------- MODULE ErrRateZone -----------------------------
(***************************************************************************)
(* The shared-memory identity zone of sentinel_shm.c as the error-rate,    *)
(* velocity and soft-ban signals use it: a table of nodes (the rbtree)     *)
(* threaded on one LRU queue, written by every worker process under the    *)
(* slab pool mutex.  Each operation runs whole inside the mutex, so it is  *)
(* one action; what interleaves is the workers' operations, and each       *)
(* worker brings its own cached time: ngx_time() is read before the lock   *)
(* is taken and may lag the wall clock by up to MaxLag seconds.            *)
(***************************************************************************)
EXTENDS Integers, SequencesExt

CONSTANTS
  Keys,       \* client identities (SHA-256 digests of the address)
  Workers,    \* worker processes sharing the zone
  Threshold,  \* zone->threshold: events in the window that cause a block
  Interval,   \* zone->interval: sliding window, and idle time before expiry
  Block,      \* zone->block: duration of an error-rate block
  Ttls,       \* the sentinel_block_ttl values soft-bans are written with
  Capacity,   \* nodes the slab can hold
  MaxLag,     \* largest lag of a worker's cached time behind the clock
  MaxTime     \* bound on the clock

ASSUME ZoneAssumption ==
  /\ Threshold \in Nat \ {0}
  /\ Interval \in Nat \ {0}
  /\ Block \in Nat \ {0}
  /\ Ttls \subseteq Nat \ {0}
  /\ Capacity \in Nat \ {0}
  /\ MaxLag \in Nat
  /\ MaxTime \in Nat

VARIABLES
  clock,  \* wall-clock seconds
  now,    \* now[w]: the time worker w has cached
  node,   \* the table: a function from the keys present to their nodes
  queue   \* the LRU queue of those keys, most recently used first

vars == <<clock, now, node, queue>>

(***************************************************************************)
(* An event occupies one cell of the node's ring.  Which cell is not       *)
(* observable (pruning compacts the ring), so a node keeps the set of its  *)
(* occupied cells with their timestamps; event_count is its cardinality.   *)
(***************************************************************************)
Event == [cell : 1 .. Threshold, ts : Nat]

Node == [last_seen : Nat, blocked_until : Nat, events : SUBSET Event]

Fresh(t) == [last_seen |-> t, blocked_until |-> 0, events |-> {}]

FreeCell(evs) == CHOOSE c \in 1 .. Threshold : \A e \in evs : e.cell # c

-----------------------------------------------------------------------------
(* The helpers of sentinel_shm.c. *)

\* Mutant: the tail's age is checked, its block is not.
ExpirableIgnoringBlock(k, t) == t - node[k].last_seen >= Interval

\* sentinel_shm_expire keeps a tail that is blocked or recently seen.
Expirable(k, t) ==
  /\ node[k].blocked_until <= t
  /\ t - node[k].last_seen >= Interval

ExpireTail(q, t) ==
  IF q # << >> /\ Expirable(Last(q), t) THEN Front(q) ELSE q

\* NGX_SENTINEL_EXPIRE_BATCH is 2: two looks at the tail per operation.
Expire(t) == ExpireTail(ExpireTail(queue, t), t)

\* Mutant: the window's far edge counts as inside.
PruneInclusive(evs, t) == {e \in evs : e.ts >= t - Interval}

\* sentinel_shm_prune: the events still inside the window that ends at t.
Prune(evs, t) == {e \in evs : e.ts > t - Interval}

Touch(q, k) ==
  Cons(k, RemoveAt(q, CHOOSE i \in DOMAIN q : q[i] = k))

\* Mutant: the ring is cleared whether or not there was a block.
LapseAlways(n, t) == [n EXCEPT !.blocked_until = 0, !.events = {}]

\* A block that has lapsed is forgotten together with its (empty) ring.
Lapse(n, t) ==
  IF n.blocked_until = 0
  THEN [n EXCEPT !.events = Prune(@, t)]
  ELSE [n EXCEPT !.blocked_until = 0, !.events = {}]

\* What a lookup leaves of a node it finds.
Looked(n, t) ==
  LET seen == [n EXCEPT !.last_seen = t]
  IN  IF n.blocked_until > t THEN seen ELSE Lapse(seen, t)

\* Mutant: the burst window survives the soft-ban.
BannedKeepingEvents(n, t, ttl) ==
  [last_seen |-> t, blocked_until |-> t + ttl, events |-> n.events]

\* A ban of ttl seconds supersedes whatever the ring held.
Banned(n, t, ttl) ==
  [last_seen |-> t, blocked_until |-> t + ttl, events |-> {}]

\* What recording one event at t leaves of a node.
Recorded(n, t) ==
  LET seen  == [n EXCEPT !.last_seen = t]
      open  == Lapse(seen, t)
      evs   == open.events \cup {[cell |-> FreeCell(open.events), ts |-> t]}
  IN  CASE n.blocked_until > t -> seen
        [] n.blocked_until <= t /\ Cardinality(evs) >= Threshold ->
             Banned(open, t, Block)
        [] OTHER -> [open EXCEPT !.events = evs]

-----------------------------------------------------------------------------
(***************************************************************************)
(* The operations, each under the mutex.  All start by expiring the tail;  *)
(* kept is the queue that leaves.                                          *)
(***************************************************************************)
Kept(kept) == [k \in ToSet(kept) |-> node[k]]

\* sentinel_shm_errrate_lookup
Lookup(w, k) ==
  LET kept == Expire(now[w])
  IN  /\ \/ /\ k \notin ToSet(kept)
            /\ queue' = kept
         \/ /\ k \in ToSet(kept)
            /\ queue' = Touch(kept, k)
      /\ node' = [x \in ToSet(kept) |->
                    IF x = k THEN Looked(node[x], now[w]) ELSE node[x]]
      /\ UNCHANGED <<clock, now>>

\* The node a write starts from: k's own, or a newly created one.
Base(w, k) ==
  IF k \in ToSet(Expire(now[w])) THEN node[k] ELSE Fresh(now[w])

\* Leave n as k's node, at the head of the queue.  A key that has no node
\* needs room for one.
Put(w, k, n) ==
  LET kept == Expire(now[w])
  IN  /\ \/ /\ k \in ToSet(kept)
            /\ queue' = Touch(kept, k)
         \/ /\ k \notin ToSet(kept)
            /\ Len(kept) < Capacity
            /\ queue' = Cons(k, kept)
      /\ node' = [x \in {k} \cup ToSet(kept) |-> IF x = k THEN n ELSE node[x]]
      /\ UNCHANGED <<clock, now>>

\* sentinel_shm_errrate_record
Record(w, k) == Put(w, k, Recorded(Base(w, k), now[w]))

\* sentinel_shm_softban_set
Softban(w, k, ttl) == Put(w, k, Banned(Base(w, k), now[w], ttl))

\* Either of the two finds the zone full: NGX_ERROR, the caller fails open.
\* Only the expiry has happened.
ZoneFull(w, k) ==
  LET kept == Expire(now[w])
  IN  /\ k \notin ToSet(kept)
      /\ Len(kept) >= Capacity
      /\ queue' = kept
      /\ node' = Kept(kept)
      /\ UNCHANGED <<clock, now>>

\* Time passes; no worker falls more than MaxLag behind.
Tick ==
  /\ clock < MaxTime
  /\ clock' = clock + 1
  /\ now' = [w \in Workers |->
               IF clock' - now[w] > MaxLag THEN clock' ELSE now[w]]
  /\ UNCHANGED <<node, queue>>

\* A worker's event loop refreshes its cached time.
TimeUpdate(w) ==
  /\ now' = [now EXCEPT ![w] = clock]
  /\ UNCHANGED <<clock, node, queue>>

-----------------------------------------------------------------------------
Init ==
  /\ clock = 0
  /\ now = [w \in Workers |-> 0]
  /\ node = << >>
  /\ queue = << >>

Next ==
  \/ Tick
  \/ \E w \in Workers :
       \/ TimeUpdate(w)
       \/ \E k \in Keys :
            \/ Lookup(w, k)
            \/ Record(w, k)
            \/ ZoneFull(w, k)
            \/ \E ttl \in Ttls : Softban(w, k, ttl)

Spec == Init /\ [][Next]_vars
-----------------------------------------------------------------------------
TypeOK ==
  /\ clock \in Nat
  /\ now \in [Workers -> Nat]
  /\ \A w \in Workers : now[w] <= clock /\ clock - now[w] <= MaxLag
  /\ queue \in Seq(Keys)
  /\ node \in [ToSet(queue) -> Node]

\* The queue threads every node of the table exactly once: an operation that
\* removed a node from one structure and not from the other, or linked it
\* twice, would leave the other workers a pointer into freed slab memory
\* (sentinel_shm_expire, sentinel_shm_touch, sentinel_shm_create_node).
QueueIsTable ==
  /\ IsInjective(queue)
  /\ DOMAIN node = ToSet(queue)
  /\ Len(queue) <= Capacity

\* The queue is ordered by recency up to the workers' lag, which is what lets
\* sentinel_shm_expire look only at its tail: a node nearer the head is never
\* more than MaxLag seconds staler than one nearer the tail.
RecencyOrder ==
  \A i, j \in DOMAIN queue :
    i < j => node[queue[i]].last_seen >= node[queue[j]].last_seen - MaxLag

\* What every node looks like at time c: nothing in it comes from the future,
\* an event is at most MaxLag seconds newer than the node's last use, a node
\* under a block counts nothing, and a window that is not a block is not full.
SoundNode(n, c) ==
  /\ n.last_seen <= c
  /\ \A e \in n.events : e.ts <= c /\ e.ts <= n.last_seen + MaxLag
  /\ n.blocked_until # 0 => n.events = {}
  /\ IsFiniteSet(n.events)
  /\ Cardinality(n.events) < Threshold

\* The facts eviction and the forgetting of lapsed blocks rely on: a node idle
\* for Interval seconds holds no event of the window, and the ring the code
\* clears with a lapsed block is empty (sentinel_shm_expire and the
\* blocked_until resets of sentinel_shm_errrate_lookup and _record).
NodesSound == \A k \in DOMAIN node : SoundNode(node[k], clock)

\* The inductive invariant: the structure all workers share under the mutex
\* stays whole, ordered and free of events that a later window would count.
Inv == TypeOK /\ QueueIsTable /\ RecencyOrder /\ NodesSound

\* A block or soft-ban that is still running is honoured whatever the other
\* workers do: no expiry, no table pressure, no operation of a worker whose
\* clock lags removes it or moves its end.  Only a later soft-ban of the same
\* key gives it another end.
BanHonoured ==
  [][\A k \in DOMAIN node :
       node[k].blocked_until > clock =>
         /\ k \in DOMAIN node'
         /\ \/ node'[k].blocked_until = node[k].blocked_until
            \/ \E w \in Workers, ttl \in Ttls : Softban(w, k, ttl)]_vars

\* Eviction and pruning never forget an event the window still needs: an
\* event younger than Interval - MaxLag leaves its ring only when its key has
\* just been blocked, even when it is the node's eviction that drops it.
NoEventLostEarly ==
  [][\A k \in DOMAIN node : \A e \in node[k].events :
       e.ts > clock - Interval + MaxLag =>
         /\ k \in DOMAIN node'
         /\ \/ e \in node'[k].events
            \/ node'[k].blocked_until # 0]_vars

(***************************************************************************)
(* The limiter the zone implements: the events its nodes hold of each      *)
(* client, and the end of each client's ban.                               *)
(***************************************************************************)
Held(k) == IF k \in DOMAIN node THEN node[k].events ELSE {}

BanEnd(k) == IF k \in DOMAIN node THEN node[k].blocked_until ELSE 0

Limiter == INSTANCE SlidingWindow WITH
             recent <- [k \in Keys |-> Held(k)],
             until  <- [k \in Keys |-> BanEnd(k)]

\* Expiry from the tail, lazy pruning and the reset of lapsed blocks are
\* invisible: each worker counts exactly the events of the Interval seconds
\* before its own time that are not old enough to be forgotten, and bans
\* exactly when they reach Threshold (sentinel_shm_errrate_record,
\* sentinel_shm_errrate_lookup, sentinel_shm_softban_set).
ImplementsLimiter == Limiter!Spec
=============================================================================
