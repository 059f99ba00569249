---------------------------- MODULE CrowdsecFeed ----------------------------
(***************************************************************************)
(* The CrowdSec ban table: sentinel_feed.c, which loads the decision feed  *)
(* into a shared zone, and the crowdsec part of sentinel_shm.c.  Every     *)
(* worker has its own loader timer.  A load stats the file, reads and      *)
(* verifies it, bumps the shared generation, applies the decisions in      *)
(* batches under the zone mutex, each stamped with the load's generation,  *)
(* and then sweeps away, again in batches, the nodes that carry another    *)
(* stamp.  Between two batches the mutex is free and any other worker may  *)
(* run: another loader, a request's lookup, a Redis pull.                  *)
(***************************************************************************)
EXTENDS Integers, SequencesExt

CONSTANTS
  Keys,          \* client identities (digests of canonical addresses)
  Workers,
  Actions,       \* the remediations: ban, captcha, throttle
  Malformed,     \* a line sentinel_feed_parse cannot read
  Feeds,         \* the files the sidecar may write
  Pulled,        \* the [action, expiry] values Redis may return; {} if unused
  DefaultTtl,    \* sentinel_crowdsec_default_ttl
  StaleAfter,    \* sentinel_crowdsec_stale_after, also the zone's interval
  Capacity,      \* nodes the slab can hold
  Batch,         \* NGX_SENTINEL_FEED_APPLY_BATCH
  SidecarPeriod, \* least number of seconds between two writes of the file
  MaxWrites,     \* bounds on the environment: file writes,
  MaxCrashes,    \* worker deaths,
  MaxPulls,      \* Redis replies
  MaxTime        \* and the clock

None == "none"

Line == [ip : Keys, action : Actions, expiry : Nat]

Feed == [body : Seq(Line \cup {Malformed}), count : Nat, intact : BOOLEAN]

ASSUME FeedAssumption ==
  /\ Malformed \notin Line
  /\ None \notin Workers
  /\ Feeds \subseteq Feed
  /\ Pulled \subseteq [action : Actions, expiry : Nat]
  /\ DefaultTtl \in Nat \ {0}
  /\ StaleAfter \in Nat \ {0}
  /\ Capacity \in Nat \ {0}
  /\ Batch \in Nat \ {0}
  /\ SidecarPeriod \in Nat
  /\ MaxWrites \in Nat
  /\ MaxCrashes \in Nat
  /\ MaxPulls \in Nat
  /\ MaxTime \in Nat

VARIABLES
  clock,       \* seconds
  file,        \* the feed file: its modification time and contents
  table,       \* the zone's rbtree: the keys present and their nodes
  queue,       \* its LRU queue, most recently used first
  generation,  \* sh->cs_generation
  lock,        \* the worker holding the zone mutex, or None
  pc,          \* pc[w]: where worker w's load is
  job,         \* job[w]: the locals of that load
  last_mtime,  \* last_mtime[w]: t->last_mtime, 0 when nothing was loaded
  env          \* what the environment has done so far: writes, crashes, pulls

zone == <<table, queue, generation>>
vars == <<clock, file, zone, lock, pc, job, last_mtime, env>>

Node ==
  [expiry : Nat, action : Actions, generation : Nat, redis_pulled : BOOLEAN,
   last_seen : Nat]

\* The locals of a load: the stat's results, the lines and those still to be
\* applied, the generation they are stamped with and how many were.
Job ==
  [mtime : Nat, size : Nat, now : Nat,
   feed : Seq(Line \cup {Malformed}), rest : Seq(Line \cup {Malformed}),
   generation : Nat, applied : Nat]

NoJob ==
  [mtime |-> 0, size |-> 0, now |-> 0, feed |-> << >>, rest |-> << >>,
   generation |-> 0, applied |-> 0]

-----------------------------------------------------------------------------
(* Verifying a file. *)

Decisions(body) == SelectSeq(body, LAMBDA l : l # Malformed)

\* The header, the trailer, its CRC and its count match, and not more than a
\* quarter of the lines is malformed.  An empty or oversized file is not
\* intact either.
Verified(f) ==
  LET valid     == Len(Decisions(f.body))
      malformed == Len(f.body) - valid
  IN  /\ f.intact
      /\ f.count = valid
      /\ 4 * malformed <= valid + malformed

\* When a line's decision ends; 0 stands for the default time to live.
Expiry(l, now) == IF l.expiry = 0 THEN now + DefaultTtl ELSE l.expiry

\* The decision of line l is still running for a load that started at now.
Running(l, now) == l # Malformed /\ Expiry(l, now) > now

-----------------------------------------------------------------------------
(* The table, under the mutex. *)

\* The queue q without the keys of gone.
Without(q, gone) ==
  LET kept  == {i \in DOMAIN q : q[i] \notin gone}
      at(n) == CHOOSE i \in kept : Cardinality({j \in kept : j <= i}) = n
  IN  [n \in 1 .. Cardinality(kept) |-> q[at(n)]]

Touch(q, k) == Cons(k, Without(q, {k}))

\* sentinel_shm_expire: drop the tail when its decision has ended and nobody
\* has looked it up for StaleAfter seconds; at most two per call.
ExpireTail(q) ==
  IF /\ q # << >>
     /\ table[Last(q)].expiry <= clock
     /\ clock - table[Last(q)].last_seen >= StaleAfter
  THEN Front(q) ELSE q

Expire(q) == ExpireTail(ExpireTail(q))

HasRoom(k) == k \in DOMAIN table \/ Len(queue) < Capacity

\* Mutants: the node is linked again without being unlinked; only a new node
\* is stamped.
UpsertLinkingTwice(k, n) ==
  /\ queue' = Cons(k, queue)
  /\ table' = [x \in {k} \cup DOMAIN table |-> IF x = k THEN n ELSE table[x]]

UpsertStampingNew(k, n) ==
  /\ queue' = Touch(queue, k)
  /\ table' = [x \in {k} \cup DOMAIN table |->
                 IF x # k THEN table[x]
                 ELSE IF k \in DOMAIN table
                      THEN [n EXCEPT !.generation = table[k].generation]
                      ELSE n]

\* sentinel_shm_crowdsec_upsert, when there is room.
Upsert(k, n) ==
  /\ queue' = Touch(queue, k)
  /\ table' = [x \in {k} \cup DOMAIN table |-> IF x = k THEN n ELSE table[x]]

\* The keys one call of sentinel_shm_crowdsec_sweep deletes: from the tail,
\* the first Batch nodes that do not carry generation g.
Swept(g) ==
  LET stale == {i \in DOMAIN queue : table[queue[i]].generation # g}
  IN  {queue[i] : i \in {i \in stale :
                           Cardinality({j \in stale : j >= i}) <= Batch}}

-----------------------------------------------------------------------------
(* A load: sentinel_feed_do_load and sentinel_feed_parse. *)

\* Mutant: a file of exactly StaleAfter seconds counts as stale.
StatStaleEarly(w) ==
  /\ pc[w] = "idle"
  /\ file.mtime # 0
  /\ clock - file.mtime < StaleAfter
  /\ last_mtime[w] = 0 \/ file.mtime # last_mtime[w]
  /\ pc' = [pc EXCEPT ![w] = "read"]
  /\ job' = [job EXCEPT ![w] = [NoJob EXCEPT !.mtime = file.mtime,
                                             !.size = Len(file.feed.body),
                                             !.now = clock]]
  /\ UNCHANGED <<clock, file, zone, lock, last_mtime, env>>

\* The tick's stat gate: the file is there, not stale, and not the one this
\* worker loaded last.
Stat(w) ==
  /\ pc[w] = "idle"
  /\ file.mtime # 0
  /\ clock - file.mtime <= StaleAfter
  /\ last_mtime[w] = 0 \/ file.mtime # last_mtime[w]
  /\ pc' = [pc EXCEPT ![w] = "read"]
  /\ job' = [job EXCEPT ![w] = [NoJob EXCEPT !.mtime = file.mtime,
                                             !.size = Len(file.feed.body),
                                             !.now = clock]]
  /\ UNCHANGED <<clock, file, zone, lock, last_mtime, env>>

\* The file may have been replaced since the stat.  A shorter one is a short
\* read; of a longer one the prefix that is read lacks the trailer.
Readable(w) == Len(file.feed.body) = job[w].size /\ Verified(file.feed)

Read(w) ==
  /\ pc[w] = "read"
  /\ Readable(w)
  /\ pc' = [pc EXCEPT ![w] = "bump"]
  /\ job' = [job EXCEPT ![w].feed = file.feed.body,
                        ![w].rest = file.feed.body]
  /\ UNCHANGED <<clock, file, zone, lock, last_mtime, env>>

\* Fail-open: the table stays, and so does last_mtime.
Reject(w) ==
  /\ pc[w] = "read"
  /\ ~Readable(w)
  /\ pc' = [pc EXCEPT ![w] = "idle"]
  /\ job' = [job EXCEPT ![w] = NoJob]
  /\ UNCHANGED <<clock, file, zone, lock, last_mtime, env>>

\* Mutant: the load keeps using the previous load's generation.
BumpNothing(w) ==
  /\ pc[w] = "bump"
  /\ lock = None
  /\ pc' = [pc EXCEPT ![w] = "apply"]
  /\ job' = [job EXCEPT ![w].generation = generation]
  /\ UNCHANGED <<clock, file, zone, lock, last_mtime, env>>

Bump(w) ==
  /\ pc[w] = "bump"
  /\ lock = None
  /\ generation' = generation + 1
  /\ pc' = [pc EXCEPT ![w] = "apply"]
  /\ job' = [job EXCEPT ![w].generation = generation']
  /\ UNCHANGED <<clock, file, table, queue, lock, last_mtime, env>>

Lock(w) ==
  /\ pc[w] = "apply"
  /\ lock = None
  /\ lock' = w
  /\ UNCHANGED <<clock, file, zone, pc, job, last_mtime, env>>

\* Lines that carry no running decision are skipped.
SkipLine(w) ==
  /\ lock = w
  /\ job[w].rest # << >>
  /\ ~Running(Head(job[w].rest), job[w].now)
  /\ job' = [job EXCEPT ![w].rest = Tail(@)]
  /\ UNCHANGED <<clock, file, zone, lock, pc, last_mtime, env>>

\* The mutex is released after every Batch decisions.
ApplyLine(w) ==
  LET l == Head(job[w].rest)
      applied == job[w].applied + 1
  IN  /\ lock = w
      /\ job[w].rest # << >>
      /\ Running(l, job[w].now)
      /\ HasRoom(l.ip)
      /\ Upsert(l.ip, [expiry       |-> Expiry(l, job[w].now),
                       action       |-> l.action,
                       generation   |-> job[w].generation,
                       redis_pulled |-> FALSE,
                       last_seen    |-> job[w].now])
      /\ job' = [job EXCEPT ![w].rest = Tail(@), ![w].applied = applied]
      /\ lock' = IF applied % Batch = 0 THEN None ELSE w
      /\ UNCHANGED <<clock, file, generation, pc, last_mtime, env>>

\* Mutant: a full zone is tried again.
ApplyFullRetrying(w) ==
  /\ lock = w
  /\ job[w].rest # << >>
  /\ ~HasRoom(Head(job[w].rest).ip)
  /\ lock' = None
  /\ UNCHANGED <<clock, file, zone, pc, job, last_mtime, env>>

\* Zone full: the rest of the feed is not applied, the sweep still runs.
ApplyFull(w) ==
  LET l == Head(job[w].rest)
  IN  /\ lock = w
      /\ job[w].rest # << >>
      /\ Running(l, job[w].now)
      /\ ~HasRoom(l.ip)
      /\ job' = [job EXCEPT ![w].rest = << >>]
      /\ UNCHANGED <<clock, file, zone, lock, pc, last_mtime, env>>

ApplyEnd(w) ==
  /\ lock = w
  /\ job[w].rest = << >>
  /\ lock' = None
  /\ pc' = [pc EXCEPT ![w] = "sweep"]
  /\ UNCHANGED <<clock, file, zone, job, last_mtime, env>>

\* Mutant: the swept nodes stay in the rbtree.
SweepBatchInTree(w) ==
  LET gone == Swept(job[w].generation)
  IN  /\ pc[w] = "sweep"
      /\ lock = None
      /\ gone # {}
      /\ queue' = Without(queue, gone)
      /\ UNCHANGED <<clock, file, table, generation, lock, pc, job, last_mtime,
                     env>>

\* One sweep batch under the mutex.
SweepBatch(w) ==
  LET gone == Swept(job[w].generation)
  IN  /\ pc[w] = "sweep"
      /\ lock = None
      /\ gone # {}
      /\ queue' = Without(queue, gone)
      /\ table' = [k \in DOMAIN table \ gone |-> table[k]]
      /\ UNCHANGED <<clock, file, generation, lock, pc, job, last_mtime, env>>

\* A sweep that deletes nothing ends the load; the file counts as loaded.
SweepDone(w) ==
  /\ pc[w] = "sweep"
  /\ lock = None
  /\ Swept(job[w].generation) = {}
  /\ pc' = [pc EXCEPT ![w] = "idle"]
  /\ job' = [job EXCEPT ![w] = NoJob]
  /\ last_mtime' = [last_mtime EXCEPT ![w] = job[w].mtime]
  /\ UNCHANGED <<clock, file, zone, lock, env>>

-----------------------------------------------------------------------------
(* The other users of the zone.  A worker that is loading serves nothing. *)

\* sentinel_shm_crowdsec_lookup: a request of client k.  Nothing to do when
\* there is nothing to expire and no node.
Lookup(w, k) ==
  LET kept == Expire(queue)
  IN  /\ pc[w] = "idle"
      /\ lock = None
      /\ queue' = IF k \in ToSet(kept) THEN Touch(kept, k) ELSE kept
      /\ table' = [x \in ToSet(kept) |->
                     IF x = k THEN [table[x] EXCEPT !.last_seen = clock]
                              ELSE table[x]]
      /\ UNCHANGED <<clock, file, generation, lock, pc, job, last_mtime, env>>

\* sentinel_redis_get_reply: a ban another node published.  An expired one is
\* ignored, and so is one the full zone has no room for.
Pull(w, k, v) ==
  /\ pc[w] = "idle"
  /\ lock = None
  /\ env.pulls < MaxPulls
  /\ v.expiry > clock
  /\ HasRoom(k)
  /\ env' = [env EXCEPT !.pulls = @ + 1]
  /\ Upsert(k, [expiry       |-> v.expiry,
                action       |-> v.action,
                generation   |-> generation,
                redis_pulled |-> TRUE,
                last_seen    |-> clock])
  /\ UNCHANGED <<clock, file, generation, lock, pc, job, last_mtime>>

\* A worker dies and is respawned: init_process arms a fresh timer, and the
\* master releases the mutex the dead worker held.
Crash(w) ==
  /\ env.crashes < MaxCrashes
  /\ env' = [env EXCEPT !.crashes = @ + 1]
  /\ pc' = [pc EXCEPT ![w] = "idle"]
  /\ job' = [job EXCEPT ![w] = NoJob]
  /\ last_mtime' = [last_mtime EXCEPT ![w] = 0]
  /\ lock' = IF lock = w THEN None ELSE lock
  /\ UNCHANGED <<clock, file, zone>>

\* The sidecar replaces the file.
Write(f) ==
  /\ env.writes < MaxWrites
  /\ env' = [env EXCEPT !.writes = @ + 1]
  /\ file.mtime = 0 \/ clock - file.mtime >= SidecarPeriod
  /\ file' = [mtime |-> clock, feed |-> f]
  /\ UNCHANGED <<clock, zone, lock, pc, job, last_mtime>>

Tick ==
  /\ clock < MaxTime
  /\ clock' = clock + 1
  /\ UNCHANGED <<file, zone, lock, pc, job, last_mtime, env>>

-----------------------------------------------------------------------------
Init ==
  /\ clock = 1
  /\ file = [mtime |-> 0,
             feed |-> [body |-> << >>, count |-> 0, intact |-> FALSE]]
  /\ table = << >>
  /\ queue = << >>
  /\ generation = 0
  /\ lock = None
  /\ pc = [w \in Workers |-> "idle"]
  /\ job = [w \in Workers |-> NoJob]
  /\ last_mtime = [w \in Workers |-> 0]
  /\ env = [writes |-> 0, crashes |-> 0, pulls |-> 0]

\* What worker w's loader does, once its timer has fired.
Load(w) ==
  \/ Stat(w) \/ Read(w) \/ Reject(w) \/ Bump(w) \/ Lock(w)
  \/ SkipLine(w) \/ ApplyLine(w) \/ ApplyFull(w) \/ ApplyEnd(w)
  \/ SweepBatch(w) \/ SweepDone(w)

Next ==
  \/ Tick
  \/ \E f \in Feeds : Write(f)
  \/ \E w \in Workers :
       \/ Load(w)
       \/ Crash(w)
       \/ \E k \in Keys :
            \/ Lookup(w, k)
            \/ \E v \in Pulled : Pull(w, k, v)

\* A loader's timer is re-armed after every tick, and a load is straight-line
\* code that waits for nothing but the mutex.
Fairness == \A w \in Workers : WF_vars(Load(w))

Spec == Init /\ [][Next]_vars /\ Fairness
-----------------------------------------------------------------------------
TypeOK ==
  /\ clock \in Nat
  /\ file \in [mtime : Nat, feed : Feed]
  /\ queue \in Seq(Keys)
  /\ table \in [ToSet(queue) -> Node]
  /\ generation \in Nat
  /\ lock \in Workers \cup {None}
  /\ pc \in [Workers -> {"idle", "read", "bump", "apply", "sweep"}]
  /\ job \in [Workers -> Job]
  /\ last_mtime \in [Workers -> Nat]
  /\ env \in [writes : 0 .. MaxWrites, crashes : 0 .. MaxCrashes, pulls : 0 .. MaxPulls]

\* The mutex protects the two structures of the zone: the queue threads each
\* node once, the slab's capacity is respected, and a worker inside the apply
\* loop is the holder of the lock (sentinel_shm_crowdsec_upsert and _sweep
\* rely on their callers' locking).
ZoneConsistent ==
  /\ IsInjective(queue)
  /\ DOMAIN table = ToSet(queue)
  /\ Len(queue) <= Capacity
  /\ lock # None => pc[lock] = "apply"

\* The decisions of body that a load at time t installs for client k.
Listed(body, k, t) == {i \in DOMAIN body : Running(body[i], t) /\ body[i].ip = k}

\* The sweep deletes what the sidecar removed and nothing else: "nodes not
\* stamped with this generation are absent from the new feed".
SweptAreAbsent ==
  [][\A w \in Workers :
       SweepBatch(w) =>
         \A k \in DOMAIN table \ DOMAIN table' :
           Listed(job[w].feed, k, job[w].now) = {}]_vars

\* Client k is served as the file says.  Lines that had ended when the file was
\* written are never applied; of the others the last one decides, even when an
\* earlier one ends later.  (When the last one has the default time to live,
\* its end depends on the load.)
Served(k) ==
  LET body   == file.feed.body
      listed == Listed(body, k, file.mtime)
      last   == body[CHOOSE i \in listed : \A j \in listed : j <= i]
  IN  /\ listed # {} /\ last.expiry > clock =>
           /\ k \in DOMAIN table
           /\ table[k].action = last.action
           /\ table[k].expiry = last.expiry
      /\ k \in DOMAIN table /\ table[k].expiry > clock =>
           Listed(body, k, clock) # {}

\* Once a worker has loaded the file that is there, and no load is under way,
\* the running bans of the table are those of the file: every client the file
\* lists is banned, with the action and the end its last line gives, and nobody
\* else is.  (Nobody else but those whose ban came from Redis.)
LoadedFeedServed ==
  /\ Verified(file.feed)
  /\ \A w \in Workers : pc[w] = "idle"
  /\ \E w \in Workers : last_mtime[w] = file.mtime /\ file.mtime # 0
  => \A k \in Keys : Served(k)

\* A verified feed that stays, and does not go stale, is loaded by every
\* worker, whatever the other loaders do with the mutex and wherever a worker
\* died (sentinel_feed_timer_handler re-arms the timer unconditionally).
Loadable ==
  /\ file.mtime # 0
  /\ Verified(file.feed)
  /\ clock - file.mtime <= StaleAfter

FreshFeedLoaded ==
  \A w \in Workers : <>[]Loadable => <>[](last_mtime[w] = file.mtime)

\* Every load ends: the sweep loop runs until a batch deletes nothing, while
\* other workers may keep inserting nodes of other generations.
LoadTerminates ==
  \A w \in Workers : pc[w] # "idle" ~> pc[w] = "idle"
=============================================================================
