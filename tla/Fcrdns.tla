------------------------------- MODULE Fcrdns -------------------------------
(***************************************************************************)
(* Forward-confirmed reverse DNS: sentinel_fcrdns.c.  A request of a self- *)
(* declared crawler reads the verdict cached for its address; without one  *)
(* it starts an asynchronous lookup, the name of the address and then the  *)
(* addresses of that name, and goes on.  Nothing stops two requests, of    *)
(* one worker or of two, from starting a lookup each, a lookup outlives    *)
(* its request, and the DNS may change between its two questions.          *)
(*                                                                         *)
(* The cache is a zone of sentinel_shm.c shared by the workers and by all  *)
(* the locations bound to it, each with its own suffixes and time to live. *)
(***************************************************************************)
EXTENDS Integers, SequencesExt

CONSTANTS
  Ips,         \* addresses of clients that claim to be crawlers
  Names,       \* names a PTR record may hold
  Worlds,      \* what the DNS may say: ptr of each address, fwd of each name
  None,        \* no PTR record
  Locs,        \* locations bound to the zone
  Accepts,     \* Accepts[l]: the names sentinel_fcrdns_suffix_ok lets pass
  Ttl,         \* Ttl[l]: sentinel_fcrdns_ttl
  Interval,    \* the zone's interval: NGX_SENTINEL_FCRDNS_DEFAULT_TTL
  Timeout,     \* NGX_SENTINEL_FCRDNS_RESOLVE_MSEC, of each of the questions
  Capacity,    \* nodes the slab can hold
  Workers,
  MaxLookups,  \* bound on the lookups under way in a worker
  MaxChanges,  \* bound on the changes of the DNS
  MaxTime      \* bound on the clock

ASSUME FcrdnsAssumption ==
  /\ None \notin Names
  /\ Worlds \subseteq [ptr : [Ips -> Names \cup {None}],
                       fwd : [Names -> SUBSET Ips]]
  /\ Accepts \in [Locs -> SUBSET Names]
  /\ Ttl \in [Locs -> Nat \ {0}]
  /\ {Interval, Timeout, Capacity, MaxLookups} \subseteq Nat \ {0}
  /\ {MaxChanges, MaxTime} \subseteq Nat

VARIABLES
  clock,
  world,    \* what the DNS says now
  hist,     \* history: hist[t] is what the DNS has said in second t
  cache,    \* the verdicts: a function from the addresses that have a node
  queue,    \* the zone's LRU queue, most recently used first
  flight,   \* flight[s]: the carrier of a lookup, or Idle
  changes   \* changes of the DNS so far

vars == <<clock, world, hist, cache, queue, flight, changes>>

Verdicts == {"verified", "failed"}

Entry == [verdict : Verdicts, expiry : Nat, last_seen : Nat]

Slots == Workers \X (1 .. MaxLookups)

\* A carrier: the address, the location whose suffixes and ttl it copied, the
\* question it waits for, the PTR name and when the question was asked.
Carrier ==
  [ip : Ips, loc : Locs, at : {"ptr", "fwd"}, name : Names \cup {None},
   since : Nat]

Idle == [ip |-> None, at |-> "idle"]

-----------------------------------------------------------------------------
(* The zone, under its mutex. *)

\* Mutant: the tail's age is looked at, its expiry is not.
ExpireIdleTail(q) ==
  IF q # << >> /\ clock - cache[Last(q)].last_seen >= Interval
  THEN Front(q) ELSE q

\* sentinel_shm_expire drops a tail that has expired and was not asked for.
ExpireTail(q) ==
  IF /\ q # << >>
     /\ cache[Last(q)].expiry <= clock
     /\ clock - cache[Last(q)].last_seen >= Interval
  THEN Front(q) ELSE q

\* sentinel_shm_touch: a node that is in the queue goes to its head.
Touch(q, ip) == Cons(ip, RemoveAt(q, CHOOSE i \in DOMAIN q : q[i] = ip))

\* Mutant: the expired nodes stay in the rbtree.
GetInTree(ip) ==
  LET kept == ExpireTail(ExpireTail(queue))
  IN  /\ queue' = IF ip \in ToSet(kept) THEN Touch(kept, ip) ELSE kept
      /\ cache' = [x \in DOMAIN cache |->
                     IF x = ip THEN [cache[x] EXCEPT !.last_seen = clock]
                     ELSE cache[x]]

\* sentinel_shm_fcrdns_get, two looks at the tail included.
Get(ip) ==
  LET kept == ExpireTail(ExpireTail(queue))
  IN  /\ queue' = IF ip \in ToSet(kept) THEN Touch(kept, ip) ELSE kept
      /\ cache' = [x \in ToSet(kept) |->
                     IF x = ip THEN [cache[x] EXCEPT !.last_seen = clock]
                     ELSE cache[x]]

\* The verdict Get returns; otherwise the address is PENDING.
Known(ip) == ip \in DOMAIN cache /\ cache[ip].expiry > clock

\* sentinel_shm_fcrdns_set; a full zone drops the verdict.
Set(ip, verdict, ttl) ==
  IF ip \in DOMAIN cache \/ Len(queue) < Capacity
  THEN /\ queue' = IF ip \in DOMAIN cache THEN Touch(queue, ip)
                                         ELSE Cons(ip, queue)
       /\ cache' = [x \in {ip} \cup DOMAIN cache |->
                      IF x = ip THEN [verdict   |-> verdict,
                                      expiry    |-> clock + ttl,
                                      last_seen |-> clock]
                      ELSE cache[x]]
  ELSE UNCHANGED <<queue, cache>>

-----------------------------------------------------------------------------
(* A request: sentinel_fcrdns_signal. *)

\* The address has a verdict; the request is told verified or spoofed.
Answered(ip) ==
  /\ Known(ip)
  /\ Get(ip)
  /\ UNCHANGED <<clock, world, hist, flight, changes>>

\* PENDING: the request fails open and starts a lookup of its own.  (A lookup
\* that could not time out within the bound of the clock is not started.)
ResolveStart(s, l, ip) ==
  /\ ~Known(ip)
  /\ clock + 2 * Timeout <= MaxTime
  /\ flight[s] = Idle
  /\ Get(ip)
  /\ flight' = [flight EXCEPT ![s] = [ip |-> ip, loc |-> l, at |-> "ptr",
                                      name |-> None, since |-> clock]]
  /\ UNCHANGED <<clock, world, hist, changes>>

\* PENDING, and no resolver, or the carrier or the question cannot be made.
NoLookup(ip) ==
  /\ ~Known(ip)
  /\ Get(ip)
  /\ UNCHANGED <<clock, world, hist, flight, changes>>

-----------------------------------------------------------------------------
(* The resolver's callbacks. *)

\* sentinel_fcrdns_finish with a verdict.
Finish(s, verdict) ==
  /\ Set(flight[s].ip, verdict, Ttl[flight[s].loc])
  /\ flight' = [flight EXCEPT ![s] = Idle]
  /\ UNCHANGED <<clock, world, hist, changes>>

\* sentinel_fcrdns_finish with PENDING: the carrier is freed, nothing cached.
Release(s) ==
  /\ flight' = [flight EXCEPT ![s] = Idle]
  /\ UNCHANGED <<clock, world, hist, cache, queue, changes>>

\* Mutant: an error of the second question leaves the carrier as it is.
FailedLeak(s) == flight[s].at = "ptr" /\ Release(s)

\* Either handler on an error, a timeout or an empty answer, and the PTR
\* handler when it cannot copy the name or ask the second question.
Failed(s) == flight[s] # Idle /\ Release(s)

\* What the DNS says of the address of s.
PtrOf(s) == world.ptr[flight[s].ip]

\* sentinel_fcrdns_ptr_handler: a name of the wrong domain is a disproof.
PtrWrong(s) ==
  /\ flight[s].at = "ptr"
  /\ PtrOf(s) # None
  /\ PtrOf(s) \notin Accepts[flight[s].loc]
  /\ Finish(s, "failed")

\* The name passes; its addresses are asked for.
PtrRight(s) ==
  /\ flight[s].at = "ptr"
  /\ PtrOf(s) # None
  /\ PtrOf(s) \in Accepts[flight[s].loc]
  /\ flight' = [flight EXCEPT ![s].at = "fwd", ![s].name = PtrOf(s),
                              ![s].since = clock]
  /\ UNCHANGED <<clock, world, hist, cache, queue, changes>>

\* Mutant: any address of the name confirms it.
FwdAnswerAny(s) ==
  /\ flight[s].at = "fwd"
  /\ world.fwd[flight[s].name] # {}
  /\ Finish(s, "verified")

\* sentinel_fcrdns_fwd_handler: the name owns the address, or it does not.
FwdAnswer(s) ==
  /\ flight[s].at = "fwd"
  /\ world.fwd[flight[s].name] # {}
  /\ Finish(s, IF flight[s].ip \in world.fwd[flight[s].name]
               THEN "verified" ELSE "failed")

Callback(s) == Failed(s) \/ PtrWrong(s) \/ PtrRight(s) \/ FwdAnswer(s)

-----------------------------------------------------------------------------
(* The environment. *)

\* A worker dies with the lookups it has under way.
Kill(w) ==
  /\ \E s \in Slots : s[1] = w /\ flight[s] # Idle
  /\ flight' = [s \in Slots |-> IF s[1] = w THEN Idle ELSE flight[s]]
  /\ UNCHANGED <<clock, world, hist, cache, queue, changes>>

Change(v) ==
  /\ changes < MaxChanges
  /\ v # world
  /\ world' = v
  /\ hist' = [hist EXCEPT ![clock] = @ \cup {v}]
  /\ changes' = changes + 1
  /\ UNCHANGED <<clock, cache, queue, flight>>

\* The resolver gives up on a question that is Timeout seconds old.
Due(s) == flight[s] # Idle /\ clock - flight[s].since >= Timeout

\* Time passes, but never beyond a due timer.
Tick ==
  /\ clock < MaxTime
  /\ \A s \in Slots : ~Due(s)
  /\ clock' = clock + 1
  /\ hist' = [hist EXCEPT ![clock'] = {world}]
  /\ UNCHANGED <<world, cache, queue, flight, changes>>

-----------------------------------------------------------------------------
Init ==
  /\ clock = 0
  /\ world \in Worlds
  /\ hist = [t \in 0 .. MaxTime |-> IF t = 0 THEN {world} ELSE {}]
  /\ cache = << >>
  /\ queue = << >>
  /\ flight = [s \in Slots |-> Idle]
  /\ changes = 0

Request(ip) ==
  \/ Answered(ip)
  \/ NoLookup(ip)
  \/ \E s \in Slots, l \in Locs : ResolveStart(s, l, ip)

Next ==
  \/ Tick
  \/ \E v \in Worlds : Change(v)
  \/ \E ip \in Ips : Request(ip)
  \/ \E s \in Slots : Callback(s)
  \/ \E w \in Workers : Kill(w)

\* Time passes, and the resolver's timer calls the handler of a question that
\* got no answer.
Fairness ==
  /\ WF_vars(Tick)
  /\ \A s \in Slots : WF_vars(Due(s) /\ Callback(s))

Spec == Init /\ [][Next]_vars /\ Fairness
-----------------------------------------------------------------------------
TypeOK ==
  /\ clock \in 0 .. MaxTime
  /\ world \in Worlds
  /\ hist \in [0 .. MaxTime -> SUBSET Worlds]
  /\ queue \in Seq(Ips)
  /\ cache \in [ToSet(queue) -> Entry]
  /\ flight \in [Slots -> Carrier \cup {Idle}]
  /\ changes \in 0 .. MaxChanges

\* The DNS has said, in second t, that ip has the name n.
Said(t, ip, n) == n # None /\ \E v \in hist[t] : v.ptr[ip] = n

\* What a verdict of location l on ip, reached in second t, must rest on: the
\* answers to the two questions, at most Timeout apart.
Backed(ip, verdict, l, t) ==
  \E u \in t - Timeout .. t, n \in Names :
    /\ u \in DOMAIN hist
    /\ Said(u, ip, n)
    /\ IF n \in Accepts[l]
       THEN \E v \in hist[t] :
              /\ v.fwd[n] # {}
              /\ verdict = IF ip \in v.fwd[n] THEN "verified" ELSE "failed"
       ELSE verdict = "failed" /\ u = t

\* Whatever lookups overlap, outlive their requests, time out or die with
\* their worker, and however the DNS changes meanwhile: a cached verdict is
\* what the DNS said of that address within one lookup's time, FAILED only on
\* a positive disproof, and it is at most ttl seconds old when it is used.
VerdictBacked ==
  \A ip \in DOMAIN cache :
    \E l \in Locs :
      /\ cache[ip].expiry >= Ttl[l]
      /\ cache[ip].expiry - Ttl[l] <= clock
      /\ Backed(ip, cache[ip].verdict, l, cache[ip].expiry - Ttl[l])

\* A verdict that is still running is given up neither to expiry nor to a full
\* zone, so a proved crawler never falls back to PENDING: only another
\* completed lookup of the same address replaces it.
VerdictKept ==
  [][\A ip \in DOMAIN cache :
       Known(ip) =>
         /\ ip \in DOMAIN cache'
         /\ \/ cache'[ip].expiry = cache[ip].expiry
            \/ \E s \in Slots : flight[s].ip = ip /\ flight'[s] = Idle]_vars

\* The heap carrier of every lookup is freed: each chain of callbacks ends,
\* also when the resolver never answers.
EveryLookupEnds == \A s \in Slots : flight[s] # Idle ~> flight[s] = Idle
=============================================================================
