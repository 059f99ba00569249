# A TLA+ model of nginx-http-sentinel-module

The module scores every request of an nginx location from a set of signals and
turns the score into a verdict: allow, challenge (proof of work), tarpit, block.
Most signals are functions of the request alone. What makes the module hard to
get right is the state that several worker processes share, mutex section by
mutex section, the work that timers and resolver callbacks do between requests,
and the configuration that ties zones, feeds and timers to locations. That is
what is modelled here.

## 1. Inventory

| Part | Source (`src/src/`) | State it keeps | Operations | What makes it correct |
|---|---|---|---|---|
| Identity zones | `sentinel_shm.c`, used by `sentinel_errrate.c`, `sentinel_velocity.c` and the soft-ban | rbtree + LRU queue of nodes in a slab, one mutex; per worker a cached time | lookup, record, soft-ban, expiry of the tail | table and queue agree; a running ban is never lost; the window is exact |
| CrowdSec ban table and feed loader | `sentinel_feed.c`, `sentinel_shm.c` | the zone, a generation counter, per worker `last_mtime` and the load in progress | stat, read and verify, bump, apply batch, sweep batch; lookup; pull | the table serves the verified file and only it; loads end |
| Tarpit | `sentinel_tarpit.c`, `ngx_http_sentinel_module.c` | a counter per worker in shared memory, a context and a timer per connection | reserve, hold, drip, block on a full socket, finish, respawn, reload | the counters are exact, the cap holds up to a stated overshoot, nobody is held for ever |
| Redis sharing | `sentinel_redis.c` | push ring in shared memory, per worker an async connection, a timer, a SCAN in progress | enqueue, flush, connect, callbacks, pull | a worker always comes back; nothing is sent before AUTH; only local bans are published |
| CrowdSec sink | `sentinel_cssink.c` | ring in shared memory, the owner's decision set, the decisions file | enqueue, drain, expire, rewrite | the file lists the running local bans |
| FCrDNS | `sentinel_fcrdns.c` | verdict cache in a zone, resolver lookups under way | signal, PTR answer, forward answer | a verdict is what the DNS said within one lookup; a running one is kept; every lookup ends |
| Proof of work | `sentinel_pow.c` | none on the server (signed cookie, time bucket) | challenge, check of cookie and nonce, dispatch, page | who gets through has solved, recently and for his address; an honest browser gets through, also across a bucket boundary |
| Scoring and dispatch | `sentinel_score.c`, `ngx_http_sentinel_module.c` | the request context | gather, score, verdict, enforce, log | saturating sum, allowlist and ban precedence; a location enforces its own verdict |
| Signals | `sentinel_botua.c`, `_header.c`, `_coherence.c`, `_ja4h.c`, `_honeypot.c`, `_asn.c`, `_c2ip.c`, `_allowlist.c`, `_ja3sig.c`, `_ja4sig.c`, `_ja4tsig.c` | none | one function each | what raises each flag, and what fails open |
| Metrics | `sentinel_metrics.c` | atomic counters | record, scrape | best effort |
| Configuration | `ngx_http_sentinel_module.c`, the `init_process` walks of feed, Redis and sink | zone arrays, location configurations | directives, merge, binding, arming of timers | bound zones work; who needs a timer has one; a bad file changes nothing |

How they interact: `ngx_sentinel_preaccess_handler` gathers the signals (which
look up, touch and expire nodes of the identity zone and of the CrowdSec zone),
scores them and enforces: a BLOCK writes a soft-ban to the identity zone and
enqueues the client to the Redis ring and the sink ring unless the CrowdSec
table caused it; a TARPIT reserves a slot. `ngx_sentinel_log_handler` records
the request in the velocity zone and, when it failed, in the error-rate zone.
Timers of each worker load the feed, drain the rings, pull from Redis. All of
it shares memory with the same code in the other workers.

## 2. Plan

The order is by what hurts most when it is wrong: first the memory that every
worker writes on every request, then the loaders and timers that work on it
between requests, then what the boxes tell each other.

| Step | Modules | Status |
|---|---|---|
| Identity zones, and the exact limiter they implement | `ErrRateZone`, `SlidingWindow`, `ErrRateZoneProofs` | done |
| CrowdSec feed loader and ban table | `CrowdsecFeed`, `CrowdsecFeedProofs` | done |
| Tarpit | `Tarpit`, `TarpitProofs` | done |
| Redis client | `RedisSync`, `RedisSyncProofs` | done |
| Scoring; request path, log phase and ban sharing between boxes | `Score`, `BanSharing` (extends `Score`), `BanSharingProofs` | done; the velocity zone is an input |
| CrowdSec decision sink | `CsSink`, `CsSinkProofs` | done |
| FCrDNS: lookups of several workers that outlive their requests, the verdict cache, late and contradictory answers | `Fcrdns`, `FcrdnsProofs` | done |
| Configuration: directives, merge, zones, timers | `Config`; proved about in `RequestPathProofs` | done, for one server |
| Signals; proof of work; the preaccess dispatch with its fallbacks, browsers, redirects, reloads | `Signals` (extends `Config`, instantiates `Score`), `Pow`, `RequestPath`, `RequestPathProofs` | done |
| Two feeds on one zone; a reload that changes a zone's threshold | extensions of `CrowdsecFeed`, `ErrRateZone` | open |

Every safety property of a passing run is proved, for every value of the
constants; liveness stays with TLC (section 5).

Composition. `BanSharing` composes the request path with zones, Redis and sink
reduced to what their own modules show of them: the error-rate zone is a count
and an end of ban per client (the abstraction that `ErrRateZone` implements), a
publication arrives in Redis and a pull finds it (`RedisSync`: `RingDrained`,
`PullDelivers`), an export is a fact (`CsSink`). `SlidingWindow` is the one
separate abstract specification; `ErrRateZone` instantiates it with a
refinement mapping. `RequestPath` composes configuration, signals, scoring and
proof of work; what the zones know of a client is a free choice there
(`Knowledge`), since their own modules say how it comes about.

## 3. Modules and the code

Every definition that models code is listed with its lines in `PROJECT.json`
("map"). A definition whose comment starts with "Mutant" is a faulty variant
of the definition below it; the specification never uses it. It is there to
show that the property it is paired with can fail.

**`ErrRateZone`** (`sentinel_shm.c`). `node` is the rbtree, `queue` the LRU
queue, `now[w]` the cached `ngx_time()` of a worker. Each public function runs
whole under the slab mutex and is one action: `Lookup`, `Record`, `Softban`;
`ZoneFull` is the error return of the latter two. All begin with
`sentinel_shm_expire`, two looks at the tail. The ring of time stamps is the set
of its occupied cells, since nothing observes which cell an event is in.

**`SlidingWindow`**. What the zone promises: a set of recent events per client
and the end of its ban, no table, no eviction, no pruning.

**`CrowdsecFeed`** (`sentinel_feed.c`, the crowdsec part of `sentinel_shm.c`).
A load is cut where the code releases the mutex or reads the outside world:
`Stat`, `Read` (or `Reject`), `Bump`, `Lock`, one `ApplyLine`/`SkipLine` per
line, `ApplyFull` on a full zone, `ApplyEnd`, `SweepBatch`, `SweepDone`. A file
is its lines, the count in its trailer and whether its digest matches; a line is
a client, an action and an expiry, or malformed. Requests (`Lookup`) and Redis
(`Pull`) share the zone. A worker may die at any point. What a loaded file means
for a client is `Served`: of its lines that are running when the file is written
the last one decides, even when an earlier one ends later, since each line
overwrites the node.

**`Tarpit`** (`sentinel_tarpit.c`). The sum over the slots is one action per
atomic read (`ReadSlot`), then `Reserve` or `AtCap`, then `Hold` or, when any
step of the setup fails, `GiveUp`. A timer or write event is `Expire`, `Fail`,
`Block`, `Drip` or `DripLast`, the branches of the write handler. `Kill`,
`Respawn` and `Reload` are nginx's; delay and lifetime are the configuration's,
so each cycle has its own.

**`RedisSync`** (`sentinel_redis.c`). `link[w]` is `sentinel_redis_ctx_t`,
`pending[w]` the commands whose callbacks hiredis holds, `replies[w]` the
answers on their way. The timer's handler is `Connect`, `ConnectError`,
`TimerWaits` or `TimerWorks`; the flush is one action per ring entry because the
mutex is taken per entry; each callback is an action for its success and one for
its failures (`GetReplyLost`: no string, or no room in the zone). When a connection goes, hiredis runs all callbacks with no reply
(`Lose`). SCAN has pages, so a pull is a chain of several round trips.

**`Score`** (`sentinel_score.c`). Pure: `Add` saturates, `Sum` adds the terms in
the code's order, `Pardoned` are the early returns, `ToVerdict` the bands.

**`BanSharing`** (`ngx_http_sentinel_module.c`). `Pass`, `Block` and `Observe`
(shadow mode) are the preaccess handler, `Log` the log handler, `Flush` and
`Pull` the Redis client of a box. `local` and `seen` are history: who offended
where, and when a client's last request was dealt with.

**`CsSink`** (`sentinel_cssink.c`). The owner's handler is `Begin`, `DrainOne`
per ring entry, `Open`, `WriteLine` per slot, `Rename`, with a failure at each
file operation. A reload waits for the old owner's tick to end: its handler does
nothing more once `ngx_exiting` is set and the new owner's first tick comes a
second after its start, so the two do not overlap if a tick takes less than that.
`ReloadFails` is a new worker 0 without memory for its table, which has no timer;
the run's clock may then end with nothing left to do, so that deadlock is not
checked there.

**`Fcrdns`** (`sentinel_fcrdns.c`, the ban-table part of `sentinel_shm.c` that
it reuses). `cache` and `queue` are the verdict zone, `flight[s]` a carrier.
`Answered`, `NoLookup` and `ResolveStart` are the branches of the signal;
`PtrWrong`, `PtrRight`, `FwdAnswer` and `Failed` those of the two handlers. `world`
is what the DNS says now and `hist` what it has said in each second, which is
what a verdict is held against.

**`Config`** (`ngx_http_sentinel_module.c`). A file is a sequence of directives
with their block. `Handle` is a directive's handler, `Declare` the four zone
handlers with nginx's growing array (`Pushed`, `Address`) and shared memory by
name (`Clashes`), `MergeBlock` the merge of one block with its parent and its
bindings, `InRange` and `Resolves` the checks that refuse a file. `Tree` is nginx' tree of
the static locations, `Walk` the recursive walk of it that feed, Redis and sink
do in `init_process`, `Collected` the feeds that it finds, each once, `Feeds` as
many of them as there are timers (`SENTINEL_FEED_MAX_TIMERS`), `Armed` the first
ring or sink. `IsFile` is what nginx'
parser guarantees: a finite sequence of directives of the module's command
table. `Parsed` is a recursive function over it, one `Handle` after the other.
`Load(text)` is what comes of a file: refused, or configurations and the zones
that `sentinel_shm_init_zone` connects; `Timers` what a worker of that cycle
arms.

**`Signals`** (the signal files). A string is the set of the lists in which it
has a match; each signal is one operator; `Gathered` is
`ngx_sentinel_get_ctx`. A zone that is not bound or not connected fails open
(`Lookups`). The single flags, like the defaults and ranges in `Config`, are
there so that a request's verdict is the code's under a real file; the
properties about requests depend on the bands and pardons they lead to, not on
each of them.

**`Pow`** (`sentinel_pow.c`). A MAC is the record of its arguments, a nonce the
record of the challenge it solves and its bits, so both hashes are ideal.
`Dispatch` has every early return, with the failures that lead to them.

**`RequestPath`** (`ngx_http_sentinel_module.c`). One worker serves one request
at a time, phase by phase: `ServerRewrite` and `LocationRewrite` may read a
variable and so judge the request early; `Skip`, `Observe`, `Allow`,
`Challenged`, `Tarpitted`, `Blocked` are the preaccess handler; `Redirect` is
nginx's internal redirect, which clears the module's context. `FirstToAsk` is the
block that is first to want a verdict on a request's way, found from its route
alone; `VerdictOwn` holds the verdict that is enforced against it. `Blocked` here is
the answer alone; the bans it leads to are `BanSharing!Block`. Browsers send,
solve pages, leave them, change their address; `Configure` starts or reloads,
and a file that does not load changes nothing. `Test` (nginx -t) looks at one of
the `Drafts`, so that every file of a large family is loaded once and judged by
`BoundZonesLive` and `TimersArmed`. `earned` is history: until when the work
that a client did under a secret entitles it to pass.

## 4. Runs

| Run | What it asks | Distinct states |
|---|---|---|
| `ErrRateZone_lag` | two workers, clocks a second apart, three clients in a zone of two: the inductive invariant holds, no running ban and no needed event is lost, and the zone implements `SlidingWindow` | 86,509 (up to symmetry) |
| `CrowdsecFeed_loader` | one loader that may die, a file that changes under it: the table serves the file, the sweep deletes only what left it, a lasting file gets loaded | 293,690 |
| `CrowdsecFeed_contended` | two loaders, Redis pulls, a zone too small: consistent, and every load ends | 365,717 |
| `CrowdsecFeed_race` | **violated**: two loaders of one file sweep each other's decisions away | |
| `Tarpit_hold` | two workers race for one slot, over a kill and a reload that makes the delay longer than the lifetime: overshoot at most `NWorkers - 1`, counters exact, deadline overrun at the first tick only, everybody released | 74,123 |
| `Tarpit_reload_cap` | **violated**: the cap is handed out again by a reload | |
| `RedisSync_workers` | two workers, one leaving, one fault anywhere, a lost pull included: flags, AUTH and timer in step, at most once, keys outlast their bans; bans are drained and pulled, the leaver leaves | 152,692 |
| `BanSharing_boxes` | two boxes: no ban from nothing, pulled bans block, bans run out although they are published again | 229,642 |
| `BanSharing_loop` | **violated**: a pulled ban is published again as a local one | |
| `CsSink_owner` | three clients, a ring and table of two, a fault and two reloads, of which one may leave no timer: whole file with each client once, decisions exported, ring drained | 344,264 |
| `Fcrdns_lookups` | two claimed crawlers, two locations, two workers, a cache of one, a changing DNS: verdicts backed by one lookup, kept while they run, every lookup ends | 101,463 |
| `RequestPath_serve` | a roaming browser, three locations, two files and one that does not load, faults of the challenge, redirects, early evaluation: admission is earned, the second solution succeeds, the verdict is that of the block that asked first; 2,503 drafts: zones live, timers as the tree of locations says | 598,542 |

The three violations are disagreements between the code and what its comments
or documents say, quoted in `PROJECT.json` ("findings"):

- `CrowdsecFeed_race`. `phase3-crowdsec-spec.md` calls the load by every worker
  idempotent. Each load stamps nodes with its own generation, and its sweep
  deletes every other stamp, the other worker's fresh ones too. Both workers
  then remember the file as loaded, so it stays that way until the file changes.
- `Tarpit_reload_cap`. The comments say that the counters survive a reload. The
  init callback tests `shm.exists`, which nginx does not set for a zone carried
  over on POSIX systems, and allocates a fresh block.
- `BanSharing_loop`. The guard against ban loops tests only whether this request
  hit the CrowdSec table. The block of a pulled ban writes a soft-ban; once the
  pulled ban ends, the soft-ban blocks with no such hit, and is published and
  exported as the box's own.

### Observations

Narrower than a run of their own, and mostly exceptions that a property's
statement names:

- *Tarpit.* The cap is overshot by up to one connection per other worker, as the
  comment in `sentinel_tarpit_reserve` says and `Tarpit_hold` checks, while
  `phase2-tarpit-spec.md:274` asks for a compare-and-swap that excludes it.
  `README.md:448` calls `tarpit_max_lifetime` a "hard ceiling", `sentinel.h:558`
  a "hard force-close ceiling", and the comment at `sentinel_tarpit.c:336` says
  that "a long delay can never overshoot max_lifetime". That is true of every
  tick but the first: `sentinel_tarpit_start` (line 518) arms the first timer
  with the whole delay, and the two ranges (100 to 60000 and 1000 to 600000) are
  checked separately. A delay of a minute with a lifetime of a second is accepted
  and holds a client for a minute. `LifetimeBounded` says exactly this much, and
  the second cycle of `Tarpit_hold` has a delay beyond its lifetime.
- *Feed.* When the zone is full in the middle of a load, the decisions that did
  not fit keep their old stamp and are swept although the feed lists them:
  `CrowdsecFeed_loader`, which checks `SweptAreAbsent`, has room for all. The
  stat gate compares modification times in seconds, so of two files written in
  one second the second may never be loaded: `SidecarPeriod` is one second there.
- *CrowdSec and crawlers.* What a crawler's name is worth under a ban is said in
  two ways. `phase3-crowdsec-spec.md` lets it win: lines 238-244 keep "the
  allowlist short-circuit authoritative", section 4.4 (255-262) has
  `known_good_ua` "still short-circuit to score 0", test 9 (316-317) expects
  "score 0 / allow" for a good UA from a banned IP, and the comment at
  `sentinel_score.c:31-32` says that it "overrides every other signal". The code
  (`sentinel_score.c:69-106`) and `README.md:549-551` let the ban win. The model
  follows the code, and `PulledBanBlocks` states what the code and the README
  say; by the specification's words it would be the wrong way round.
  `README.md:547` also puts `captcha` into the "block band", where the code's 40
  percent, as its comment and the specification say, end in the challenge band.
- *Redis.* The result of the upsert of a pulled ban is ignored
  (`sentinel_redis.c:567`): with a full zone the ban is lost until a later pull
  (`GetReplyLost`, over which `PullDelivers` holds). A feed on the same zone
  sweeps pulled bans, and a pull overwrites what the feed said.
- *Sink.* When worker 0 gets no memory for its table, the comment at
  `sentinel_cssink.c:492` says "enqueue still works, no file"; in fact
  `sentinel_cssink` stays NULL, so this worker's own bans are not enqueued
  either, and nobody drains what the others enqueue until the next worker 0
  (`ReloadFails`).
- *Zones.* A velocity zone keeps its nodes over a reload, whose rings were
  allocated for the old `rate=`; with a larger one a record writes beyond them.
  More than four `sentinel_zone` (two of the other kinds) make the array move
  while `shm->data` keeps pointing at the old elements, and two zones of one name
  share one `shm->data`: the zones that the locations are bound to then have no
  memory and fail open without a message. `ZonesLive` excepts exactly these.
- *Timers.* The comment at `sentinel_feed.c:634` says "walk every http loc-conf,
  arm one timer per crowdsec feed". Only the server's tree of static locations is
  walked: a feed set in a regex, named or nested location alone is never loaded,
  and the server block's own is found only through the locations that inherit it.
  Feeds beyond the 256th get no timer, without a message. `TimersArmed` is stated
  for what is walked, and a draft has a feed in a regex location. Of several Redis endpoints or sinks only
  the first is served; the rings of the others fill up. `redis a` and
  `redis a:6379` are two rings. Every location bound to the CrowdSec zone writes
  its `stale_after` into it and the last one merged wins.
- *Directives.* `sentinel_fail closed` is parsed and merged and read nowhere:
  every failure lets the request pass (`README.md:712` says it "flips it").
  Thresholds are not checked for their order.
- *Proof of work.* The comment names a disabled signal and a missing secret as
  the only fail-open cases; a challenge or a page that cannot be made lets the
  request pass too. The MACs cover neither the difficulty nor the lifetime, so a
  cookie from an easy location opens a hard one with the same secret, and one
  cookie name serves all locations, so two secrets challenge a browser in turn.
  `AdmissionEarned` and `SecondTrySucceeds` are stated for this. In
  `sentinel_pow_set_cookie` the header is pushed before its value is allocated.
- *Early evaluation.* A variable that is read in a rewrite rule judges the request
  under the block and the path of that moment, and the verdict stays after the
  rewrite; `VerdictOwn` says whose verdict it then is. The rate limit of a throttled
  request survives an internal redirect although the verdict does not, and an
  `error_page` makes a refused request be judged again.
- *FCrDNS.* `sentinel.h:94` calls FAILED a "mismatch or lookup fail", while the
  handlers cache nothing when a lookup fails (`VerdictBacked`). Not only the first
  request passes unverified but every one that comes while a lookup is under way,
  and each starts another. The cache is shared by locations with different
  suffixes: the verdict of one is used by the other.

### Bounds

All bounds are constants named `Max...`, plus the sizes of the sets.
`Tarpit_hold` has two pairs of delay and lifetime, two and three ticks before
the reload, three and two after it. The clock
runs just far enough for a ban or window to begin, lapse and begin again:
`Interval + Block` and more in the zone, past `StaleAfter` in the feed, past the
lifetime in the tarpit. Zones are smaller than the number of clients, so that
they fill up; rings hold one or two entries, so that they do too. One crash or
fault is allowed at every point: the properties relate one interrupted operation
to the next. There are two workers, since operations under the mutex and the
reservation's reads interact pairwise.
`RedisSync_workers` has its one key on the second of two SCAN pages, so that
each pull needs the whole chain; its clock ticks once, which may be between a
flush's look at the clock, the queueing of a ban and Redis's execution of its
SET. `BanSharing` uses the default weights and
thresholds, a window of two events that is longer than the run, and one failed
request at a time waiting for its log phase. `Fcrdns_lookups` has a cache of one
verdict for two addresses, a lookup per worker and one change of the DNS, which
may fall between the two questions of a lookup. `RequestPath_serve` starts in
the middle of a challenge's period of three seconds, at the beginning of one of
two, and runs over at least one end of each; a page takes a second; two reloads change the secret and change it back. Its drafts are all
files of up to three zone declarations out of six, and all choices of up to four
settings out of fourteen: enough for a full array, two zones of one name, two
feeds, endpoints or sinks, more feeds than the two timers, and each kind of
block. Its tree has a node before, one below and one after the root, which is
both an exact and a prefix location; a regex location is in no tree. Deadlock
checking is on in every run but `CsSink_owner`.

### Fairness

Weak fairness for what a worker's event loop does anyway: run an expired timer,
run a ready callback, return from a handler. A load is straight-line code
between mutex sections, and nginx's mutexes are handed on. Strong fairness
appears twice, where another handler of the same single-threaded worker
temporarily disables the action: the tarpit's timers and the Redis callbacks; the
event loop serves every ready event in each round. Redis is assumed to answer or
the connection to fail; the code has no command timeout, so without that
assumption a silent peer stops the pulls of a worker. `Fcrdns` assumes that nginx's resolver
calls the handler of a question whose timeout has passed. `ErrRateZone`,
`BanSharing` and `RequestPath` need none.

## 5. Proofs

`tlapm` checks all theorems from the assumptions on the constants stated in the
modules, which TLC evaluates in every run: positive sizes and times, finiteness
of the connections and of the Redis keys, a CrowdSec weight within the score's
range, routes that lead to locations, and that `None` is neither of these.

| Theorem | Says, for any values of the constants |
|---|---|
| `ErrRateZoneProofs!ZoneInvariant` | table and queue agree, recency order up to the lag, sound nodes |
| `ErrRateZoneProofs!BansAreHonoured` | no step removes or moves a running ban except a later soft-ban of that client |
| `ErrRateZoneProofs!EventsAreKept` | no step drops an event that every worker's window still needs |
| `ErrRateZoneProofs!ZoneImplementsLimiter` | the zone implements `SlidingWindow` |
| `CrowdsecFeedProofs!ZoneStaysConsistent` | table, queue, slab and mutex agree, for any number of loaders, requests, pulls and crashes |
| `CrowdsecFeedProofs!SweepIsExact` | a sweep deletes only clients that its feed does not list, if `Lone` and `Room` |
| `CrowdsecFeedProofs!LoadedFileIsServed` | the running bans are exactly those of the loaded file, if `Lone`, `Room`, `FilesApart` and nothing is pulled |
| `TarpitProofs!TarpitSafety` | the slot of a live worker is the number of its connections |
| `TarpitProofs!OverrunIsFirstTick` | nobody is held beyond the deadline except by the first tick, and then by no more than the delay exceeds the lifetime |
| `TarpitProofs!CapOvershootBounded` | the cap is overshot by at most one connection per other worker |
| `BanSharingProofs!ScoreInRange` | the score stays within its maximum for all weights and signals |
| `BanSharingProofs!SaturationLosesNothing` | the saturating sum is the true sum, capped once |
| `BanSharingProofs!EvidenceNeverHelps` | more evidence against a client never leads to a milder verdict |
| `BanSharingProofs!PulledBansBlock` | a pulled ban blocks every request, if the CrowdSec weight reaches the block threshold |
| `BanSharingProofs!BansOriginate` | a client that offended nowhere is banned nowhere |
| `BanSharingProofs!BansEnd` | boxes that publish each other's bans again keep none alive: each ends within a lifetime of the client's last request |
| `CsSinkProofs!FileAlwaysWhole` | an importer always reads the decisions of one whole tick, each client once |
| `CsSinkProofs!OneDecisionPerClient` | the owner's table has one slot per client, and counts them |
| `RedisSyncProofs!LinksStaySound` | the flags of a connection agree with what is outstanding, AUTH comes first, the timer is armed |
| `RedisSyncProofs!BansCarriedOnce` | a ban is never on its way to Redis twice |
| `RedisSyncProofs!BansLiveTheirTime` | no key in Redis goes before its ban has ended, no shared ban outlasts `sentinel_redis_ttl` |
| `FcrdnsProofs!VerdictsAreBacked` | a cached verdict is what the DNS said within one lookup |
| `FcrdnsProofs!VerdictsAreKept` | a running verdict is replaced by another lookup of its address and by nothing else |
| `RequestPathProofs!AdmissionIsEarned` | who gets through the challenge band has solved for his address, under the secret in force, within two lifetimes, if `PeriodsApart` |
| `RequestPathProofs!SecondTryIsEnough` | a browser needs two solutions at most, if `RoomForTwo` |
| `RequestPathProofs!VerdictIsOwn` | the verdict that is enforced is that of the block which asked first since the request came or was redirected |
| `RequestPathProofs!ZonesAreBoundLive` | an accepted file binds its blocks to zones that work, if no array overflows and no name comes twice |
| `RequestPathProofs!TimersMatchTree` | for any tree of static locations each of their feeds has one timer, as far as there are timers, and no other; a ring and a sink are served if there are any |

and the type invariants of the same modules: `ZoneTypeCorrect`,
`FeedTypeCorrect`, `TarpitTypeCorrect`, `BanSharingProofs!TypeCorrect`,
`SinkTypeCorrect`, `SyncTypeCorrect`, `LookupsTypeCorrect`, `PathTypeCorrect`. Every inductive
invariant below was first checked by TLC on the run of its module.

*The zone.* The inductive invariant is `Inv`, the conjunction of the four
parts `TypeOK`, `QueueIsTable`, `RecencyOrder` and `NodesSound`, which
`ErrRateZone_lag` checks too. None is inductive alone: that a full ring never
occurs needs that a block empties it, the recency order needs that time stamps
are not in the future by more than the lag, and both need that queue and table
name the same keys. Operations are split into cutting the tail (`CutStep`) and
putting one node at the head (`HeadStep`); every action is one of these or both.
The two action properties follow from `Inv`: a key that leaves left at the tail,
and `Expirable` excludes running bans and, by `SoundNode`, events that are still
needed. The lag appears in `NoEventLostEarly` because a worker whose clock is
ahead may expire what one that lags would still count.

*The refinement.* The mapping takes from a client's node its events and the end
of its ban, and from a client without a node no events and no ban. Seen through
it a step of the zone does two things (`CallStep`). The client of the call counts
as the limiter says: `RecordedCounts` for the new event and the block it may
cause, `LookedFades` for a lookup, which prunes. Of the others something fades:
a node that is cut off the tail holds, by `Inv`, no running ban and only events
that the limiter too may forget (`ExpiredFades`, `OthersFade`). Each operation is
then a call of the limiter (`CallIsLimiters`), a full zone one that records
nothing, and the clocks run as the limiter's do (`TicksAreLimiters`).

*The feed.* Types and `ZoneConsistent` are inductive together. The queue's
operations are unlinking (`Without`, whose members are numbered by their ranks:
`Ranks` is a pigeonhole argument that stands for an induction), linking at the
head and cutting the tail; each keeps the queue injective and its set of keys
equal to the table's. This needs no hypothesis.

The other two theorems have hypotheses, each of which the code needs. `Lone`:
one loader (`CrowdsecFeed_race` shows what two do). `Room`: a node for every
client, so that no load is cut short. `FilesApart`: the sidecar's files differ
in their modification time. `SweepIsExact` rests on `LoadSound`: the lines that
a load has passed are in the table under its stamp, the last line about a client
decides what its node holds, and no other node has that stamp, since the bump
made it larger than all (`Dated`). A line passed moves one position from what is
left to what was passed (`FurtherProps`); at the sweep all are passed, so a node
with another stamp is a client that no line lists. For `LoadedFileIsServed` two
more invariants: `Times`, that a load whose recorded time is the file's has read
that file, and no other (the file may be replaced between stat and read, and
`last_mtime` then names the older one, so it is read again); and `Loaded`, that
from the end of such a load on the table is what the load left, except for
decisions that have ended. A load at time `t` leaves out the lines that ended
before it, which are a part of those that ended by now, so that what it left
serves the file at every later moment (`LoadedServes`).

*The tarpit.* `SlotsExact` is inductive together with `Bookkeeping`: only live
workers own connections or reservations, and blocks of later cycles are zero.
Letting a connection go changes one cardinality by one (`OfRemoved`, `OfAdded`).
`LifetimeBounded` follows from `TimersBounded`: time never passes a due timer, and
no timer lies beyond the deadline but that of a connection on which nothing was
sent or tried, which lies beyond it by exactly what the delay exceeds the
lifetime. No order of delay and lifetime is assumed.

`OvershootBounded` is the hard one: a worker reads the slots one after the other
while others reserve and release, so its sum is that of no single state. Let
`View(p)` be what worker `p` will have summed if nothing changes from now on:
what it has read, and what the slots still to be read count. That the slots
never exceed the cap by more than the other workers follows from `Headroom`: the
units the slots count, plus the workers whose view still lets them reserve, stay
within `MaxConns + NWorkers - 1`. This alone is not inductive, because a release
lowers a slot and every view that has not passed it, and so may let several
workers through at once that would have been refused. `Headroom` therefore says
it for every `j`: units plus workers whose view is below `MaxConns + j` stay
within `MaxConns + NWorkers - 1 + j`. A release turns the statement for `j + 1`
into that for `j`. Units are sets of pairs, so that sums are cardinalities, and
`TotalCounted` is an injection of connections and reservations into them.

*The score.* `ErrRateTermCapped`: the division before the product of error count
and weight answers exactly whether the product leaves the range. `AddCapped`:
adding to a capped sum gives the capped sum. So the code's chain of additions is
`Capped(Total(in))`, and since every term grows with the evidence (`TermsGrow`)
the score does, and with it the verdict, whichever way the operator orders the
thresholds; a pardon can only be lost (`EvidenceNeverHelps`). Weights are natural
numbers (nginx's number slots take no sign). The products of the CrowdSec tiers
are not guarded in the code; that they stay small is what the assumption on the
CrowdSec weight is for.

*Sharing.* `BansHaveOrigin` is inductive with the types and `OpenHasOrigin`: a
refusal that waits for its log phase is a guilty client's. The step that matters
is `Block`: of a client unknown to the zones nothing is gathered but the local
signals (`GatheredClean`), so the verdict is theirs. `PulledBanBlocks` needs only
the types: a hit excludes the pardons, and the saturating sum is at least its
last term (`SumInRange`). `BansRunOut` is inductive once it says of the bans on
the rings what it says of those in Redis and in the tables: `Flush` and `Pull`
move the end of a ban and never renew it, and what renews one is a request,
which moves `seen`.

*The sink.* `FileWhole` speaks of the renamed file; what makes it inductive is
`Rewriting`, about the temporary one: it was opened for all slots in use and
holds the lines of those already passed, so that at the end of the loop it is
complete. That a client has one slot (`TableSound`) makes it be listed once.

*The Redis client.* hiredis keeps a queue of commands per connection; `Queues`
says that the replies on their way answer its first commands, in order, and
`LinksTell` what the flags say about it: AUTH alone while `auth_pending`, at most
one SCAN and one exactly while `pull_inflight`, nothing while down. `LinkSound`
is this in terms of cardinalities, and is not inductive without the order: the
callback that clears a flag must be the one of the command it was set for.
`AtMostOnce` rests on `BansApart`, which says of each pair of places that they do
not carry the same ban. `BanLifetimes` speaks of Redis and the table; inductive
is `Timely`, which says the same of the bans on their way: on the ring none lasts
longer than `Ttl` from now, the clock that a flush has read is never ahead, the
time to live in a SET under way still reaches the end of its ban (`FlushOneTimely`:
it was counted from an older clock, and Redis adds it to a later one), and the
expiry in the reply to a GET is one that Redis held.

*FCrDNS.* A verdict is backed when it is written because its carrier was
(`FlightsBacked`: the name it carries was an answer, and its timer has not run
out), and the history records what the DNS says now (`NowRecorded`).
`VerdictKept` follows from the types: expiry tests the tail's own lifetime, and a
full zone refuses the newcomer.

*The request path.* Three inductive invariants over the same types (`Types`, in
which a request is a record of its fields). `VerdictOwn` needs `CtxOnWay`, which
follows the ctx along a request's way, phase by phase: until the first block that
asks has been reached there is none, and from then on it is that block's, with
the path of that moment; a redirect starts the way anew.
`AdmissionEarned` is carried back from the dispatch to the cookie
(`CookiesEarned`: it does not outlast what its MAC was earned with), to the nonce
(`NoncesEarned`) and to the page (`PagesDated`: its challenge is of a second at
most `MaxSolve` ago). The proof showed that the property does not hold for all
configurations: the challenge is a MAC of the number of its period, not of its
length, so a solution for a location with a short lifetime could count for one
with a longer lifetime whose period happens to have the same number, and buy the
longer cookie (TLC finds it with `Epoch = 0`). `PeriodsApart` excludes this;
`ShortLifetimes` proves that it holds when `d * (d + MaxSolve) <= Epoch` for all
lifetimes `d`, which is so of lifetimes up to eleven hours for today's Unix time,
and it holds trivially when all locations have one lifetime. For
`SecondTrySucceeds`, `RequestFits` and `PagesFit` say that a page not spoilt by a
reload or a new address leads to what its own location expects, and that a second
page was sent within `MaxSolve` of the beginning of its period; `RoomForTwo`,
`2 * MaxSolve <= pow_ttl`, then leaves time for it. It is the condition under
which the property is true: with less a slow browser may miss every period.
The range checks of the merge (`LoadedInRange`) give the types of lifetime and
difficulty; how the directives of a file are read is not needed.

*Files.* `BoundZonesLive` and `TimersArmed` hold of what any file comes to, so
the argument is about `Load`, an induction over the directives (`UpTo`, on the
set of the prefixes that are known to be good; `ReadInOrder` unfolds `Parsed`).
`Reading` is what holds after each one. For the zones: an array has one element
for each zone of its kind so far and has not moved while these fit
(`ArraySound`), and with no name twice the shared zone of every element points
at it (`Pointed`): a new zone would have to move the array, or to take over a
name, to make an older pointer stale. The merge binds to an element's place in
the array, which is then where the shared zone points. The exceptions in
the property are needed: the drafts hold a third CrowdSec zone, which moves the
array from under its first zone, and a name used by two kinds, which leaves one
of them unconnected.

For the timers the argument is about the tree. `TreeAssumption` says what nginx
builds: children come before their parents, and every node but the root is a
child. `WalkExact`: the walk finds the static locations, all and no other. Upwards,
what it finds from a node on are static locations, and so are those from its
parent on; downwards from the root, what is found from a parent on contains what
is found from its children on (`BelowNode`), so nothing at any node is missed.
`CollectExact`, an induction along the walk, shows that each feed is added once
(`AddFeed`), which makes the length of the list the number of feeds and its first
`FeedTimers` entries (`FeedsExact`) what `TimersExact` says. That a feed has a
zone, so that it is not passed over, is what the merge has checked (`Resolves`).

Only model-checked: all liveness (`LoadTerminates`, `FreshFeedLoaded`,
`EveryoneReleased`, `RingDrained`, `PullDelivers`, `ExitsGracefully`,
`DecisionsExported`, `EveryLookupEnds`), which is out of reach of
the proof system.

## 6. Not modelled

- Metrics (`sentinel_status`): best-effort atomic counters and text that nothing
  reads back.
- JA4H: a hash of header names that is logged and exposed, and that nothing
  decides on.
- The velocity zone's own interplay: it is a second `ErrRateZone`; its verdict
  is an input of `Score`.
- Subrequests, which pass through the same handler with the configuration of
  their own location; several servers and nested locations.
- The formatting of variables. That reading one judges the request is modelled.
- Tests, fuzzers and tools: not part of the running system.
- Byte-level matters: cookie and argument syntax, address parsing and canonical form, digests, JSON of the
  decisions file, HTTP framing of the drip. Digests are taken to be injective.
- hiredis, Redis, nginx's timers, shared memory and process control are modelled
  from how the code uses them and marked external in the map.
