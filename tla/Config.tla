------------------------------- MODULE Config -------------------------------
(***************************************************************************)
(* What becomes of a configuration file: the directive handlers, the merge *)
(* of http, server and locations, the zones that the merged configurations *)
(* are bound to, and the timers that a worker arms from them               *)
(* (ngx_http_sentinel_module.c).  One server with the locations Locs.      *)
(***************************************************************************)
EXTENDS Integers, SequencesExt

CONSTANTS
  None,       \* no name, no zone, nothing
  Bad,        \* an argument that its directive's handler refuses
  Locs,       \* the locations, in the order of the file
  Tree,       \* nginx' tree of the server's exact and prefix locations: its
              \* nodes, children before their parents, the root last
  FeedTimers, \* SENTINEL_FEED_MAX_TIMERS
  Capacity    \* Capacity[k]: the room of the array of zones of kind k

ZoneKinds == {"zone", "velocity_zone", "crowdsec_zone", "fcrdns_zone"}

ASSUME ConfigAssumption ==
  /\ Capacity \in [ZoneKinds -> Nat \ {0}]
  /\ Locs \in Seq(STRING)
  /\ FeedTimers \in Nat

\* A node has an exact location, an inclusive one or both, and children, which
\* are numbers of other nodes, 0 for NULL; every node hangs on the root.
Children(n) == {Tree[n].left, Tree[n].tree, Tree[n].right}

ASSUME TreeAssumption ==
  /\ Tree \in Seq(ToSet(Tree))
  /\ \A n \in DOMAIN Tree :
       /\ {Tree[n].exact, Tree[n].inclusive} \subseteq ToSet(Locs) \cup {None}
       /\ Children(n) \subseteq 0 .. n - 1
       /\ n < Len(Tree) => \E p \in DOMAIN Tree : n \in Children(p)

\* The blocks in the order in which they are merged.
MergeOrder == <<"server">> \o Locs

Levels == {"http"} \cup ToSet(MergeOrder)

\* The fields new, and those of old that new does not have.
Overlay(new, old) ==
  [f \in DOMAIN new \cup DOMAIN old |-> IF f \in DOMAIN new THEN new[f] ELSE old[f]]

-----------------------------------------------------------------------------
(* The directives *)

\* Handlers that overwrite what an earlier directive has set.
Overwriting ==
  {"mode", "fail", "threshold", "tarpit_delay", "tarpit_bytes",
   "tarpit_max_lifetime", "crowdsec_feed", "velocity"}

\* Handlers that add to a list.
Adding ==
  {"honeypot", "allowlist", "datacenter_asn", "c2ip_deny", "ja3_deny",
   "ja4_deny", "ja4t_deny", "fcrdns_verify_suffix"}

\* The fields that directive d sets; most directives set the one that has
\* their name.  sentinel_threshold names the bands it sets, and addresses of
\* one family leave the other family's c2ip tree alone.  A ring is named after
\* the text of the directive.
Assigned(d) ==
  CASE d.dir = "mode"      -> [shadow |-> d.arg = "shadow"]
    [] d.dir \in {"threshold", "c2ip_deny"} -> d.arg
    [] d.dir = "redis" ->
         [redis_host |-> d.arg.host,
          redis_port |-> IF d.arg.port = None THEN 6379 ELSE d.arg.port,
          redis_push_zone |-> d.arg]
    [] d.dir = "cs_sink_path" ->
         [cs_sink_path |-> d.arg, cs_sink_zone |-> d.arg]
    [] OTHER -> [f \in {d.dir} |-> d.arg]

\* While the file is read: ok is FALSE once a directive was refused; arrays[k]
\* holds the names of the zones of kind k, the room of the array and how often
\* it has moved; shm[n] says which element the shared zone n points to; raw[l]
\* are the fields set in block l.
Empty ==
  [ok |-> TRUE,
   arrays |-> [k \in ZoneKinds |->
                 [elts |-> << >>, room |-> Capacity[k], moves |-> 0]],
   shm |-> << >>,
   raw |-> [l \in Levels |-> << >>]]

Refuse(st) == [st EXCEPT !.ok = FALSE]

\* Mutant: the array is created with room for one zone less.
PushedTight(a, n) ==
  IF Len(a.elts) >= a.room - 1
  THEN [elts |-> Append(a.elts, n), room |-> 2 * a.room, moves |-> a.moves + 1]
  ELSE [a EXCEPT !.elts = Append(@, n)]

\* ngx_array_push: a full array moves to memory of twice the size.
Pushed(a, n) ==
  IF Len(a.elts) = a.room
  THEN [elts |-> Append(a.elts, n), room |-> 2 * a.room, moves |-> a.moves + 1]
  ELSE [a EXCEPT !.elts = Append(@, n)]

\* Where element i of the array of kind k is in memory.
Address(arrays, k, i) == <<k, arrays[k].moves, i>>

\* ngx_shared_memory_add: a second zone of a name shares its memory, and must
\* have its size.
Clashes(st, z) == z.name \in DOMAIN st.shm /\ st.shm[z.name].size # z.size

\* The handlers of the zone directives.
Declare(st, d) ==
  LET k == d.dir
      arrays == [st.arrays EXCEPT ![k] = Pushed(@, d.arg.name)]
      at == Address(arrays, k, Len(arrays[k].elts))
  IN  IF d.at # "http" \/ Clashes(st, d.arg) THEN Refuse(st)
      ELSE [st EXCEPT !.arrays = arrays,
                      !.shm = Overlay([n \in {d.arg.name} |->
                                         [size |-> d.arg.size, at |-> at]], @)]

\* The handlers of the other directives and nginx' slot functions.
Set(st, d) ==
  LET old == st.raw[d.at]
      new == Assigned(d)
      listed == [f \in DOMAIN new |->
                   new[f] \cup IF f \in DOMAIN old THEN old[f] ELSE {}]
  IN  IF d.dir \in Adding THEN [st EXCEPT !.raw[d.at] = Overlay(listed, old)]
      ELSE IF d.dir \in Overwriting \/ DOMAIN new \cap DOMAIN old = {}
      THEN [st EXCEPT !.raw[d.at] = Overlay(new, old)]
      ELSE Refuse(st)

Handle(st, d) ==
  IF ~st.ok \/ d.arg = Bad THEN Refuse(st)
  ELSE IF d.dir \in ZoneKinds THEN Declare(st, d) ELSE Set(st, d)

\* The directives are read one after the other.
Parsed(text) ==
  LET st[n \in 0 .. Len(text)] ==
        IF n = 0 THEN Empty ELSE Handle(st[n - 1], text[n])
  IN  st[Len(text)]

-----------------------------------------------------------------------------
(* The merge *)

Defaults ==
  [sentinel |-> FALSE, shadow |-> TRUE, fail |-> "open",
   challenge |-> 30, tarpit |-> 60, block |-> 80,
   weight_errrate |-> 1, weight_blocked |-> 100, weight_scanner |-> 50,
   weight_bot |-> 30, weight_header |-> 25, weight_honeypot |-> 90,
   weight_velocity |-> 30, weight_asn |-> 35, weight_coherence |-> 40,
   weight_ja3 |-> 80, weight_ja4 |-> 50, weight_ja4t |-> 45,
   weight_c2ip |-> 80, weight_crowdsec |-> 100,
   honeypot |-> {}, allowlist |-> {}, asn |-> None, datacenter_asn |-> {},
   c2ip_tree |-> {}, c2ip_tree6 |-> {}, ja3 |-> None, ja3_deny |-> {},
   ja4 |-> None, ja4_deny |-> {}, ja4t |-> None, ja4t_deny |-> {},
   velocity |-> None, fcrdns |-> None, fcrdns_ttl |-> 3600,
   fcrdns_verify_suffix |-> {},
   crowdsec_feed |-> None, crowdsec_interval |-> 10,
   crowdsec_default_ttl |-> 3600, crowdsec_stale_after |-> 600,
   crowdsec_max_bytes |-> 16777216,
   redis_host |-> None, redis_port |-> 6379, redis_push_zone |-> None,
   redis_interval |-> 10, redis_ttl |-> 3600,
   cs_sink_path |-> None, cs_sink_zone |-> None,
   cs_sink_interval |-> 10, cs_sink_ttl |-> 3600,
   tarpit_max_conns |-> 256, tarpit_delay |-> 5000, tarpit_bytes |-> 1024,
   tarpit_max_lifetime |-> 30000, tarpit_maze |-> FALSE,
   block_status |-> 403, block_ttl |-> 0, throttle_rate |-> 0,
   shield |-> FALSE,
   pow |-> FALSE, pow_secret |-> None, pow_difficulty |-> 16,
   pow_ttl |-> 3600]

\* ngx_sentinel_commands, named without the prefix sentinel_: most directives
\* have the name of the field that they set.  sentinel_status, which only
\* installs the metrics' content handler, is left out.
Commands ==
  (DOMAIN Defaults \
     {"shadow", "challenge", "tarpit", "block", "c2ip_tree", "c2ip_tree6",
      "redis_host", "redis_port", "redis_push_zone", "cs_sink_zone"})
  \cup ZoneKinds
  \cup {"mode", "threshold", "c2ip_deny", "redis", "redis_password",
        "redis_prefix", "cs_sink_scenario"}

\* A directive that nginx' parser hands to the module.
Directive(d) ==
  /\ d.at \in Levels
  /\ d.dir \in Commands
  /\ d.arg # Bad =>
       /\ d.dir = "threshold" =>
            DOMAIN d.arg \subseteq {"challenge", "tarpit", "block"}
       /\ d.dir = "c2ip_deny" =>
            DOMAIN d.arg \subseteq {"c2ip_tree", "c2ip_tree6"}

\* A file: a finite sequence of them.
IsFile(text) ==
  /\ text \in Seq(ToSet(text))
  /\ \A i \in DOMAIN text : Directive(text[i])

ScoreMax == 100000

\* The ranges that are checked after the merge, some only where the feature is
\* on.
BansInRange(c) ==
  /\ c.weight_crowdsec \in 0 .. ScoreMax
  /\ c.crowdsec_interval \in 1 .. 3600
  /\ c.crowdsec_default_ttl \in 60 .. 86400
  /\ c.crowdsec_stale_after \in 30 .. 86400
  /\ c.crowdsec_max_bytes \in 4096 .. 67108864
  /\ c.redis_host # None =>
       c.redis_interval \in 1 .. 3600 /\ c.redis_ttl \in 60 .. 86400
  /\ c.cs_sink_path # None =>
       c.cs_sink_interval \in 1 .. 3600 /\ c.cs_sink_ttl \in 60 .. 86400

TarpitInRange(c) ==
  /\ c.tarpit_max_conns \in 0 .. 65536
  /\ c.tarpit_delay \in 100 .. 60000
  /\ c.tarpit_bytes \in 1 .. 65536
  /\ c.tarpit_max_lifetime \in 1000 .. 600000

BlockInRange(c) == c.block_status \in 400 .. 599 /\ c.block_ttl \in Nat

PowInRange(c) == c.pow_difficulty \in 1 .. 32 /\ c.pow_ttl \in Nat \ {0}

InRange(c) ==
  BansInRange(c) /\ TarpitInRange(c) /\ BlockInRange(c) /\ PowInRange(c)

\* The first element of kind k that is named n, or None.
Named(arrays, k, n) ==
  LET at == {i \in DOMAIN arrays[k].elts : arrays[k].elts[i] = n}
  IN  IF at = {} THEN None ELSE Address(arrays, k, Min(at))

First(arrays, k) ==
  IF arrays[k].elts = << >> THEN None ELSE Address(arrays, k, 1)

\* Pulled bans and the feed go to the CrowdSec zone.
NeedsBans(c) == c.crowdsec_feed # None \/ c.redis_host # None

\* The zones that the merged fields c are bound to.
Bindings(arrays, c) ==
  [zone |-> First(arrays, "zone"),
   vel_zone |-> Named(arrays, "velocity_zone", c.velocity),
   fcrdns_zone |-> Named(arrays, "fcrdns_zone", c.fcrdns),
   cs_zone |-> IF NeedsBans(c) THEN First(arrays, "crowdsec_zone") ELSE None]

\* A name must be that of a zone, and bans need a table.
Resolves(c) ==
  /\ c.velocity # None => c.vel_zone # None
  /\ c.fcrdns # None => c.fcrdns_zone # None
  /\ NeedsBans(c) => c.cs_zone # None

\* A field comes from the block itself, or from what its parent has of it, or
\* is the default.  The directives of a ring set all its fields, so these are
\* inherited together.
Inherit(child, parent) == Overlay(child, Overlay(parent, Defaults))

\* ngx_sentinel_merge_loc_conf for a block with the fields own.
MergeBlock(arrays, own, parent) ==
  LET c == Inherit(own, parent)
  IN  Overlay(Bindings(arrays, c), c)

\* The interval of the CrowdSec zone: every block that is bound to the zone
\* writes its own, so the last one counts.
ZoneInterval(conf) ==
  LET bound == SelectSeq(MergeOrder, LAMBDA l : conf[l].cs_zone # None)
  IN  IF bound = << >> THEN 0 ELSE conf[Last(bound)].crowdsec_stale_after

Merged(st) ==
  LET server == MergeBlock(st.arrays, st.raw["server"], st.raw["http"])
      conf == [l \in ToSet(MergeOrder) |->
                 IF l = "server" THEN server
                 ELSE MergeBlock(st.arrays, st.raw[l], server)]
  IN  [ok |-> /\ st.ok
              /\ \A l \in ToSet(MergeOrder) : InRange(conf[l]) /\ Resolves(conf[l]),
       conf |-> conf,
       interval |-> ZoneInterval(conf)]

-----------------------------------------------------------------------------
(* The start of the cycle *)

Optional(l) == IF l = None THEN << >> ELSE <<l>>

\* The locations of a node.
Here(n) == Optional(Tree[n].exact) \o Optional(Tree[n].inclusive)

\* Mutant: the walk keeps to the nodes beside each other and does not go down
\* to the longer prefixes.
WalkFlat ==
  LET from[n \in 0 .. Len(Tree)] ==
        IF n = 0 THEN << >>
        ELSE Here(n) \o from[Tree[n].left] \o from[Tree[n].right]
  IN  from[Len(Tree)]

\* sentinel_feed_collect_loc, sentinel_redis_scan_loc, sentinel_cssink_scan_loc:
\* a node, then what is before, below and after it.
Walk ==
  LET from[n \in 0 .. Len(Tree)] ==
        IF n = 0 THEN << >>
        ELSE Here(n) \o from[Tree[n].left] \o from[Tree[n].tree]
                     \o from[Tree[n].right]
  IN  from[Len(Tree)]

\* sentinel_feed_add: feeds with the feed of configuration c, each pair of feed
\* and zone once.
FeedAdd(feeds, c) ==
  LET pair == <<c.crowdsec_feed, c.cs_zone>>
  IN  IF None \in {pair[1], pair[2]} \/ pair \in ToSet(feeds) THEN feeds
      ELSE Append(feeds, pair)

\* The feeds that sentinel_feed_collect finds.
Collected(conf) ==
  LET feeds[n \in 0 .. Len(Walk)] ==
        IF n = 0 THEN << >> ELSE FeedAdd(feeds[n - 1], conf[Walk[n]])
  IN  feeds[Len(Walk)]

\* sentinel_crowdsec_init_process: a timer for each, as far as there are timers.
Feeds(conf) ==
  SubSeq(Collected(conf), 1, Min({Len(Collected(conf)), FeedTimers}))

\* The first block, server or static location, that has field f, or None:
\* sentinel_redis_find_loc and sentinel_cssink_find_loc.
Armed(conf, f) ==
  LET blocks == <<"server">> \o Walk
      having == {i \in DOMAIN blocks : conf[blocks[i]][f] # None}
  IN  IF having = {} THEN None ELSE conf[blocks[Min(having)]][f]

\* The cycle that starts from the merged configuration m; live: the elements
\* that sentinel_shm_init_zone connects to the shared memory.
Started(shm, m) ==
  IF ~m.ok THEN [ok |-> FALSE]
  ELSE [ok |-> TRUE,
        conf |-> m.conf,
        interval |-> m.interval,
        live |-> {shm[n].at : n \in DOMAIN shm}]

\* What a file comes to.
Load(text) ==
  LET st == Parsed(text)
  IN  Started(st.shm, Merged(st))

\* ngx_sentinel_init_process: what the timers of cycle o serve.
Timers(o) == [feeds |-> Feeds(o.conf),
              push |-> Armed(o.conf, "redis_push_zone"),
              sink |-> Armed(o.conf, "cs_sink_zone")]

-----------------------------------------------------------------------------
(* What a loaded file promises *)

\* Where text has directive d.
Places(text, d) == {i \in DOMAIN text : text[i].dir = d}

\* The bindings of the blocks of cycle o are zones that work, unless the file
\* declares more zones of the kind than its array had room for, or the same name
\* twice: then shm->data points at an element that the merge does not use, and
\* the zone silently fails open.
ZonesLive(text, o) ==
  LET crowded(k) == Cardinality(Places(text, k)) > Capacity[k]
      twice == \E i, j \in DOMAIN text :
                 /\ i # j /\ {text[i].dir, text[j].dir} \subseteq ZoneKinds
                 /\ text[i].arg.name = text[j].arg.name
      sound(z) == z = None \/ z \in o.live \/ crowded(z[1]) \/ twice
  IN  o.ok => \A l \in ToSet(MergeOrder) :
                /\ sound(o.conf[l].zone)
                /\ sound(o.conf[l].vel_zone)
                /\ sound(o.conf[l].fcrdns_zone)
                /\ sound(o.conf[l].cs_zone)

\* The exact and prefix locations of the server, wherever in the tree they are.
Static ==
  {l \in ToSet(Locs) :
     \E n \in DOMAIN Tree : l \in {Tree[n].exact, Tree[n].inclusive}}

\* What the timers of cycle o serve, said without the walk: each feed of a
\* static location once, none else, and as many of them as there are timers;
\* one ring and one sink of the server or a static location, if any of these
\* has one.  The comment of sentinel_crowdsec_init_process says more, "walk every
\* http loc-conf": of a regex, named or nested location the feed is loaded only
\* if a static one has it too.
TimersExact(o) ==
  LET feed(l) == <<o.conf[l].crowdsec_feed, o.conf[l].cs_zone>>
      wanted == {feed(l) : l \in {m \in Static : o.conf[m].crowdsec_feed # None}}
      had(f) == {o.conf[l][f] : l \in {"server"} \cup Static} \ {None}
      one(x, f) == IF had(f) = {} THEN x = None ELSE x \in had(f)
      t == Timers(o)
  IN  o.ok => /\ IsInjective(t.feeds)
              /\ ToSet(t.feeds) \subseteq wanted
              /\ Len(t.feeds) = Min({Cardinality(wanted), FeedTimers})
              /\ one(t.push, "redis_push_zone")
              /\ one(t.sink, "cs_sink_zone")
=============================================================================
