--------------------------- MODULE MCRequestPath ---------------------------
(* Model-checking instances of RequestPath. *)
EXTENDS RequestPath

D(at, dir, arg) == [at |-> at, dir |-> dir, arg |-> arg]

Zone(kind, name, size) == D("http", kind, [name |-> name, size |-> size])

\* A regex location is in no tree of static locations.
MCLocs == <<"app", "admin", "regex", "exact", "api", "blog">>

Leaf(l) ==
  [exact |-> None, inclusive |-> l, left |-> 0, tree |-> 0, right |-> 0]

\* /admin before, /app/api below and /blog after /app, which is also an exact
\* location.
MCTree ==
  <<Leaf("admin"), Leaf("api"), Leaf("blog"),
    [exact |-> "exact", inclusive |-> "app", left |-> 1, tree |-> 2, right |-> 3]>>

\* ngx_array_create in the handlers of the zone directives
MCCapacity ==
  [zone |-> 4, velocity_zone |-> 2, crowdsec_zone |-> 2, fcrdns_zone |-> 2]

-----------------------------------------------------------------------------
(* Drafts *)

Declarations ==
  <<Zone("crowdsec_zone", "c1", 1), Zone("crowdsec_zone", "c2", 1),
    Zone("crowdsec_zone", "c3", 1), Zone("crowdsec_zone", "c1", 2),
    Zone("velocity_zone", "v1", 1), Zone("velocity_zone", "c1", 1)>>

Settings ==
  <<D("http", "crowdsec_feed", "f1"), D("admin", "crowdsec_feed", "f1"),
    D("app", "crowdsec_feed", "f2"), D("server", "redis", [host |-> "r1", port |-> None]),
    D("app", "redis", [host |-> "r2", port |-> None]),
    D("regex", "cs_sink_path", "s1"), D("app", "cs_sink_path", "s1"),
    D("server", "cs_sink_path", "s1"), D("app", "velocity", "v1"),
    D("app", "crowdsec_stale_after", 3), D("app", "crowdsec_feed", Bad),
    D("api", "crowdsec_feed", "f3"), D("blog", "cs_sink_path", "s2"),
    D("regex", "crowdsec_feed", "f4")>>

Choose(seq, picks) == [i \in DOMAIN picks |-> seq[picks[i]]]

\* Up to three declarations with a feed, or one zone of each kind with up to
\* four settings.
ZoneFiles ==
  LET picks == UNION {[1 .. n -> DOMAIN Declarations] : n \in 0 .. 3}
  IN  picks \X {<< >>, <<1>>, <<9>>, <<1, 9>>}

SettingFiles ==
  LET picks == {p \in UNION {[1 .. n -> DOMAIN Settings] : n \in 0 .. 4} :
                  \A i, j \in DOMAIN p : i < j => p[i] < p[j]}
  IN  {<<1, 5>>} \X picks

MCDrafts ==
  [p \in ZoneFiles \cup SettingFiles |->
     Choose(Declarations, p[1]) \o Choose(Settings, p[2])]

-----------------------------------------------------------------------------
(* Files *)

Common ==
  <<Zone("zone", "z", 1), Zone("velocity_zone", "v", 1),
    Zone("crowdsec_zone", "c", 1), Zone("fcrdns_zone", "d", 1),
    D("http", "sentinel", TRUE), D("http", "mode", "enforce"),
    D("server", "pow", TRUE), D("server", "pow_secret", "s1"),
    D("server", "pow_ttl", 3), D("server", "pow_difficulty", 16),
    D("server", "honeypot", {"/trap"}), D("server", "velocity", "v"),
    D("server", "fcrdns", "d"), D("server", "crowdsec_feed", "f")>>

\* The admin location has a shorter cookie and a harder challenge; in the
\* second file another secret, and the third does not load.
MCFiles ==
  <<Common \o
      <<D("app", "throttle_rate", 1000), D("admin", "pow_ttl", 2),
        D("admin", "pow_difficulty", 20), D("admin", "block_status", 444),
        D("regex", "sentinel", FALSE)>>,
    Common \o
      <<D("app", "mode", "shadow"), D("admin", "pow_secret", "s2"),
        D("admin", "tarpit_max_conns", 0), D("admin", "allowlist", {"a2"}),
        D("admin", "threshold", [challenge |-> 20]),
        D("regex", "shield", TRUE)>>,
    Append(Common, D("app", "threshold", Bad))>>

\* A reload makes a difference.
ASSUME FilesDiffer ==
  \A f, g \in Accepted : Loaded[f].conf = Loaded[g].conf => f = g

MCAddrs == [a1 |-> "v4", a2 |-> "v6"]

Human ==
  [ua |-> {"browser"}, version |-> 11,
   headers |-> {"host", "accept", "accept-language", "gzip"},
   asn |-> None, ja3 |-> None, ja4 |-> None, ja4t |-> None]

MCShapes ==
  {[Human EXCEPT !.ua = {"good"}],
   [Human EXCEPT !.headers = {"host"}]}

MCKnowledge ==
  {Known, [Known EXCEPT !.count = 40, !.cs = "ban"],
   [Known EXCEPT !.spoofed = TRUE, !.velocity = TRUE]}

Route(loc) ==
  [reads |-> {}, via |-> loc, viaPath |-> {}, to |-> loc, toPath |-> {},
   redirect |-> None]

\* A rewrite in app that reads a variable sends an old path on to admin; index
\* is served by app through an internal redirect to admin; the server's rules
\* read a variable for what the regex location serves, through one to app.
MCRoutes ==
  [old   |-> [Route("admin") EXCEPT !.via = "app", !.viaPath = {"/trap"},
                                    !.reads = {"location"}],
   index |-> [Route("app") EXCEPT !.redirect = "admin"],
   regex |-> [Route("regex") EXCEPT !.reads = {"server"},
                                     !.redirect = "app"]]
=============================================================================
