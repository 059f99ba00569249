------------------------------ MODULE Signals ------------------------------
(***************************************************************************)
(* What ngx_sentinel_get_ctx finds in a request: the signals that are read *)
(* off its text, its address and the variables of other modules.  The      *)
(* inputs and the score they give are those of module Score.               *)
(***************************************************************************)
EXTENDS Config

\* A request: ua is None or which of the lists its User-Agent has a name of,
\* with "short" for one of less than 5 characters; headers are the header lines
\* that the signals ask for; asn, ja3, ja4 and ja4t are the values of the
\* operator's variables, None where such a variable is empty.  Its path is the
\* set of the prefixes in the lists of paths that it begins with.
UaMarks == {"short", "good", "bad", "browser"}

HeaderLines ==
  {"host", "second host", "accept", "empty accept", "accept-language", "gzip",
   "content-length", "transfer-encoding"}

\* sentinel_errrate_is_scanner_path
ScannerPaths == {"/.env", "/.git", "/wp-login", "/wp-admin", "/.aws", "/phpinfo"}

Scanner(path) == path \cap ScannerPaths # {}

\* sentinel_botua_signal: a known crawler's name goes before a scanner's.
KnownGood(q) ==
  q.ua # None /\ "short" \notin q.ua /\ "good" \in q.ua

Bot(q) ==
  \/ q.ua = None
  \/ "short" \in q.ua
  \/ "bad" \in q.ua /\ ~KnownGood(q)

\* sentinel_header_signal
HeaderAnomaly(q) ==
  \/ q.version = 11 /\ "host" \notin q.headers
  \/ {"content-length", "transfer-encoding"} \subseteq q.headers
  \/ "second host" \in q.headers
  \/ q.ua = None /\ q.headers \cap {"accept", "empty accept"} = {}

\* sentinel_coherence_signal: a browser that does not send all of what every
\* browser sends.
Incoherent(q) ==
  /\ q.ua # None /\ "browser" \in q.ua
  /\ \/ ~({"accept", "accept-language", "gzip"} \subseteq q.headers)
     \/ q.version < 11

\* sentinel_honeypot_signal
Honeypot(path, c) == path \cap c.honeypot # {}

\* sentinel_allowlist_signal
Allowlisted(addr, c) == addr \in c.allowlist

\* sentinel_c2ip_signal: the tree of the address' own family
Flagged(addr, family, c) ==
  \/ family = "v4" /\ addr \in c.c2ip_tree
  \/ family = "v6" /\ addr \in c.c2ip_tree6

\* sentinel_asn_signal and the fingerprint signals: a source, a list and a
\* value that is in it.
Listed(source, list, value) == source # None /\ value # None /\ value \in list

Lists(q, c) ==
  {s \in {"asn", "ja3", "ja4", "ja4t"} :
     CASE s = "asn"  -> Listed(c.asn, c.datacenter_asn, q.asn)
       [] s = "ja3"  -> Listed(c.ja3, c.ja3_deny, q.ja3)
       [] s = "ja4"  -> Listed(c.ja4, c.ja4_deny, q.ja4)
       [] s = "ja4t" -> Listed(c.ja4t, c.ja4t_deny, q.ja4t)}

\* What the zones know of a client: count and blocked in the error-rate zone,
\* velocity in the velocity zone, cs in the CrowdSec zone, spoofed in the
\* verdict cache.
Known == [count |-> 0, blocked |-> FALSE, velocity |-> FALSE, cs |-> "none",
          spoofed |-> FALSE]

\* The lookups of configuration c, of which the zones in live work; a zone that
\* does not, and one that is not bound, fails open.
Lookups(c, live, k) ==
  LET at(zone, field) == IF zone \in live THEN k[field] ELSE Known[field]
  IN  [count |-> at(c.zone, "count"), blocked |-> at(c.zone, "blocked"),
       velocity |-> at(c.vel_zone, "velocity"), cs |-> at(c.cs_zone, "cs"),
       spoofed |-> at(c.fcrdns_zone, "spoofed")]

\* The inputs that ngx_sentinel_get_ctx gathers for request q from addr with
\* the given path, under configuration c, when the zones know k.
Gathered(q, addr, family, path, c, live, k) ==
  LET z == Lookups(c, live, k)
  IN  [raised |->
         {s \in {"blocked", "scanner", "bot", "header", "honeypot",
                 "velocity", "c2ip", "coherence"} :
            CASE s = "blocked"   -> z.blocked
              [] s = "scanner"   -> Scanner(path)
              [] s = "bot"       -> Bot(q)
              [] s = "header"    -> HeaderAnomaly(q)
              [] s = "honeypot"  -> Honeypot(path, c)
              [] s = "velocity"  -> z.velocity
              [] s = "c2ip"      -> Flagged(addr, family, c)
              [] s = "coherence" -> Incoherent(q)}
         \cup Lists(q, c),
       count |-> z.count,
       cs |-> z.cs,
       good |-> KnownGood(q),
       spoofed |-> KnownGood(q) /\ z.spoofed,
       allowed |-> Allowlisted(addr, c)]

-----------------------------------------------------------------------------
\* The weights and thresholds of configuration c.
Weights(c) ==
  [errrate |-> c.weight_errrate, blocked |-> c.weight_blocked,
   scanner |-> c.weight_scanner, bot |-> c.weight_bot,
   header |-> c.weight_header, honeypot |-> c.weight_honeypot,
   velocity |-> c.weight_velocity, asn |-> c.weight_asn,
   c2ip |-> c.weight_c2ip, ja3 |-> c.weight_ja3, ja4 |-> c.weight_ja4,
   ja4t |-> c.weight_ja4t, coherence |-> c.weight_coherence,
   crowdsec |-> c.weight_crowdsec]

Bands(c) ==
  [challenge |-> c.challenge, tarpit |-> c.tarpit, block |-> c.block]

Scoring(c) ==
  INSTANCE Score WITH Weight <- Weights(c), Threshold <- Bands(c)
=============================================================================
