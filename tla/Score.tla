------------------------------- MODULE Score -------------------------------
(***************************************************************************)
(* The score of a request and its verdict: sentinel_score.c.  The inputs   *)
(* are what the signals of get_ctx found; the score is a saturating sum of *)
(* weights, unless an allowlist brings it to 0.                            *)
(***************************************************************************)
EXTENDS Integers

CONSTANTS
  ScoreMax,    \* NGX_SENTINEL_SCORE_MAX
  Weight,      \* Weight[s]: the weight of signal s
  Threshold    \* Threshold[v]: the least score for verdict v

\* The signals that are either raised or not, in the order of their terms.
Flags ==
  {"blocked", "scanner", "bot", "header", "honeypot", "velocity", "asn",
   "c2ip", "ja3", "ja4", "ja4t", "coherence"}

\* What a CrowdSec lookup finds.
CsActions == {"none", "captcha", "throttle", "ban"}

\* raised: the flags that are up; count: errrate_count; cs: the action of a
\* CrowdSec hit, if any; good, spoofed and allowed: known_good_ua,
\* fcrdns_spoofed and allowlisted.
Inputs ==
  [raised : SUBSET Flags, count : Nat, cs : CsActions,
   good : BOOLEAN, spoofed : BOOLEAN, allowed : BOOLEAN]

ASSUME ScoreAssumption ==
  /\ ScoreMax \in Nat \ {0}
  /\ Weight \in [Flags \cup {"errrate", "crowdsec"} -> Nat]
  /\ Weight["crowdsec"] <= ScoreMax
  /\ Threshold \in [{"challenge", "tarpit", "block"} -> Nat]

-----------------------------------------------------------------------------
\* sentinel_score_add
Add(acc, points) ==
  IF points <= 0 THEN acc
  ELSE IF points > ScoreMax - acc THEN ScoreMax ELSE acc + points

Scores == 0 .. ScoreMax

Term(in, s) == IF s \in in.raised THEN Weight[s] ELSE 0

\* The error count is weighed without overflow.
ErrRateTerm(in) ==
  LET w == Weight["errrate"]
  IN  IF w = 0 \/ in.count = 0 THEN 0
      ELSE IF in.count > ScoreMax \div w THEN ScoreMax ELSE w * in.count

\* CrowdSec's weaker actions count for a part of the weight.
CrowdsecTerm(in) ==
  LET w == Weight["crowdsec"]
  IN  CASE in.cs = "none"     -> 0
        [] in.cs = "captcha"  -> (w * 40) \div 100
        [] in.cs = "throttle" -> (w * 65) \div 100
        [] in.cs = "ban"      -> w

\* Mutant: a crawler's name lifts a CrowdSec ban.
PardonedByName(in) ==
  \/ in.cs = "none" /\ in.allowed
  \/ in.good /\ ~in.spoofed

\* Who is let through whatever the weights say: claimed crawlers that reverse
\* DNS has not disproved and allowlisted networks, but nobody with a CrowdSec
\* decision against him.
Pardoned(in) ==
  /\ in.cs = "none"
  /\ \/ in.allowed
     \/ in.good /\ ~in.spoofed

\* The weighted sum, term by term: what the zones know of the client, what he
\* says of himself, what he does, where he comes from and what his TLS stack
\* looks like, and last CrowdSec.
ZoneSum(in) == Add(Add(0, ErrRateTerm(in)), Term(in, "blocked"))

ClientSum(in) ==
  Add(Add(Add(ZoneSum(in), Term(in, "scanner")), Term(in, "bot")),
      Term(in, "header"))

ConductSum(in) ==
  Add(Add(ClientSum(in), Term(in, "honeypot")), Term(in, "velocity"))

NetworkSum(in) == Add(Add(ConductSum(in), Term(in, "asn")), Term(in, "c2ip"))

PrintSum(in) ==
  Add(Add(Add(NetworkSum(in), Term(in, "ja3")), Term(in, "ja4")),
      Term(in, "ja4t"))

Sum(in) == Add(Add(PrintSum(in), Term(in, "coherence")), CrowdsecTerm(in))

\* sentinel_score_compute
Compute(in) == IF Pardoned(in) THEN 0 ELSE Sum(in)

\* sentinel_score_to_verdict: the harshest band that the score reaches.
ToVerdict(score) ==
  IF score >= Threshold["block"] THEN "block"
  ELSE IF score >= Threshold["tarpit"] THEN "tarpit"
  ELSE IF score >= Threshold["challenge"] THEN "challenge"
  ELSE "allow"

Verdict(in) == ToVerdict(Compute(in))
=============================================================================
