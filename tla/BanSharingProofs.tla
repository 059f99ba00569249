-------------------------- MODULE BanSharingProofs --------------------------
(***************************************************************************)
(* Theorems about Score and BanSharing, for any weights, thresholds, boxes *)
(* and clients.                                                            *)
(***************************************************************************)
EXTENDS BanSharing, TLAPS, SequenceTheorems

\* sentinel_score_add saturates: it stays in range, never lowers the score and
\* yields at least the term, unless the term exceeds the range.
LEMMA AddSaturates ==
  ASSUME NEW a \in Scores, NEW t \in Int
  PROVE  /\ Add(a, t) \in Scores
         /\ Add(a, t) >= a
         /\ t <= ScoreMax => Add(a, t) >= t
<1>1. ScoreMax \in Nat
  BY ScoreAssumption
<1>2. a \in Int /\ 0 <= a /\ a <= ScoreMax
  BY <1>1 DEF Scores
<1>3. CASE t <= 0
  <2>1. Add(a, t) = a
    BY <1>3 DEF Add
  <2> QED
    BY <2>1, <1>1, <1>2, <1>3 DEF Scores
<1>4. CASE t > ScoreMax - a /\ ~(t <= 0)
  <2>1. Add(a, t) = ScoreMax
    BY <1>4 DEF Add
  <2> QED
    BY <2>1, <1>1, <1>2 DEF Scores
<1>5. CASE ~(t > ScoreMax - a) /\ ~(t <= 0)
  <2>1. Add(a, t) = a + t
    BY <1>5 DEF Add
  <2> QED
    BY <2>1, <1>1, <1>2, <1>5 DEF Scores
<1> QED
  BY <1>3, <1>4, <1>5

\* The terms that sentinel_score_compute adds up are natural numbers.
LEMMA TermsAreNatural ==
  ASSUME NEW in \in Inputs
  PROVE  /\ ErrRateTerm(in) \in Nat
         /\ \A s \in Flags : Term(in, s) \in Nat
         /\ CrowdsecTerm(in) \in Nat
<1>1. \A s \in Flags \cup {"errrate", "crowdsec"} : Weight[s] \in Nat
  BY ScoreAssumption
<1>2. \A s \in Flags : Term(in, s) \in Nat
  BY <1>1 DEF Term
<1>3. ErrRateTerm(in) \in Nat
  <2> DEFINE w == Weight["errrate"]
  <2>1. w \in Nat /\ in.count \in Nat /\ ScoreMax \in Nat
    BY <1>1, ScoreAssumption DEF Inputs
  <2>2. w * in.count \in Nat
    BY <2>1
  <2> QED
    BY <2>1, <2>2 DEF ErrRateTerm
<1>4. CrowdsecTerm(in) \in Nat
  <2> DEFINE w == Weight["crowdsec"]
  <2>1. w \in Nat
    BY <1>1
  <2>2. (w * 40) \div 100 \in Nat /\ (w * 65) \div 100 \in Nat
    BY <2>1
  <2>3. in.cs \in CsActions
    BY DEF Inputs
  <2> QED
    BY <2>1, <2>2, <2>3 DEF CrowdsecTerm, CsActions
<1> QED
  BY <1>2, <1>3, <1>4

\* The sum stays in range and is at least the CrowdSec term.
LEMMA SumInRange ==
  ASSUME NEW in \in Inputs
  PROVE  /\ Sum(in) \in Scores
         /\ CrowdsecTerm(in) <= ScoreMax => Sum(in) >= CrowdsecTerm(in)
<1>1. /\ ErrRateTerm(in) \in Int
      /\ \A s \in Flags : Term(in, s) \in Int
      /\ CrowdsecTerm(in) \in Int
  BY TermsAreNatural
<1>2. Flags = {"blocked", "scanner", "bot", "header", "honeypot", "velocity",
               "asn", "c2ip", "ja3", "ja4", "ja4t", "coherence"}
  BY DEF Flags
<1>3. ZoneSum(in) \in Scores
  <2>1. 0 \in Scores
    BY ScoreAssumption DEF Scores
  <2>. QED
    BY <1>1, <1>2, <2>1, AddSaturates DEF ZoneSum
<1>4. ClientSum(in) \in Scores
  BY <1>1, <1>2, <1>3, AddSaturates DEF ClientSum
<1>5. ConductSum(in) \in Scores
  BY <1>1, <1>2, <1>4, AddSaturates DEF ConductSum
<1>6. NetworkSum(in) \in Scores
  BY <1>1, <1>2, <1>5, AddSaturates DEF NetworkSum
<1>7. PrintSum(in) \in Scores
  BY <1>1, <1>2, <1>6, AddSaturates DEF PrintSum
<1>8. Add(PrintSum(in), Term(in, "coherence")) \in Scores
  BY <1>1, <1>2, <1>7, AddSaturates
<1>. QED
  BY <1>1, <1>8, AddSaturates DEF Sum

\* score.c: the score of any request stays within NGX_SENTINEL_SCORE_MAX,
\* whatever the operator's weights.
THEOREM ScoreInRange ==
  ASSUME NEW in \in Inputs
  PROVE  Compute(in) \in 0 .. ScoreMax
BY SumInRange, ScoreAssumption DEF Compute, Scores

\* x, held at the top of the range.
Capped(x) == IF x > ScoreMax THEN ScoreMax ELSE x

\* The true sum of the terms: no saturation and no bound on the integers.
Total(in) ==
  (((((((((((((Weight["errrate"] * in.count + Term(in, "blocked"))
    + Term(in, "scanner")) + Term(in, "bot")) + Term(in, "header"))
    + Term(in, "honeypot")) + Term(in, "velocity")) + Term(in, "asn"))
    + Term(in, "c2ip")) + Term(in, "ja3")) + Term(in, "ja4"))
    + Term(in, "ja4t")) + Term(in, "coherence")) + CrowdsecTerm(in))

\* sentinel_score_add on a capped sum yields the capped sum.
LEMMA AddCapped ==
  ASSUME NEW x \in Nat, NEW p \in Nat
  PROVE  /\ x + p \in Nat
         /\ Add(Capped(x), p) = Capped(x + p)
<1>1. ScoreMax \in Nat
  BY ScoreAssumption
<1>2. CASE x > ScoreMax
  <2>1. Capped(x) = ScoreMax /\ Capped(x + p) = ScoreMax
    BY <1>1, <1>2 DEF Capped
  <2>2. Add(ScoreMax, p) = ScoreMax
    BY <1>1 DEF Add
  <2> QED
    BY <2>1, <2>2
<1>3. CASE x <= ScoreMax
  <2>1. Capped(x) = x
    BY <1>1, <1>3 DEF Capped
  <2>2. Add(x, p) = Capped(x + p)
    BY <1>1, <1>3 DEF Add, Capped
  <2> QED
    BY <2>1, <2>2
<1> QED
  BY <1>1, <1>2, <1>3

\* The division that guards the product of count and weight answers exactly
\* whether the product exceeds the range.
LEMMA ErrRateTermCapped ==
  ASSUME NEW in \in Inputs
  PROVE  /\ Weight["errrate"] * in.count \in Nat
         /\ ErrRateTerm(in) = Capped(Weight["errrate"] * in.count)
<1>1. ScoreMax \in Nat /\ Weight["errrate"] \in Nat /\ in.count \in Nat
  BY ScoreAssumption DEF Inputs
<1>2. PICK w \in Nat : w = Weight["errrate"]
  BY <1>1
<1>3. PICK c \in Nat : c = in.count
  BY <1>1
<1>4. PICK m \in Nat : m = ScoreMax
  BY <1>1
<1>5. w * c \in Nat
  BY SMT
<1>6. CASE w = 0 \/ c = 0
  <2>1. w * c = 0
    BY <1>6
  <2>2. Capped(0) = 0
    BY <1>1 DEF Capped
  <2> QED
    BY <1>2, <1>3, <1>5, <1>6, <2>1, <2>2 DEF ErrRateTerm
<1>7. CASE w # 0 /\ c # 0
  <2>1. PICK q \in Nat : q = m \div w
    BY <1>7
  <2>2. w * q <= m /\ m < w * (q + 1)
    BY <1>7, <2>1
  <2>3. ErrRateTerm(in) = IF c > q THEN m ELSE w * c
    BY <1>2, <1>3, <1>4, <1>7, <2>1 DEF ErrRateTerm
  <2>4. CASE c > q
    <3>1. PICK d \in Nat : c = q + 1 + d
      <4>1. c - (q + 1) \in Nat /\ c = q + 1 + (c - (q + 1))
        BY <2>4
      <4> QED
        BY <4>1
    <3>2. w * c = w * (q + 1) + w * d /\ w * d \in Nat /\ w * (q + 1) \in Nat
      BY <3>1
    <3>3. w * c > m
      BY <2>2, <3>2
    <3> QED
      BY <1>2, <1>3, <1>4, <1>5, <2>3, <2>4, <3>3 DEF Capped
  <2>5. CASE c <= q
    <3>1. PICK d \in Nat : q = c + d
      <4>1. q - c \in Nat /\ q = c + (q - c)
        BY <2>5
      <4> QED
        BY <4>1
    <3>2. w * q = w * c + w * d /\ w * d \in Nat
      BY <3>1
    <3>3. w * c <= m
      BY <1>5, <2>2, <3>2
    <3> QED
      BY <1>2, <1>3, <1>4, <1>5, <2>3, <2>5, <3>3 DEF Capped
  <2> QED
    BY <2>4, <2>5
<1> QED
  BY <1>2, <1>3, <1>5, <1>6, <1>7

\* score.c: saturating at every addition, and dividing before it multiplies,
\* sentinel_score_compute arrives at the true sum capped once at the end: no
\* term is lost and no order of the terms matters, whatever the weights.
THEOREM SaturationLosesNothing ==
  ASSUME NEW in \in Inputs
  PROVE  Sum(in) = Capped(Total(in))
<1>1. \A s \in Flags : Term(in, s) \in Nat
  BY TermsAreNatural
<1>2. Flags = {"blocked", "scanner", "bot", "header", "honeypot", "velocity",
               "asn", "c2ip", "ja3", "ja4", "ja4t", "coherence"}
  BY DEF Flags
<1>3. PICK e \in Nat : e = Weight["errrate"] * in.count
  BY ErrRateTermCapped
<1>4. PICK e1 \in Nat : e1 = e + Term(in, "blocked")
  BY <1>1, <1>2
<1>5. ZoneSum(in) = Capped(e1)
  <2>1. Capped(0) = 0 /\ ErrRateTerm(in) \in Nat
    BY ScoreAssumption, TermsAreNatural DEF Capped
  <2>2. Add(0, ErrRateTerm(in)) = Capped(0 + ErrRateTerm(in))
    BY <2>1, AddCapped
  <2>3. Add(0, ErrRateTerm(in)) = Capped(e)
    <3>1. ErrRateTerm(in) = Capped(e)
      BY <1>3, ErrRateTermCapped
    <3>2. Capped(Capped(e)) = Capped(e)
      BY ScoreAssumption DEF Capped
    <3> QED
      BY <2>1, <2>2, <3>1, <3>2
  <2>4. Add(Capped(e), Term(in, "blocked")) = Capped(e1)
    BY <1>1, <1>2, <1>4, AddCapped
  <2> QED
    BY <2>3, <2>4 DEF ZoneSum
<1>6. PICK c \in Nat : /\ c = ((e1 + Term(in, "scanner")) + Term(in, "bot"))
                              + Term(in, "header")
                       /\ ClientSum(in) = Capped(c)
  <2>1. PICK x \in Nat : x = e1 + Term(in, "scanner")
    BY <1>1, <1>2
  <2>2. PICK y \in Nat : y = x + Term(in, "bot")
    BY <1>1, <1>2
  <2>3. PICK z \in Nat : z = y + Term(in, "header")
    BY <1>1, <1>2
  <2>4. Add(Capped(e1), Term(in, "scanner")) = Capped(x)
    BY <1>1, <1>2, <2>1, AddCapped
  <2>5. Add(Capped(x), Term(in, "bot")) = Capped(y)
    BY <1>1, <1>2, <2>2, AddCapped
  <2>6. Add(Capped(y), Term(in, "header")) = Capped(z)
    BY <1>1, <1>2, <2>3, AddCapped
  <2>7. ClientSum(in) = Capped(z)
    BY <1>5, <2>4, <2>5, <2>6 DEF ClientSum
  <2> QED
    BY <2>1, <2>2, <2>3, <2>7
<1>7. PICK d \in Nat : /\ d = (c + Term(in, "honeypot")) + Term(in, "velocity")
                       /\ ConductSum(in) = Capped(d)
  <2>1. PICK x \in Nat : x = c + Term(in, "honeypot")
    BY <1>1, <1>2
  <2>2. PICK y \in Nat : y = x + Term(in, "velocity")
    BY <1>1, <1>2
  <2>3. Add(Capped(c), Term(in, "honeypot")) = Capped(x)
    BY <1>1, <1>2, <2>1, AddCapped
  <2>4. Add(Capped(x), Term(in, "velocity")) = Capped(y)
    BY <1>1, <1>2, <2>2, AddCapped
  <2>5. ConductSum(in) = Capped(y)
    BY <1>6, <2>3, <2>4 DEF ConductSum
  <2> QED
    BY <2>1, <2>2, <2>5
<1>8. PICK n \in Nat : /\ n = (d + Term(in, "asn")) + Term(in, "c2ip")
                       /\ NetworkSum(in) = Capped(n)
  <2>1. PICK x \in Nat : x = d + Term(in, "asn")
    BY <1>1, <1>2
  <2>2. PICK y \in Nat : y = x + Term(in, "c2ip")
    BY <1>1, <1>2
  <2>3. Add(Capped(d), Term(in, "asn")) = Capped(x)
    BY <1>1, <1>2, <2>1, AddCapped
  <2>4. Add(Capped(x), Term(in, "c2ip")) = Capped(y)
    BY <1>1, <1>2, <2>2, AddCapped
  <2>5. NetworkSum(in) = Capped(y)
    BY <1>7, <2>3, <2>4 DEF NetworkSum
  <2> QED
    BY <2>1, <2>2, <2>5
<1>9. PICK p \in Nat : /\ p = ((n + Term(in, "ja3")) + Term(in, "ja4"))
                              + Term(in, "ja4t")
                       /\ PrintSum(in) = Capped(p)
  <2>1. PICK x \in Nat : x = n + Term(in, "ja3")
    BY <1>1, <1>2
  <2>2. PICK y \in Nat : y = x + Term(in, "ja4")
    BY <1>1, <1>2
  <2>3. PICK z \in Nat : z = y + Term(in, "ja4t")
    BY <1>1, <1>2
  <2>4. Add(Capped(n), Term(in, "ja3")) = Capped(x)
    BY <1>1, <1>2, <2>1, AddCapped
  <2>5. Add(Capped(x), Term(in, "ja4")) = Capped(y)
    BY <1>1, <1>2, <2>2, AddCapped
  <2>6. Add(Capped(y), Term(in, "ja4t")) = Capped(z)
    BY <1>1, <1>2, <2>3, AddCapped
  <2>7. PrintSum(in) = Capped(z)
    BY <1>8, <2>4, <2>5, <2>6 DEF PrintSum
  <2> QED
    BY <2>1, <2>2, <2>3, <2>7
<1>10. PICK x \in Nat : x = p + Term(in, "coherence")
  BY <1>1, <1>2
<1>11. Add(Capped(p), Term(in, "coherence")) = Capped(x)
  BY <1>1, <1>2, <1>10, AddCapped
<1>12. Add(Capped(x), CrowdsecTerm(in)) = Capped(x + CrowdsecTerm(in))
  BY TermsAreNatural, AddCapped
<1>13. Sum(in) = Capped(x + CrowdsecTerm(in))
  BY <1>9, <1>11, <1>12 DEF Sum
<1>14. Total(in) = x + CrowdsecTerm(in)
  BY <1>3, <1>4, <1>6, <1>7, <1>8, <1>9, <1>10, Zenon DEF Total
<1> QED
  BY <1>13, <1>14

\* A CrowdSec ban is blocked whatever else is known of the request, provided
\* the operator's weight for it reaches the block threshold.
LEMMA CrowdsecBanBlocks ==
  ASSUME NEW in \in Inputs, in.cs = "ban",
         Weight["crowdsec"] >= Threshold["block"]
  PROVE  Verdict(in) = "block"
<1>1. CrowdsecTerm(in) = Weight["crowdsec"]
  BY DEF CrowdsecTerm
<1>2. ~Pardoned(in)
  BY DEF Pardoned
<1>3. Compute(in) = Sum(in)
  BY <1>2 DEF Compute
<1>4. /\ Weight["crowdsec"] \in Nat /\ Weight["crowdsec"] <= ScoreMax
      /\ Threshold["block"] \in Nat
  BY ScoreAssumption
<1>5. Sum(in) >= Weight["crowdsec"] /\ Sum(in) \in Int
  BY <1>1, <1>4, SumInRange, ScoreAssumption DEF Scores
<1>6. Compute(in) >= Threshold["block"]
  BY <1>3, <1>4, <1>5
<1> QED
  BY <1>6 DEF Verdict, ToVerdict

-----------------------------------------------------------------------------
(* More evidence never helps a client. *)

\* How harsh a verdict and a CrowdSec action are.
Harshness ==
  [v \in {"allow", "challenge", "tarpit", "block"} |->
     CASE v = "allow" -> 0 [] v = "challenge" -> 1
       [] v = "tarpit" -> 2 [] v = "block" -> 3]

CsHarshness ==
  [a \in CsActions |->
     CASE a = "none" -> 0 [] a = "captcha" -> 1
       [] a = "throttle" -> 2 [] a = "ban" -> 3]

\* worse holds everything in against the client, and no excuse in does not
\* have.
AtLeastAsBad(worse, in) ==
  /\ in.raised \subseteq worse.raised
  /\ in.count <= worse.count
  /\ CsHarshness[in.cs] <= CsHarshness[worse.cs]
  /\ worse.allowed => in.allowed
  /\ worse.good => in.good
  /\ in.spoofed => worse.spoofed

\* Every term grows with the evidence.
LEMMA TermsGrow ==
  ASSUME NEW in \in Inputs, NEW worse \in Inputs, AtLeastAsBad(worse, in)
  PROVE  /\ \A s \in Flags : Term(in, s) <= Term(worse, s)
         /\ Weight["errrate"] * in.count <= Weight["errrate"] * worse.count
         /\ CrowdsecTerm(in) <= CrowdsecTerm(worse)
<1>1. \A s \in Flags : Term(in, s) <= Term(worse, s)
  <2>1. \A s \in Flags : Weight[s] \in Nat
    BY ScoreAssumption
  <2> QED
    BY <2>1 DEF Term, AtLeastAsBad
<1>2. Weight["errrate"] * in.count <= Weight["errrate"] * worse.count
  <2>1. PICK w \in Nat : w = Weight["errrate"]
    BY ScoreAssumption
  <2>2. in.count \in Nat /\ worse.count \in Nat /\ in.count <= worse.count
    BY DEF Inputs, AtLeastAsBad
  <2>3. PICK c \in Nat : c = in.count
    BY <2>2
  <2>4. PICK d \in Nat : worse.count = c + d
    <3>1. worse.count - c \in Nat /\ worse.count = c + (worse.count - c)
      BY <2>2, <2>3
    <3> QED
      BY <3>1
  <2>5. w * (c + d) = w * c + w * d /\ w * d \in Nat /\ w * c \in Nat
    BY SMT
  <2>6. w * c <= w * (c + d)
    BY <2>5
  <2> QED
    BY <2>1, <2>3, <2>4, <2>6
<1>3. CrowdsecTerm(in) <= CrowdsecTerm(worse)
  <2>1. PICK w \in Nat : w = Weight["crowdsec"]
    BY ScoreAssumption
  <2>2. PICK a \in CsActions : a = in.cs
    BY DEF Inputs
  <2>3. PICK b \in CsActions : b = worse.cs
    BY DEF Inputs
  <2>4. CsHarshness[a] <= CsHarshness[b]
    BY <2>2, <2>3 DEF AtLeastAsBad
  <2>5. PICK x \in Nat : x = (w * 40) \div 100
    BY SMT
  <2>6. PICK y \in Nat : y = (w * 65) \div 100
    BY SMT
  <2>7. x <= y /\ y <= w
    BY <2>5, <2>6
  <2>8. CsHarshness["none"] = 0 /\ CsHarshness["captcha"] = 1
        /\ CsHarshness["throttle"] = 2 /\ CsHarshness["ban"] = 3
    BY DEF CsHarshness, CsActions
  <2>9. CrowdsecTerm(in) = CASE a = "none" -> 0 [] a = "captcha" -> x
                             [] a = "throttle" -> y [] a = "ban" -> w
    BY <2>1, <2>2, <2>5, <2>6 DEF CrowdsecTerm
  <2>10. CrowdsecTerm(worse) = CASE b = "none" -> 0 [] b = "captcha" -> x
                                 [] b = "throttle" -> y [] b = "ban" -> w
    BY <2>1, <2>3, <2>5, <2>6 DEF CrowdsecTerm
  <2>11. CASE a = "none"
    BY <2>7, <2>9, <2>10, <2>11 DEF CsActions
  <2>12. CASE a = "captcha"
    <3>1. b \in {"captcha", "throttle", "ban"}
      BY <2>4, <2>8, <2>12 DEF CsActions
    <3> QED
      BY <2>7, <2>9, <2>10, <2>12, <3>1
  <2>13. CASE a = "throttle"
    <3>1. b \in {"throttle", "ban"}
      BY <2>4, <2>8, <2>13 DEF CsActions
    <3> QED
      BY <2>7, <2>9, <2>10, <2>13, <3>1
  <2>14. CASE a = "ban"
    <3>1. b = "ban"
      BY <2>4, <2>8, <2>14 DEF CsActions
    <3> QED
      BY <2>9, <2>10, <2>14, <3>1
  <2> QED
    BY <2>11, <2>12, <2>13, <2>14 DEF CsActions
<1> QED
  BY <1>1, <1>2, <1>3

\* The sum of smaller terms is not larger.
LEMMA SumStep ==
  ASSUME NEW x \in Nat, NEW y \in Nat, NEW p \in Nat, NEW q \in Nat,
         x <= y, p <= q
  PROVE  x + p \in Nat /\ y + q \in Nat /\ x + p <= y + q
BY SMT

\* The true sum grows with the evidence.
LEMMA TotalGrows ==
  ASSUME NEW in \in Inputs, NEW worse \in Inputs, AtLeastAsBad(worse, in)
  PROVE  /\ Total(in) \in Nat /\ Total(worse) \in Nat
         /\ Total(in) <= Total(worse)
<1>1. /\ \A s \in Flags : Term(in, s) \in Nat /\ Term(worse, s) \in Nat
      /\ CrowdsecTerm(in) \in Nat /\ CrowdsecTerm(worse) \in Nat
      /\ Weight["errrate"] * in.count \in Nat
      /\ Weight["errrate"] * worse.count \in Nat
  BY TermsAreNatural, ErrRateTermCapped
<1>2. Flags = {"blocked", "scanner", "bot", "header", "honeypot", "velocity",
               "asn", "c2ip", "ja3", "ja4", "ja4t", "coherence"}
  BY DEF Flags
<1>3. \A s \in Flags : Term(in, s) <= Term(worse, s)
  BY TermsGrow
<1>4. PICK x0 \in Nat, y0 \in Nat :
        /\ x0 = Weight["errrate"] * in.count
        /\ y0 = Weight["errrate"] * worse.count
        /\ x0 <= y0
  BY <1>1, TermsGrow
<1>5. PICK x1 \in Nat, y1 \in Nat :
        /\ x1 = x0 + Term(in, "blocked")
        /\ y1 = y0 + Term(worse, "blocked")
        /\ x1 <= y1
  BY <1>1, <1>2, <1>3, <1>4, SumStep
<1>6. PICK x2 \in Nat, y2 \in Nat :
        /\ x2 = x1 + Term(in, "scanner")
        /\ y2 = y1 + Term(worse, "scanner")
        /\ x2 <= y2
  BY <1>1, <1>2, <1>3, <1>5, SumStep
<1>7. PICK x3 \in Nat, y3 \in Nat :
        /\ x3 = x2 + Term(in, "bot")
        /\ y3 = y2 + Term(worse, "bot")
        /\ x3 <= y3
  BY <1>1, <1>2, <1>3, <1>6, SumStep
<1>8. PICK x4 \in Nat, y4 \in Nat :
        /\ x4 = x3 + Term(in, "header")
        /\ y4 = y3 + Term(worse, "header")
        /\ x4 <= y4
  BY <1>1, <1>2, <1>3, <1>7, SumStep
<1>9. PICK x5 \in Nat, y5 \in Nat :
        /\ x5 = x4 + Term(in, "honeypot")
        /\ y5 = y4 + Term(worse, "honeypot")
        /\ x5 <= y5
  BY <1>1, <1>2, <1>3, <1>8, SumStep
<1>10. PICK x6 \in Nat, y6 \in Nat :
        /\ x6 = x5 + Term(in, "velocity")
        /\ y6 = y5 + Term(worse, "velocity")
        /\ x6 <= y6
  BY <1>1, <1>2, <1>3, <1>9, SumStep
<1>11. PICK x7 \in Nat, y7 \in Nat :
        /\ x7 = x6 + Term(in, "asn")
        /\ y7 = y6 + Term(worse, "asn")
        /\ x7 <= y7
  BY <1>1, <1>2, <1>3, <1>10, SumStep
<1>12. PICK x8 \in Nat, y8 \in Nat :
        /\ x8 = x7 + Term(in, "c2ip")
        /\ y8 = y7 + Term(worse, "c2ip")
        /\ x8 <= y8
  BY <1>1, <1>2, <1>3, <1>11, SumStep
<1>13. PICK x9 \in Nat, y9 \in Nat :
        /\ x9 = x8 + Term(in, "ja3")
        /\ y9 = y8 + Term(worse, "ja3")
        /\ x9 <= y9
  BY <1>1, <1>2, <1>3, <1>12, SumStep
<1>14. PICK x10 \in Nat, y10 \in Nat :
        /\ x10 = x9 + Term(in, "ja4")
        /\ y10 = y9 + Term(worse, "ja4")
        /\ x10 <= y10
  BY <1>1, <1>2, <1>3, <1>13, SumStep
<1>15. PICK x11 \in Nat, y11 \in Nat :
        /\ x11 = x10 + Term(in, "ja4t")
        /\ y11 = y10 + Term(worse, "ja4t")
        /\ x11 <= y11
  BY <1>1, <1>2, <1>3, <1>14, SumStep
<1>16. PICK x12 \in Nat, y12 \in Nat :
        /\ x12 = x11 + Term(in, "coherence")
        /\ y12 = y11 + Term(worse, "coherence")
        /\ x12 <= y12
  BY <1>1, <1>2, <1>3, <1>15, SumStep
<1>17. Total(in) = x12 + CrowdsecTerm(in)
  BY <1>4, <1>5, <1>6, <1>7, <1>8, <1>9, <1>10, <1>11, <1>12, <1>13, <1>14,
     <1>15, <1>16, Zenon DEF Total
<1>18. Total(worse) = y12 + CrowdsecTerm(worse)
  BY <1>4, <1>5, <1>6, <1>7, <1>8, <1>9, <1>10, <1>11, <1>12, <1>13, <1>14,
     <1>15, <1>16, Zenon DEF Total
<1> QED
  BY <1>1, <1>16, <1>17, <1>18, TermsGrow, SumStep

\* score.c: no client gains by adding evidence against himself.  Whatever the
\* weights and thresholds, in whatever order the thresholds are set, a request
\* that raises more signals, has more errors or a harsher CrowdSec decision
\* and no new excuse gets no milder verdict.
THEOREM EvidenceNeverHelps ==
  ASSUME NEW in \in Inputs, NEW worse \in Inputs, AtLeastAsBad(worse, in)
  PROVE  Harshness[Verdict(in)] <= Harshness[Verdict(worse)]
<1>1. Pardoned(worse) => Pardoned(in)
  <2>1. in.cs \in CsActions /\ worse.cs \in CsActions
    BY DEF Inputs
  <2>2. worse.cs = "none" => in.cs = "none"
    <3>1. CsHarshness[in.cs] <= CsHarshness[worse.cs]
      BY DEF AtLeastAsBad
    <3> QED
      BY <2>1, <3>1 DEF CsHarshness, CsActions
  <2> QED
    BY <2>2 DEF Pardoned, AtLeastAsBad
<1>2. Compute(in) \in Nat /\ Compute(worse) \in Nat
  BY ScoreInRange, ScoreAssumption
<1>3. Compute(in) <= Compute(worse)
  <2>1. CASE Pardoned(in)
    BY <1>2, <2>1 DEF Compute
  <2>2. CASE ~Pardoned(in)
    <3>1. Compute(in) = Capped(Total(in)) /\ Compute(worse) = Capped(Total(worse))
      BY <1>1, <2>2, SaturationLosesNothing DEF Compute
    <3>2. Capped(Total(in)) <= Capped(Total(worse))
      BY TotalGrows, ScoreAssumption DEF Capped
    <3> QED
      BY <3>1, <3>2
  <2> QED
    BY <2>1, <2>2
<1>4. PICK x \in Nat : x = Compute(in)
  BY <1>2
<1>5. PICK y \in Nat : y = Compute(worse)
  BY <1>2
<1>6. /\ Threshold["block"] \in Nat /\ Threshold["tarpit"] \in Nat
      /\ Threshold["challenge"] \in Nat
  BY ScoreAssumption
<1>7. /\ Harshness["allow"] = 0 /\ Harshness["challenge"] = 1
      /\ Harshness["tarpit"] = 2 /\ Harshness["block"] = 3
  BY DEF Harshness
<1>8. Harshness[ToVerdict(x)] <= Harshness[ToVerdict(y)]
  BY <1>3, <1>4, <1>5, <1>6, <1>7 DEF ToVerdict
<1> QED
  BY <1>4, <1>5, <1>8 DEF Verdict

-----------------------------------------------------------------------------
(* What a box gathers of a request. *)

\* The gathered inputs are inputs of sentinel_score_compute.
LEMMA GatheredType ==
  ASSUME TypeOK, NEW b \in Boxes, NEW c \in Clients, NEW l \in Local
  PROVE  Gathered(b, c, l) \in Inputs
<1>1. l \in Inputs
  BY SharingAssumption
<1>2. WindowThreshold \in Nat /\ errors[b][c] \in Nat
  BY SharingAssumption DEF TypeOK
<1>3. "blocked" \in Flags /\ "ban" \in CsActions
  BY DEF Flags, CsActions
<1> QED
  BY <1>1, <1>2, <1>3 DEF Gathered, Inputs

\* Nothing is added for a client of whom the zones know nothing.
LEMMA GatheredClean ==
  ASSUME TypeOK, NEW b \in Boxes, NEW c \in Clients, NEW l \in Local,
         softban[b][c] = 0, errors[b][c] = 0, pulled[b][c] = 0
  PROVE  Gathered(b, c, l) = l
<1>1. clock >= 0
  BY SharingAssumption DEF TypeOK
<1>2. ~Softbanned(b, c) /\ ~PulledHit(b, c)
  BY <1>1, SharingAssumption DEF Softbanned, PulledHit, TypeOK
<1>3. l \in Inputs /\ l.count = 0
  BY SharingAssumption
<1> QED
  BY <1>2, <1>3 DEF Gathered, Inputs

-----------------------------------------------------------------------------
(* Type correctness. *)

\* An idle deployment is well typed.
LEMMA InitType == Init => TypeOK
BY SharingAssumption DEF Init, TypeOK, Times, Ban

\* A request that is answered leaves a well-formed entry for the log phase.
LEMMA AnsweredType ==
  ASSUME TypeOK, NEW b \in Boxes, NEW c \in Clients,
         NEW failed \in BOOLEAN, NEW own \in BOOLEAN, Answered(b, c, failed, own)
  PROVE  open' \subseteq Failed /\ seen' \in [Clients -> 0 .. MaxTime]
<1> DEFINE e == [box |-> b, ip |-> c, own |-> own]
<1>1. e \in Failed
  BY Zenon DEF Failed
<1>2. open' \subseteq open \cup {e}
  <2> HIDE DEF e
  <2>1. open' = IF failed THEN open \cup {e} ELSE open
    BY DEF Answered, e
  <2> QED
    BY <2>1, Zenon
<1>3. open' \subseteq Failed
  BY <1>1, <1>2, Zenon DEF TypeOK
<1>4. seen' \in [Clients -> 0 .. MaxTime]
  BY DEF Answered, TypeOK
<1> QED
  BY <1>3, <1>4

\* Every request, log phase, publication and pull keeps the types.
LEMMA NextType == TypeOK /\ [Next]_vars => TypeOK'
<1> SUFFICES ASSUME TypeOK, [Next]_vars
             PROVE  TypeOK'
  OBVIOUS
<1> USE SharingAssumption
<1>1. CASE Tick
  <2>1. clock' \in 0 .. MaxTime
    BY <1>1 DEF Tick, TypeOK
  <2> QED
    BY <1>1, <2>1 DEF Tick, TypeOK
<1>2. ASSUME NEW e \in open, NEW ok \in BOOLEAN, Log(e, ok)
      PROVE  TypeOK'
  <2>1. e.box \in Boxes /\ e.ip \in Clients
    BY DEF TypeOK, Failed
  <2>2. clock + BlockTime \in Times
    BY DEF TypeOK, Times
  <2>3. /\ softban' \in [Boxes -> [Clients -> Times]]
        /\ errors' \in [Boxes -> [Clients -> 0 .. WindowThreshold - 1]]
    <3>1. CASE UNCHANGED <<softban, errors>>
      BY <3>1 DEF TypeOK
    <3>2. CASE Count(e.box, e.ip)
      <4>1. CASE Softbanned(e.box, e.ip)
        BY <3>2, <4>1 DEF Count, TypeOK
      <4>2. CASE /\ ~Softbanned(e.box, e.ip)
                 /\ errors[e.box][e.ip] + 1 >= WindowThreshold
        <5>1. /\ softban' = [softban EXCEPT ![e.box][e.ip] = clock + BlockTime]
              /\ errors' = [errors EXCEPT ![e.box][e.ip] = 0]
          BY <3>2, <4>2 DEF Count
        <5> QED
          BY <5>1, <2>1, <2>2 DEF TypeOK
      <4>3. CASE /\ ~Softbanned(e.box, e.ip)
                 /\ ~(errors[e.box][e.ip] + 1 >= WindowThreshold)
        <5>1. /\ softban' = softban
              /\ errors' = [errors EXCEPT ![e.box][e.ip] = @ + 1]
          BY <3>2, <4>3 DEF Count
        <5>2. errors[e.box][e.ip] + 1 \in 0 .. WindowThreshold - 1
          BY <4>3, <2>1, SMTT(60) DEF TypeOK
        <5> QED
          BY <5>1, <5>2, <2>1 DEF TypeOK
      <4> QED
        BY <4>1, <4>2, <4>3
    <3> QED
      BY <1>2, <3>1, <3>2 DEF Log
  <2>4. local' \subseteq Boxes \X Clients
    BY <1>2, <2>1 DEF Log, TypeOK
  <2>5. open' \subseteq Failed
    BY <1>2 DEF Log, TypeOK
  <2> QED
    BY <1>2, <2>3, <2>4, <2>5 DEF Log, TypeOK
<1>3. ASSUME NEW b \in Boxes, Flush(b)
      PROVE  TypeOK'
  <2>1. ring[b] \in Seq(Ban) /\ ring[b] # << >> /\ Len(ring[b]) <= RingSize
    BY <1>3 DEF Flush, TypeOK
  <2>2. /\ Head(ring[b]) \in Ban /\ Tail(ring[b]) \in Seq(Ban)
        /\ Len(Tail(ring[b])) <= RingSize
    BY <2>1
  <2>3. store' \in [Clients -> Times]
    BY <1>3, <2>2 DEF Flush, TypeOK, Ban
  <2> QED
    BY <1>3, <2>2, <2>3 DEF Flush, TypeOK
<1>4. ASSUME NEW b \in Boxes, NEW c \in Clients, Pull(b, c)
      PROVE  TypeOK'
  BY <1>4 DEF Pull, TypeOK
<1>5. ASSUME NEW b \in Boxes, NEW c \in Clients, NEW l \in Local,
             Request(b, c, l)
      PROVE  TypeOK'
  <2>1. ASSUME NEW failed \in BOOLEAN,
               Pass(b, c, l, failed) \/ Observe(b, c, failed)
        PROVE  TypeOK'
    <3>1. open' \subseteq Failed /\ seen' \in [Clients -> 0 .. MaxTime]
      <4>1. Answered(b, c, failed, FALSE)
        BY <2>1, Zenon DEF Pass, Observe
      <4> QED
        BY <4>1, AnsweredType
    <3> QED
      BY <2>1, <3>1 DEF Pass, Observe, TypeOK
  <2>2. ASSUME NEW ok \in BOOLEAN, Block(b, c, l, ok)
        PROVE  TypeOK'
    <3> DEFINE in == Gathered(b, c, l)
    <3>0. /\ Persist(b, c, ok) /\ Export(b, c, in) /\ Answered(b, c, TRUE, TRUE)
          /\ local' = IF Verdict(l) = "block" THEN local \cup {<<b, c>>}
                      ELSE local
          /\ UNCHANGED <<clock, pulled, store>>
      BY <2>2, Zenon DEF Block
    <3> HIDE DEF in
    <3>1. open' \subseteq Failed /\ seen' \in [Clients -> 0 .. MaxTime]
      BY <3>0, AnsweredType
    <3>2. clock + BlockTtl \in Times /\ Fresh(c) \in Ban
      BY DEF TypeOK, Times, Ban, Fresh
    <3>3. /\ softban' \in [Boxes -> [Clients -> Times]]
          /\ errors' \in [Boxes -> [Clients -> 0 .. WindowThreshold - 1]]
      <4>1. CASE UNCHANGED <<softban, errors>>
        BY <4>1 DEF TypeOK
      <4>2. CASE /\ softban' = [softban EXCEPT ![b][c] = clock + BlockTtl]
                 /\ errors' = [errors EXCEPT ![b][c] = 0]
        BY <4>2, <3>2 DEF TypeOK
      <4> QED
        BY <3>0, <4>1, <4>2, Zenon DEF Persist
    <3>4. /\ exported' \subseteq Boxes \X Clients
          /\ ring' \in [Boxes -> Seq(Ban)]
          /\ \A x \in Boxes : Len(ring'[x]) <= RingSize
      <4>1. CASE UNCHANGED <<ring, exported>>
        BY <4>1 DEF TypeOK
      <4>2. CASE /\ ring' = IF Len(ring[b]) < RingSize
                            THEN [ring EXCEPT ![b] = Append(@, Fresh(c))]
                            ELSE ring
                 /\ exported' = exported \cup {<<b, c>>}
        <5>1. /\ Append(ring[b], Fresh(c)) \in Seq(Ban)
              /\ Len(Append(ring[b], Fresh(c))) = Len(ring[b]) + 1
          BY <3>2 DEF TypeOK
        <5>2. Len(ring[b]) \in Nat
          BY DEF TypeOK
        <5> QED
          BY <4>2, <5>1, <5>2 DEF TypeOK
      <4> QED
        BY <3>0, <4>1, <4>2 DEF Export
    <3>5. local' \subseteq Boxes \X Clients
      BY <3>0 DEF TypeOK
    <3> QED
      BY <3>0, <3>1, <3>3, <3>4, <3>5 DEF TypeOK
  <2> QED
    BY <1>5, <2>1, <2>2 DEF Request
<1>6. CASE UNCHANGED vars
  BY <1>6 DEF vars, TypeOK
<1> QED
  BY <1>1, <1>2, <1>3, <1>4, <1>5, <1>6 DEF Next

\* The state of every box and of Redis stays well formed; in particular the
\* push ring never holds more than its size.
THEOREM TypeCorrect == Spec => []TypeOK
<1>1. Init => TypeOK
  BY InitType
<1>2. TypeOK /\ [Next]_vars => TypeOK'
  BY NextType
<1> QED
  BY <1>1, <1>2, PTL DEF Spec

-----------------------------------------------------------------------------
(* Precedence of a CrowdSec ban. *)

\* In any well-typed state a running pulled ban is a blocked request.
LEMMA PulledBanBlocksState ==
  ASSUME TypeOK, Weight["crowdsec"] >= Threshold["block"]
  PROVE  PulledBanBlocks
<1> SUFFICES ASSUME NEW b \in Boxes, NEW c \in Clients, NEW l \in Local,
                    PulledHit(b, c)
             PROVE  Verdict(Gathered(b, c, l)) = "block"
  BY DEF PulledBanBlocks
<1>1. Gathered(b, c, l) \in Inputs
  BY GatheredType
<1>2. l \in Inputs
  BY SharingAssumption
<1>3. Gathered(b, c, l).cs = "ban"
  BY <1>2 DEF Gathered, Inputs
<1> QED
  BY <1>1, <1>3, CrowdsecBanBlocks

\* With a CrowdSec weight that reaches the block threshold, as the defaults do,
\* a client whose pulled ban runs is blocked whatever its requests look like.
THEOREM PulledBansBlock ==
  ASSUME Weight["crowdsec"] >= Threshold["block"]
  PROVE  Spec => []PulledBanBlocks
<1>1. TypeOK => PulledBanBlocks
  BY PulledBanBlocksState
<1> QED
  BY <1>1, TypeCorrect, PTL

-----------------------------------------------------------------------------
(* The origin of bans. *)

\* A request that the box refused itself was a guilty client's.
OpenHasOrigin == \A e \in open : e.own => Guilty(e.ip)

OriginInv == TypeOK /\ BansHaveOrigin /\ OpenHasOrigin

\* What BansHaveOrigin says of one client.
Unknown(c) ==
  /\ store[c] = 0
  /\ \A b \in Boxes :
       /\ softban[b][c] = 0 /\ errors[b][c] = 0
       /\ pulled[b][c] = 0 /\ <<b, c>> \notin exported
       /\ \A i \in DOMAIN ring[b] : ring[b][i].ip # c

\* BansHaveOrigin, client by client, of a state and of its successor.
LEMMA OriginByClient ==
  /\ BansHaveOrigin <=> \A c \in Clients : ~Guilty(c) => Unknown(c)
  /\ BansHaveOrigin' <=> \A c \in Clients : ~Guilty(c)' => Unknown(c)'
BY DEF BansHaveOrigin, Unknown

\* At first nobody is known anywhere.
LEMMA InitOrigin == Init => OriginInv
<1> SUFFICES ASSUME Init PROVE OriginInv
  OBVIOUS
<1>1. TypeOK
  BY InitType
<1>2. BansHaveOrigin
  BY DEF Init, BansHaveOrigin
<1>3. OpenHasOrigin
  BY DEF Init, OpenHasOrigin
<1> QED
  BY <1>1, <1>2, <1>3 DEF OriginInv

\* A step that makes a client known somewhere is a guilty client's: its request
\* was blocked for the local signals, it failed upstream, or some box knew it.
LEMMA NextOrigin == OriginInv /\ [Next]_vars => OriginInv'
<1> SUFFICES ASSUME OriginInv, [Next]_vars
             PROVE  OriginInv'
  OBVIOUS
<1> USE SharingAssumption
<1>t. TypeOK /\ TypeOK'
  BY NextType DEF OriginInv
<1>o. /\ \A c \in Clients : ~Guilty(c) => Unknown(c)
      /\ OpenHasOrigin
  BY OriginByClient DEF OriginInv
<1> SUFFICES /\ \A c \in Clients : ~Guilty(c)' => Unknown(c)'
             /\ OpenHasOrigin'
  BY <1>t, OriginByClient DEF OriginInv
<1> DEFINE Goal == /\ \A c \in Clients : ~Guilty(c)' => Unknown(c)'
                   /\ OpenHasOrigin'
<1>m. local \subseteq local' => \A c \in Clients : Guilty(c) => Guilty(c)'
  BY DEF Guilty
<1>1. CASE Tick
  BY <1>1, <1>o DEF Tick, Guilty, Unknown, OpenHasOrigin
<1>6. CASE UNCHANGED vars
  BY <1>6, <1>o DEF vars, Guilty, Unknown, OpenHasOrigin
<1>4. ASSUME NEW b \in Boxes, NEW c \in Clients, Pull(b, c)
      PROVE  Goal
  <2>1. Guilty(c)
    BY <1>4, <1>o, <1>t DEF Pull, Unknown, TypeOK
  <2>2. \A x \in Clients \ {c}, y \in Boxes : pulled'[y][x] = pulled[y][x]
    BY <1>4, <1>t DEF Pull, TypeOK
  <2> QED
    BY <1>4, <1>o, <2>1, <2>2 DEF Pull, Guilty, Unknown, OpenHasOrigin
<1>3. ASSUME NEW b \in Boxes, Flush(b)
      PROVE  Goal
  <2> DEFINE e == Head(ring[b])
  <2>1. ring[b] \in Seq(Ban) /\ ring[b] # << >>
    BY <1>3, <1>t DEF Flush, TypeOK
  <2>2. e = ring[b][1] /\ 1 \in DOMAIN ring[b] /\ e.ip \in Clients
    <3>1. /\ Len(ring[b]) \in Nat /\ Len(ring[b]) # 0
          /\ DOMAIN ring[b] = 1 .. Len(ring[b])
      BY <2>1, EmptySeq
    <3>2. e = ring[b][1] /\ e \in Ban
      BY <2>1
    <3> QED
      BY <3>1, <3>2 DEF Ban
  <2>3. Guilty(e.ip)
    BY <2>2, <1>o DEF Unknown
  <2>4. \A i \in DOMAIN ring'[b] :
          ring'[b][i] = ring[b][i + 1] /\ i + 1 \in DOMAIN ring[b]
    BY <1>3, <1>t, <2>1 DEF Flush, TypeOK
  <2>5. \A y \in Boxes \ {b} : ring'[y] = ring[y]
    BY <1>3, <1>t DEF Flush, TypeOK
  <2>6. \A x \in Clients \ {e.ip} : store'[x] = store[x]
    BY <1>3, <1>t DEF Flush, TypeOK
  <2>7. \A x \in Clients : Guilty(x)' <=> Guilty(x)
    BY <1>3 DEF Flush, Guilty
  <2> HIDE DEF e
  <2>8. ASSUME NEW x \in Clients, ~Guilty(x)
        PROVE  Unknown(x)'
    <3>1. Unknown(x) /\ x # e.ip
      BY <2>8, <2>3, <1>o
    <3>2. \A y \in Boxes : \A i \in DOMAIN ring'[y] : ring'[y][i].ip # x
      <4>1. \A i \in DOMAIN ring'[b] : ring'[b][i].ip # x
        BY <3>1, <2>4 DEF Unknown
      <4>2. \A y \in Boxes \ {b} : \A i \in DOMAIN ring'[y] : ring'[y][i].ip # x
        BY <3>1, <2>5, ZenonT(60) DEF Unknown
      <4> QED
        BY <4>1, <4>2
    <3>3. store'[x] = 0
      BY <3>1, <2>6 DEF Unknown
    <3> QED
      BY <1>3, <3>1, <3>2, <3>3 DEF Flush, Unknown
  <2>9. OpenHasOrigin'
    BY <1>3, <1>o DEF Flush, OpenHasOrigin, Guilty
  <2> QED
    BY <2>7, <2>8, <2>9
<1>2. ASSUME NEW e \in open, NEW ok \in BOOLEAN, Log(e, ok)
      PROVE  Goal
  <2>1. e.box \in Boxes /\ e.ip \in Clients
    BY <1>t DEF TypeOK, Failed
  <2>2. local \subseteq local' /\ Guilty(e.ip)'
    BY <1>2, <1>o, <2>1 DEF Log, OpenHasOrigin, Guilty
  <2>3. \A x \in Clients \ {e.ip}, y \in Boxes :
          softban'[y][x] = softban[y][x] /\ errors'[y][x] = errors[y][x]
    <3>1. CASE UNCHANGED <<softban, errors>>
      BY <3>1
    <3>2. CASE /\ softban' = [softban EXCEPT ![e.box][e.ip] = clock + BlockTime]
               /\ errors' = [errors EXCEPT ![e.box][e.ip] = 0]
      <4>1. \A x \in Clients \ {e.ip}, y \in Boxes : softban'[y][x] = softban[y][x]
        BY <3>2, <1>t, <2>1 DEF TypeOK
      <4>2. \A x \in Clients \ {e.ip}, y \in Boxes : errors'[y][x] = errors[y][x]
        BY <3>2, <1>t, <2>1 DEF TypeOK
      <4> QED
        BY <4>1, <4>2
    <3>3. CASE /\ errors' = [errors EXCEPT ![e.box][e.ip] = @ + 1]
               /\ UNCHANGED softban
      BY <3>3, <1>t, <2>1 DEF TypeOK
    <3> QED
      BY <1>2, <3>1, <3>2, <3>3, Zenon DEF Log, Count
  <2>4. ASSUME NEW x \in Clients, ~Guilty(x)'
        PROVE  Unknown(x)'
    <3>1. Unknown(x) /\ x # e.ip
      BY <2>4, <2>2, <1>m, <1>o
    <3> QED
      BY <1>2, <3>1, <2>3 DEF Log, Unknown
  <2>5. OpenHasOrigin'
    BY <1>2, <1>o, <1>m, <1>t, <2>2 DEF Log, OpenHasOrigin, TypeOK, Failed
  <2> QED
    BY <2>4, <2>5
<1>5. ASSUME NEW b \in Boxes, NEW c \in Clients, NEW l \in Local,
             Request(b, c, l)
      PROVE  Goal
  <2>1. ASSUME NEW failed \in BOOLEAN,
               Pass(b, c, l, failed) \/ Observe(b, c, failed)
        PROVE  Goal
    <3>1. /\ Answered(b, c, failed, FALSE)
          /\ UNCHANGED <<clock, softban, errors, pulled, ring, exported, store,
                         local>>
      BY <2>1, Zenon DEF Pass, Observe
    <3>2. \A x \in Clients :
            (Guilty(x)' <=> Guilty(x)) /\ (Unknown(x)' <=> Unknown(x))
      BY <3>1 DEF Guilty, Unknown
    <3>3. \A e \in open' : e.own => e \in open
      BY <3>1 DEF Answered
    <3>4. OpenHasOrigin'
      BY <3>1, <3>3, <1>o DEF OpenHasOrigin, Guilty
    <3> QED
      BY <3>2, <3>4, <1>o
  <2>2. ASSUME NEW ok \in BOOLEAN, Block(b, c, l, ok)
        PROVE  Goal
    <3> DEFINE in == Gathered(b, c, l)
    <3>0. /\ Verdict(in) = "block"
          /\ Persist(b, c, ok) /\ Export(b, c, in) /\ Answered(b, c, TRUE, TRUE)
          /\ local' = IF Verdict(l) = "block" THEN local \cup {<<b, c>>}
                      ELSE local
          /\ UNCHANGED <<clock, pulled, store>>
      BY <2>2, Zenon DEF Block
    <3>1. local \subseteq local'
      BY <3>0
    <3>2. Guilty(c)'
      <4>1. CASE Guilty(c)
        BY <4>1, <3>1, <1>m
      <4>2. CASE ~Guilty(c)
        <5>1. in = l
          BY <4>2, <1>o, <1>t, GatheredClean DEF Unknown
        <5>2. local' = local \cup {<<b, c>>}
          BY <3>0, <5>1
        <5> QED
          BY <5>2 DEF Guilty
      <4> QED
        BY <4>1, <4>2
    <3> HIDE DEF in
    <3>3. \A x \in Clients \ {c}, y \in Boxes :
            softban'[y][x] = softban[y][x] /\ errors'[y][x] = errors[y][x]
      <4>1. CASE UNCHANGED <<softban, errors>>
        BY <4>1
      <4>2. CASE /\ softban' = [softban EXCEPT ![b][c] = clock + BlockTtl]
                 /\ errors' = [errors EXCEPT ![b][c] = 0]
        BY <4>2, <1>t DEF TypeOK
      <4> QED
        BY <3>0, <4>1, <4>2, Zenon DEF Persist
    <3>4. \A x \in Clients \ {c}, y \in Boxes :
            Unknown(x) => /\ <<y, x>> \notin exported'
                          /\ \A i \in DOMAIN ring'[y] : ring'[y][i].ip # x
      <4>1. CASE UNCHANGED <<ring, exported>>
        BY <4>1 DEF Unknown
      <4>2. CASE /\ ring' = IF Len(ring[b]) < RingSize
                            THEN [ring EXCEPT ![b] = Append(@, Fresh(c))]
                            ELSE ring
                 /\ exported' = exported \cup {<<b, c>>}
        <5> SUFFICES ASSUME NEW x \in Clients \ {c}, NEW y \in Boxes, Unknown(x)
                     PROVE  /\ <<y, x>> \notin exported'
                            /\ \A i \in DOMAIN ring'[y] : ring'[y][i].ip # x
          OBVIOUS
        <5>1. <<y, x>> \notin exported'
          BY <4>2 DEF Unknown
        <5>2. \A i \in DOMAIN ring[y] : ring[y][i].ip # x
          BY DEF Unknown
        <5>3. ring'[y] = ring[y] \/ ring'[y] = Append(ring[y], Fresh(c))
          BY <4>2, <1>t DEF TypeOK
        <5>4. ring[y] \in Seq(Ban) /\ Fresh(c).ip = c
          BY <1>t DEF TypeOK, Fresh
        <5>5. ASSUME NEW i \in DOMAIN ring'[y],
                     ring'[y] = Append(ring[y], Fresh(c))
              PROVE  ring'[y][i].ip # x
          <6>1. \/ i \in DOMAIN ring[y] /\ ring'[y][i] = ring[y][i]
                \/ ring'[y][i] = Fresh(c)
            BY <5>4, <5>5
          <6> QED
            BY <6>1, <5>2, <5>4
        <5> QED
          BY <5>1, <5>2, <5>3, <5>5
      <4> QED
        BY <3>0, <4>1, <4>2 DEF Export
    <3>5. ASSUME NEW x \in Clients, ~Guilty(x)'
          PROVE  Unknown(x)'
      <4>1. Unknown(x) /\ x # c
        BY <3>5, <3>2, <3>1, <1>m, <1>o
      <4> QED
        BY <4>1, <3>0, <3>3, <3>4 DEF Unknown
    <3>6. OpenHasOrigin'
      <4>1. \A e \in open' : e \in open \/ e.ip = c
        BY <3>0 DEF Answered
      <4>2. \A e \in open : e.ip \in Clients
        BY <1>t DEF TypeOK, Failed
      <4> QED
        BY <4>1, <4>2, <3>1, <3>2, <1>m, <1>o DEF OpenHasOrigin
    <3> QED
      BY <3>5, <3>6
  <2> QED
    BY <1>5, <2>1, <2>2 DEF Request
<1> QED
  BY <1>1, <1>2, <1>3, <1>4, <1>5, <1>6 DEF Next

\* For any boxes, clients and weights: a client that offended at no box is
\* banned, published, exported and pulled nowhere.
THEOREM BansOriginate == Spec => []BansHaveOrigin
<1>1. Init => OriginInv
  BY InitOrigin
<1>2. OriginInv /\ [Next]_vars => OriginInv'
  BY NextOrigin
<1>3. OriginInv => BansHaveOrigin
  BY DEF OriginInv
<1> QED
  BY <1>1, <1>2, <1>3, PTL DEF Spec

-----------------------------------------------------------------------------
(* The end of bans. *)

\* What BansRunOut says of client c when a request of his was last dealt with
\* at time s.
RunOut(c, s) ==
  /\ store[c] <= s + RedisTtl
  /\ \A b \in Boxes :
       /\ pulled[b][c] <= s + RedisTtl
       /\ \/ softban[b][c] <= s + BlockTtl
          \/ softban[b][c] <= s + BlockTime
       /\ \A i \in DOMAIN ring[b] :
            ring[b][i].ip = c => ring[b][i].expiry <= s + RedisTtl

\* The times are numbers.
LEMMA EndsAreNatural ==
  ASSUME TypeOK, NEW c \in Clients, NEW b \in Boxes
  PROVE  /\ clock \in Nat /\ seen[c] \in Nat
         /\ store[c] \in Nat /\ pulled[b][c] \in Nat /\ softban[b][c] \in Nat
         /\ ring[b] \in Seq(Ban)
         /\ \A i \in DOMAIN ring[b] : ring[b][i] \in Ban
         /\ \A e \in Ban : e.expiry \in Nat
<1>1. Times \subseteq Nat
  BY SharingAssumption DEF Times
<1>2. clock \in Nat /\ seen[c] \in Nat
  BY SharingAssumption DEF TypeOK
<1>3. store[c] \in Times /\ pulled[b][c] \in Times /\ softban[b][c] \in Times
  BY DEF TypeOK
<1>4. ring[b] \in Seq(Ban)
  BY DEF TypeOK
<1>5. \A i \in DOMAIN ring[b] : ring[b][i] \in Ban
  BY <1>4
<1>6. \A e \in Ban : e.expiry \in Nat
  BY <1>1 DEF Ban
<1> QED
  BY <1>1, <1>2, <1>3, <1>4, <1>5, <1>6

\* One ban changes in one box.
LEMMA OneEnd ==
  ASSUME NEW f \in [Boxes -> [Clients -> Times]], NEW h,
         NEW b \in Boxes, NEW c \in Clients, NEW v,
         h = [f EXCEPT ![b][c] = v],
         NEW y \in Boxes, NEW x \in Clients
  PROVE  h[y][x] = IF y = b /\ x = c THEN v ELSE f[y][x]
<1>1. CASE y = b
  <2>1. h[b] = [f[b] EXCEPT ![c] = v]
    OBVIOUS
  <2>2. h[b][x] = IF x = c THEN v ELSE f[b][x]
    BY <2>1
  <2> QED
    BY <1>1, <2>2
<1>2. CASE y # b
  BY <1>2
<1> QED
  BY <1>1, <1>2

\* A later request only leaves a ban more time.
LEMMA RunOutLater ==
  ASSUME TypeOK, NEW c \in Clients, NEW s \in Nat, NEW t \in Nat, s <= t,
         RunOut(c, s)
  PROVE  RunOut(c, t)
<1>1. BlockTtl \in Nat /\ BlockTime \in Nat /\ RedisTtl \in Nat
  BY SharingAssumption
<1>2. store[c] <= t + RedisTtl
  <2>1. store[c] \in Times /\ Times \subseteq Nat
    BY SharingAssumption DEF TypeOK, Times
  <2>2. store[c] \in Nat /\ store[c] <= s + RedisTtl
    BY <2>1 DEF RunOut
  <2> QED
    BY <1>1, <2>2
<1>3. ASSUME NEW b \in Boxes
      PROVE  /\ pulled[b][c] <= t + RedisTtl
             /\ \/ softban[b][c] <= t + BlockTtl
                \/ softban[b][c] <= t + BlockTime
  <2>1. pulled[b][c] \in Nat /\ softban[b][c] \in Nat
    BY EndsAreNatural
  <2>2. /\ pulled[b][c] <= s + RedisTtl
        /\ \/ softban[b][c] <= s + BlockTtl
           \/ softban[b][c] <= s + BlockTime
    BY DEF RunOut
  <2> QED
    BY <1>1, <2>1, <2>2
<1>4. ASSUME NEW b \in Boxes, NEW i \in DOMAIN ring[b], ring[b][i].ip = c
      PROVE  ring[b][i].expiry <= t + RedisTtl
  <2>1. ring[b][i].expiry \in Nat
    BY EndsAreNatural
  <2>2. ring[b][i].expiry <= s + RedisTtl
    BY <1>4 DEF RunOut
  <2> QED
    BY <1>1, <2>1, <2>2
<1> QED
  BY <1>2, <1>3, <1>4 DEF RunOut

\* The history is of the past.
SeenPast == \A c \in Clients : seen[c] <= clock

\* It stays so: a box notes the time of its clock.
LEMMA NextSeen ==
  ASSUME TypeOK, SeenPast, [Next]_vars
  PROVE  SeenPast'
<1> SUFFICES ASSUME NEW x \in Clients
             PROVE  seen'[x] <= clock'
  BY DEF SeenPast
<1>1. seen[x] \in Nat /\ clock \in Nat /\ seen[x] <= clock
  BY SharingAssumption DEF SeenPast, TypeOK
<1>2. CASE Tick
  <2>1. seen' = seen /\ clock' = clock + 1
    BY <1>2 DEF Tick
  <2> QED
    BY <1>1, <2>1
<1>3. CASE seen' = seen /\ clock' = clock
  BY <1>1, <1>3
<1>4. ASSUME NEW c \in Clients, seen' = [seen EXCEPT ![c] = clock],
             clock' = clock
      PROVE  seen'[x] <= clock'
  <2>1. seen'[x] = seen[x] \/ seen'[x] = clock
    BY <1>4 DEF TypeOK
  <2> QED
    BY <1>1, <1>4, <2>1
<1>5. ASSUME NEW b \in Boxes, NEW c \in Clients, NEW l \in Local,
             Request(b, c, l)
      PROVE  seen'[x] <= clock'
  <2>1. seen' = [seen EXCEPT ![c] = clock] /\ clock' = clock
    BY <1>5, Zenon DEF Request, Pass, Observe, Block, Answered
  <2> QED
    BY <1>4, <2>1
<1>6. ASSUME NEW e \in open, NEW ok \in BOOLEAN, Log(e, ok)
      PROVE  seen'[x] <= clock'
  <2>1. e.ip \in Clients
    BY DEF TypeOK, Failed
  <2>2. seen' = [seen EXCEPT ![e.ip] = clock] /\ clock' = clock
    BY <1>6 DEF Log
  <2> QED
    BY <1>4, <2>1, <2>2
<1>7. ASSUME NEW b \in Boxes, NEW c \in Clients, Flush(b) \/ Pull(b, c)
      PROVE  seen'[x] <= clock'
  BY <1>3, <1>7 DEF Flush, Pull
<1>8. CASE UNCHANGED vars
  BY <1>3, <1>8 DEF vars
<1> QED
  BY <1>2, <1>5, <1>6, <1>7, <1>8 DEF Next

\* A step that sets a ban is a request's or a log phase's, which is then the
\* last one, or hands on a ban with the end that it has.
LEMMA NextRunOut ==
  ASSUME TypeOK, SeenPast, BansRunOut, [Next]_vars
  PROVE  BansRunOut'
<1>t. TypeOK'
  BY NextType
<1>n. BlockTtl \in Nat /\ BlockTime \in Nat /\ RedisTtl \in Nat
  BY SharingAssumption
<1>o. \A x \in Clients : RunOut(x, seen[x])
  BY DEF BansRunOut, RunOut
<1> SUFFICES ASSUME NEW x \in Clients
             PROVE  RunOut(x, seen[x])'
  BY DEF BansRunOut, RunOut
<1>s. seen[x] \in Nat /\ clock \in Nat /\ seen[x] <= clock
  BY SharingAssumption DEF SeenPast, TypeOK
<1>l. RunOut(x, clock)
  BY <1>o, <1>s, RunOutLater
<1>1. CASE Tick \/ UNCHANGED vars
  <2>1. UNCHANGED <<softban, pulled, ring, store, seen>>
    BY <1>1 DEF Tick, vars
  <2> QED
    BY <1>o, <2>1 DEF RunOut
<1>2. ASSUME NEW b \in Boxes, NEW c \in Clients, Pull(b, c)
      PROVE  RunOut(x, seen[x])'
  <2>1. UNCHANGED <<softban, ring, store, seen>>
    BY <1>2 DEF Pull
  <2>2. \A y \in Boxes : \/ pulled'[y][x] = pulled[y][x]
                          \/ pulled'[y][x] = store[x]
    BY <1>2 DEF Pull, TypeOK
  <2>3. \A y \in Boxes : pulled'[y][x] <= seen[x] + RedisTtl
    BY <1>o, <2>2 DEF RunOut
  <2> QED
    BY <1>o, <2>1, <2>3 DEF RunOut
<1>3. ASSUME NEW b \in Boxes, Flush(b)
      PROVE  RunOut(x, seen[x])'
  <2>1. UNCHANGED <<softban, pulled, seen>>
    BY <1>3 DEF Flush
  <2>2. ring[b] \in Seq(Ban) /\ ring[b] # << >>
    BY <1>3 DEF Flush, TypeOK
  <2>3. 1 \in DOMAIN ring[b] /\ Head(ring[b]) = ring[b][1]
    BY <2>2
  <2>4. ring[b][1] \in Ban
    BY <2>2, <2>3
  <2>5. \/ store'[x] = store[x]
        \/ ring[b][1].ip = x /\ store'[x] = ring[b][1].expiry
    <3>1. PICK e : e = ring[b][1]
      OBVIOUS
    <3>2. store' = store \/ store' = [store EXCEPT ![e.ip] = e.expiry]
      BY <1>3, <2>3, <3>1, Zenon DEF Flush
    <3>3. DOMAIN store = Clients
      BY DEF TypeOK
    <3>4. store'[x] = store[x] \/ (e.ip = x /\ store'[x] = e.expiry)
      <4>1. PICK k, v : k = e.ip /\ v = e.expiry
        OBVIOUS
      <4>2. CASE store' = store
        BY <4>2
      <4>3. CASE store' = [store EXCEPT ![k] = v]
        <5>1. store'[x] = IF x = k THEN v ELSE store[x]
          BY <3>3, <4>3
        <5> QED
          BY <4>1, <5>1
      <4> QED
        BY <3>2, <4>1, <4>2, <4>3
    <3> QED
      BY <3>1, <3>4
  <2>6. store'[x] <= seen[x] + RedisTtl
    BY <1>o, <2>3, <2>5 DEF RunOut
  <2>7. /\ \A y \in Boxes \ {b} : ring'[y] = ring[y]
        /\ ring'[b] = Tail(ring[b])
    BY <1>3 DEF Flush, TypeOK
  <2>8. \A i \in DOMAIN ring'[b] :
          i + 1 \in DOMAIN ring[b] /\ ring'[b][i] = ring[b][i + 1]
    BY <2>2, <2>7
  <2>9. ASSUME NEW y \in Boxes, NEW i \in DOMAIN ring'[y], ring'[y][i].ip = x
        PROVE  ring'[y][i].expiry <= seen[x] + RedisTtl
    <3>1. CASE y = b
      BY <1>o, <2>8, <2>9, <3>1 DEF RunOut
    <3>2. CASE y # b
      BY <1>o, <2>7, <2>9, <3>2 DEF RunOut
    <3> QED
      BY <3>1, <3>2
  <2> QED
    BY <1>o, <2>1, <2>6, <2>9 DEF RunOut
<1>4. ASSUME NEW e \in open, NEW ok \in BOOLEAN, Log(e, ok)
      PROVE  RunOut(x, seen[x])'
  <2>1. e.box \in Boxes /\ e.ip \in Clients
    BY DEF TypeOK, Failed
  <2>2. /\ UNCHANGED <<clock, pulled, ring, store>>
        /\ seen' = [seen EXCEPT ![e.ip] = clock]
    BY <1>4 DEF Log
  <2>3. \/ softban' = softban
        \/ softban' = [softban EXCEPT ![e.box][e.ip] = clock + BlockTime]
    BY <1>4, Zenon DEF Log, Count
  <2>4. CASE x # e.ip
    <3>1. seen'[x] = seen[x]
      BY <2>1, <2>2, <2>4 DEF TypeOK
    <3>2. \A y \in Boxes : softban'[y][x] = softban[y][x]
      <4>1. PICK v, b, c : v = clock + BlockTime /\ b = e.box /\ c = e.ip
        OBVIOUS
      <4>2. CASE softban' = [softban EXCEPT ![b][c] = v]
        <5>1. \A y \in Boxes, z \in Clients :
                softban'[y][z] = IF y = b /\ z = c THEN v ELSE softban[y][z]
          BY <2>1, <4>1, <4>2, OneEnd DEF TypeOK
        <5> QED
          BY <2>4, <4>1, <5>1
      <4> QED
        BY <2>3, <4>1, <4>2
    <3> QED
      BY <1>o, <2>2, <3>1, <3>2 DEF RunOut
  <2>5. CASE x = e.ip
    <3>1. seen'[x] = clock /\ RunOut(x, clock)
      <4>1. seen'[x] = clock
        BY <2>2, <2>5 DEF TypeOK
      <4>2. RunOut(x, clock)
        BY <1>l
      <4> QED
        BY <4>1, <4>2
    <3>2. \A y \in Boxes : \/ softban'[y][x] = softban[y][x]
                            \/ softban'[y][x] = clock + BlockTime
      <4>1. PICK v, b, c : v = clock + BlockTime /\ b = e.box /\ c = e.ip
        OBVIOUS
      <4>2. CASE softban' = softban
        BY <4>2
      <4>3. CASE softban' = [softban EXCEPT ![b][c] = v]
        <5>1. \A y \in Boxes, z \in Clients :
                softban'[y][z] = IF y = b /\ z = c THEN v ELSE softban[y][z]
          BY <2>1, <4>1, <4>3, OneEnd DEF TypeOK
        <5> QED
          BY <4>1, <5>1
      <4> QED
        BY <2>3, <4>1, <4>2, <4>3
    <3>3. \A y \in Boxes : \/ softban'[y][x] <= clock + BlockTtl
                            \/ softban'[y][x] <= clock + BlockTime
      <4>1. clock + BlockTime \in Nat /\ clock + BlockTime <= clock + BlockTime
        BY <1>n, <1>s
      <4> QED
        BY <3>1, <3>2, <4>1 DEF RunOut
    <3> QED
      BY <2>2, <3>1, <3>3 DEF RunOut
  <2> QED
    BY <2>4, <2>5
<1>5. ASSUME NEW b \in Boxes, NEW c \in Clients, NEW l \in Local,
             Request(b, c, l)
      PROVE  RunOut(x, seen[x])'
  <2>1. seen' = [seen EXCEPT ![c] = clock]
    BY <1>5, Zenon DEF Request, Pass, Observe, Block, Answered
  <2>2. /\ UNCHANGED <<clock, pulled, store>>
        /\ \/ softban' = softban
           \/ softban' = [softban EXCEPT ![b][c] = clock + BlockTtl]
        /\ \/ ring' = ring
           \/ ring' = [ring EXCEPT ![b] = Append(@, Fresh(c))]
    BY <1>5, Zenon DEF Request, Pass, Observe, Block, Persist, Export
  <2>3. Fresh(c).ip = c /\ Fresh(c).expiry = clock + RedisTtl
    BY DEF Fresh
  <2>4. ASSUME NEW y \in Boxes, NEW i \in DOMAIN ring'[y]
        PROVE  \/ i \in DOMAIN ring[y] /\ ring'[y][i] = ring[y][i]
               \/ ring'[y][i] = Fresh(c)
    <3>1. ring'[y] = ring[y] \/ ring'[y] = Append(ring[y], Fresh(c))
      BY <2>2 DEF TypeOK
    <3>2. ring[y] \in Seq(Ban)
      BY DEF TypeOK
    <3> QED
      BY <2>4, <3>1, <3>2
  <2>5. CASE x # c
    <3>1. seen'[x] = seen[x]
      BY <2>1, <2>5 DEF TypeOK
    <3>2. \A y \in Boxes : softban'[y][x] = softban[y][x]
      <4>1. PICK v : v = clock + BlockTtl
        OBVIOUS
      <4>2. CASE softban' = [softban EXCEPT ![b][c] = v]
        <5>1. \A y \in Boxes, z \in Clients :
                softban'[y][z] = IF y = b /\ z = c THEN v ELSE softban[y][z]
          BY <4>2, OneEnd DEF TypeOK
        <5> QED
          BY <2>5, <5>1
      <4> QED
        BY <2>2, <4>1, <4>2
    <3>3. \A y \in Boxes : \A i \in DOMAIN ring'[y] :
            ring'[y][i].ip = x => ring'[y][i].expiry <= seen[x] + RedisTtl
      BY <1>o, <2>3, <2>4, <2>5 DEF RunOut
    <3> QED
      BY <1>o, <2>2, <3>1, <3>2, <3>3 DEF RunOut
  <2>6. CASE x = c
    <3>1. seen'[x] = clock
      BY <2>1, <2>6 DEF TypeOK
    <3>2. RunOut(x, clock)
      BY <1>l
    <3>3. \A y \in Boxes : \/ softban'[y][x] = softban[y][x]
                            \/ softban'[y][x] = clock + BlockTtl
      <4>1. PICK v : v = clock + BlockTtl
        OBVIOUS
      <4>2. CASE softban' = softban
        BY <4>2
      <4>3. CASE softban' = [softban EXCEPT ![b][c] = v]
        <5>1. \A y \in Boxes, z \in Clients :
                softban'[y][z] = IF y = b /\ z = c THEN v ELSE softban[y][z]
          BY <4>3, OneEnd DEF TypeOK
        <5> QED
          BY <4>1, <5>1
      <4> QED
        BY <2>2, <4>1, <4>2, <4>3
    <3>4. /\ clock + BlockTtl \in Nat /\ clock + BlockTtl <= clock + BlockTtl
          /\ clock + RedisTtl \in Nat /\ clock + RedisTtl <= clock + RedisTtl
      BY <1>n, <1>s
    <3>5. \A y \in Boxes : \/ softban'[y][x] <= clock + BlockTtl
                            \/ softban'[y][x] <= clock + BlockTime
      BY <3>2, <3>3, <3>4 DEF RunOut
    <3>6. \A y \in Boxes : \A i \in DOMAIN ring'[y] :
            ring'[y][i].ip = x => ring'[y][i].expiry <= clock + RedisTtl
      BY <2>3, <2>4, <3>2, <3>4 DEF RunOut
    <3> QED
      BY <2>2, <3>1, <3>2, <3>5, <3>6 DEF RunOut
  <2> QED
    BY <2>5, <2>6
<1> QED
  BY <1>1, <1>2, <1>3, <1>4, <1>5 DEF Next

\* For any boxes, clients, weights and lifetimes: boxes do not prolong a ban
\* among themselves, however they publish and pull it (sentinel_redis_get_reply,
\* ngx_sentinel_preaccess_handler); it ends within one lifetime of its client's
\* last request.
THEOREM BansEnd == Spec => []BansRunOut
<1>1. Init => SeenPast /\ BansRunOut
  <2> SUFFICES ASSUME Init PROVE SeenPast /\ BansRunOut
    OBVIOUS
  <2>1. BlockTtl \in Nat /\ BlockTime \in Nat /\ RedisTtl \in Nat
    BY SharingAssumption
  <2>2. \A b \in Boxes : ring[b] = << >> /\ DOMAIN ring[b] = {}
    BY DEF Init
  <2>3. BansRunOut
    BY <2>1, <2>2 DEF Init, BansRunOut
  <2> QED
    BY <2>3 DEF Init, SeenPast
<1>2. TypeOK /\ SeenPast /\ BansRunOut /\ [Next]_vars
        => SeenPast' /\ BansRunOut'
  BY NextSeen, NextRunOut
<1> QED
  BY <1>1, <1>2, TypeCorrect, PTL DEF Spec
=============================================================================
