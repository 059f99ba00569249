---------------------------- MODULE MCBanSharing ----------------------------
(* Model-checking instances of BanSharing. *)
EXTENDS BanSharing, TLC

\* The default weights and thresholds of sentinel.h.
MCWeight ==
  [s \in Flags \cup {"errrate", "crowdsec"} |->
     CASE s \in {"blocked", "crowdsec"} -> 100
       [] s = "honeypot"             -> 90
       [] s \in {"ja3", "c2ip"}      -> 80
       [] s \in {"scanner", "ja4"}   -> 50
       [] s = "ja4t"                 -> 45
       [] s = "coherence"            -> 40
       [] s = "asn"                  -> 35
       [] s \in {"bot", "velocity"}  -> 30
       [] s = "header"               -> 25
       [] s = "errrate"              -> 1]

MCThreshold ==
  [v \in {"challenge", "tarpit", "block"} |->
     CASE v = "challenge" -> 30 [] v = "tarpit" -> 60 [] v = "block" -> 80]

Clean == [raised |-> {}, count |-> 0, cs |-> "none",
          good |-> FALSE, spoofed |-> FALSE, allowed |-> FALSE]

\* A clean request, one with odd headers from a hosting network, a honeypot
\* hit of a disproved crawler, and clean ones of a claimed crawler and of an
\* allowlisted network.
MCLocal ==
  {Clean,
   [Clean EXCEPT !.raised = {"header", "asn"}],
   [Clean EXCEPT !.raised = {"honeypot"}, !.good = TRUE, !.spoofed = TRUE],
   [Clean EXCEPT !.good = TRUE],
   [Clean EXCEPT !.allowed = TRUE]}
=============================================================================
