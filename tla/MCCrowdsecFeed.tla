--------------------------- MODULE MCCrowdsecFeed ---------------------------
(* Model-checking instances of CrowdsecFeed. *)
EXTENDS CrowdsecFeed

CONSTANTS k1, k2, k3

Ban(k, e) == [ip |-> k, action |-> "ban", expiry |-> e]
Captcha(k, e) == [ip |-> k, action |-> "captcha", expiry |-> e]

Good(b) == [body |-> b, count |-> Len(Decisions(b)), intact |-> TRUE]
Torn(b) == [body |-> b, count |-> Len(b), intact |-> FALSE]

\* Updates, removals, an ended decision, a repeated client, the default time
\* to live, an emptied feed, a torn file of the size of a good one, a tolerable
\* and an intolerable share of malformed lines.
MCFeeds ==
  {Good(<<Ban(k1, 9), Ban(k2, 9), Ban(k3, 9)>>),
   Good(<<Captcha(k1, 9), Ban(k2, 3), Ban(k3, 1)>>),
   Good(<<Ban(k3, 0)>>),
   Good(<< >>),
   Torn(<<Ban(k1, 9)>>),
   Good(<<Ban(k1, 9), Malformed, Captcha(k1, 3), Ban(k3, 9)>>),
   Good(<<Ban(k2, 9), Malformed>>)}

\* Three clients, and as many more nodes as the feed that replaces them.
SmallFeeds ==
  {Good(<<Ban(k1, 9), Ban(k2, 9)>>),
   Good(<<Ban(k3, 9), Ban(k1, 9), Ban(k2, 9)>>)}

MCPulled == {[action |-> "ban", expiry |-> 3]}
=============================================================================
