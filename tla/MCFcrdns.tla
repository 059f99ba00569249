------------------------------ MODULE MCFcrdns ------------------------------
(* Model-checking instances of Fcrdns. *)
EXTENDS Fcrdns, TLC

CONSTANTS g, x, bot, isp, strict, lax

\* g is the crawler's own address, x anybody's; bot is a name of the crawler's
\* domain, isp any other.  The crawler's records, and what may become of them:
\* renamed, withdrawn, handed to x, and x pointing at a name it does not own.
MCWorlds ==
  {[ptr |-> (g :> bot) @@ (x :> isp), fwd |-> (bot :> {g}) @@ (isp :> {x})],
   [ptr |-> (g :> isp) @@ (x :> bot), fwd |-> (bot :> {g}) @@ (isp :> {g, x})],
   [ptr |-> (g :> None) @@ (x :> bot), fwd |-> (bot :> {x}) @@ (isp :> {})]}

MCAccepts == (strict :> {bot}) @@ (lax :> {bot, isp})

MCTtl == (strict :> 2) @@ (lax :> 1)
=============================================================================
