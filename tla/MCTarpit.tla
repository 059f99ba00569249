------------------------------ MODULE MCTarpit ------------------------------
(* Model-checking instances of Tarpit. *)
EXTENDS Tarpit, TLC

Symmetry == Permutations(Conns)

\* The second configuration has a delay beyond the lifetime.
MCDelay == <<2, 3>>

MCLifetime == <<3, 2>>
=============================================================================
