---------------------------- MODULE MCErrRateZone ----------------------------
(* Model-checking instances of ErrRateZone. *)
EXTENDS ErrRateZone

Symmetry == Permutations(Keys) \cup Permutations(Workers)
=============================================================================
