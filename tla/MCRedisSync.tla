----------------------------- MODULE MCRedisSync -----------------------------
(* Model-checking instances of RedisSync. *)
EXTENDS RedisSync, TLC

CONSTANTS k1, k2

\* k1 is on the last page, the others on the first.
MCPage == [k \in Keys |-> IF k = k1 THEN Pages - 1 ELSE 0]
=============================================================================
