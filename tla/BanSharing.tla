----------------------------- MODULE BanSharing -----------------------------
(***************************************************************************)
(* How a block decision travels.  Boxes judge requests with their local    *)
(* signals, their soft-bans and the bans they have learnt from Redis; a    *)
(* block writes a soft-ban, is published through Redis and exported to the *)
(* CrowdSec decisions file (ngx_sentinel_preaccess_handler), and a failed  *)
(* response counts towards a ban (ngx_sentinel_log_handler).  The zones    *)
(* and the Redis client are reduced to what they promise: ErrRateZone,     *)
(* CrowdsecFeed and RedisSync model them in detail.                        *)
(***************************************************************************)
EXTENDS Score, Sequences, FiniteSets

CONSTANTS
  Boxes,
  Clients,
  Local,       \* what the local signals may say of a request
  WindowThreshold,  \* the error-rate zone's threshold
  BlockTime,   \* the error-rate zone's block time
  BlockTtl,    \* sentinel_block_ttl, 0: off
  RedisTtl,    \* sentinel_redis_ttl
  RingSize,    \* NGX_SENTINEL_REDIS_PUSH_RING
  MaxOpen,     \* bound on the failed requests that wait for the log phase
  MaxTime      \* bound on the clock; the zone's interval is longer

ASSUME SharingAssumption ==
  /\ Local \subseteq Inputs
  /\ \A in \in Local :
       in.cs = "none" /\ in.count = 0 /\ "blocked" \notin in.raised
  /\ WindowThreshold \in Nat \ {0}
  /\ BlockTime \in Nat
  /\ BlockTtl \in Nat
  /\ RedisTtl \in Nat \ {0}
  /\ RingSize \in Nat \ {0}
  /\ MaxOpen \in Nat
  /\ MaxTime \in Nat

VARIABLES
  clock,
  softban,  \* softban[b][c]: blocked_until in the error-rate zone
  errors,   \* errors[b][c]: the events in the window of that zone
  open,     \* failed requests whose log phase is still to come
  pulled,   \* pulled[b][c]: the end of the ban in the CrowdSec zone
  ring,     \* ring[b]: bans waiting to be published
  exported, \* <<b, c>>: b has handed c to the decision sink (see CsSink)
  store,    \* store[c]: the end of the ban that Redis holds
  local,    \* history: who offended where: blocked for the local signals or
            \* failed upstream
  seen      \* history: seen[c]: when a box last dealt with a request of c

vars ==
  <<clock, softban, errors, open, pulled, ring, exported, store, local, seen>>

\* The times a ban may end.
Times == 0 .. MaxTime + BlockTtl + BlockTime + RedisTtl

Ban == [ip : Clients, expiry : Times]

\* What is published of a client that is blocked now.
Fresh(c) == [ip |-> c, expiry |-> clock + RedisTtl]

\* A request that failed, for what the box answered itself or behind it.
Failed == [box : Boxes, ip : Clients, own : BOOLEAN]

-----------------------------------------------------------------------------
(* A request *)

\* sentinel_errrate_signal: errrate_blocked
Softbanned(b, c) == softban[b][c] > clock

\* sentinel_crowdsec_signal: crowdsec_hit, always with action ban here
PulledHit(b, c) == pulled[b][c] > clock

\* ngx_sentinel_get_ctx: what the zones of box b add to the local signals l of
\* a request of client c.
Gathered(b, c, l) ==
  [l EXCEPT !.raised = IF Softbanned(b, c) THEN @ \cup {"blocked"} ELSE @,
            !.count = IF Softbanned(b, c) THEN WindowThreshold
                      ELSE errors[b][c],
            !.cs = IF PulledHit(b, c) THEN "ban" ELSE @]

\* TTL soft-ban; ok is FALSE when the zone has no room.
Persist(b, c, ok) ==
  IF BlockTtl > 0 /\ ok
  THEN /\ softban' = [softban EXCEPT ![b][c] = clock + BlockTtl]
       /\ errors' = [errors EXCEPT ![b][c] = 0]
  ELSE UNCHANGED <<softban, errors>>

\* Mutant: a full ring is written over.
ExportUnbounded(b, c, in) ==
  \/ /\ in.cs # "none"
     /\ UNCHANGED <<ring, exported>>
  \/ /\ in.cs = "none"
     /\ ring' = [ring EXCEPT ![b] = Append(@, Fresh(c))]
     /\ exported' = exported \cup {<<b, c>>}

\* Redis push and decision sink, unless CrowdSec had a say in the block.
Export(b, c, in) ==
  \/ /\ in.cs # "none"
     /\ UNCHANGED <<ring, exported>>
  \/ /\ in.cs = "none"
     /\ ring' = IF Len(ring[b]) < RingSize
                THEN [ring EXCEPT ![b] = Append(@, Fresh(c))]
                ELSE ring
     /\ exported' = exported \cup {<<b, c>>}

\* The response has left; when it failed the log phase will count it.
Answered(b, c, failed, own) ==
  /\ failed => Cardinality(open) < MaxOpen
  /\ open' = IF failed THEN open \cup {[box |-> b, ip |-> c, own |-> own]}
             ELSE open
  /\ seen' = [seen EXCEPT ![c] = clock]

\* Mutant: TARPIT falls through to the soft-ban of BLOCK.
PassPersisting(b, c, l, failed) ==
  LET v == Verdict(Gathered(b, c, l))
  IN  /\ v # "block"
      /\ Persist(b, c, v = "tarpit")
      /\ Answered(b, c, failed, FALSE)
      /\ UNCHANGED <<clock, pulled, ring, exported, store, local>>

\* ngx_sentinel_preaccess_handler: the verdict is ALLOW, CHALLENGE or TARPIT.
Pass(b, c, l, failed) ==
  /\ Verdict(Gathered(b, c, l)) # "block"
  /\ Answered(b, c, failed, FALSE)
  /\ UNCHANGED <<clock, softban, errors, pulled, ring, exported, store, local>>

\* The verdict is BLOCK.
Block(b, c, l, ok) ==
  LET in == Gathered(b, c, l)
  IN  /\ Verdict(in) = "block"
      /\ Persist(b, c, ok)
      /\ Export(b, c, in)
      /\ Answered(b, c, TRUE, TRUE)
      /\ local' = IF Verdict(l) = "block" THEN local \cup {<<b, c>>} ELSE local
      /\ UNCHANGED <<clock, pulled, store>>

\* A location in shadow mode: computed and logged, never enforced.
Observe(b, c, failed) ==
  /\ Answered(b, c, failed, FALSE)
  /\ UNCHANGED <<clock, softban, errors, pulled, ring, exported, store, local>>

\* sentinel_shm_errrate_record, seen from the ban it may set.
Count(b, c) ==
  IF Softbanned(b, c) THEN UNCHANGED <<softban, errors>>
  ELSE IF errors[b][c] + 1 >= WindowThreshold
       THEN /\ softban' = [softban EXCEPT ![b][c] = clock + BlockTime]
            /\ errors' = [errors EXCEPT ![b][c] = 0]
       ELSE /\ errors' = [errors EXCEPT ![b][c] = @ + 1]
            /\ UNCHANGED softban

\* ngx_sentinel_log_handler for a status of 400 or more; ok is FALSE when the
\* zone has no room.
Log(e, ok) ==
  /\ e \in open
  /\ open' = open \ {e}
  /\ IF ok THEN Count(e.box, e.ip) ELSE UNCHANGED <<softban, errors>>
  /\ local' = IF e.own THEN local ELSE local \cup {<<e.box, e.ip>>}
  /\ seen' = [seen EXCEPT ![e.ip] = clock]
  /\ UNCHANGED <<clock, pulled, ring, exported, store>>

-----------------------------------------------------------------------------
(* Redis *)

\* sentinel_redis_flush_push: one ban is published, unless it has expired.
Flush(b) ==
  LET e == Head(ring[b])
  IN  /\ ring[b] # << >>
      /\ ring' = [ring EXCEPT ![b] = Tail(@)]
      /\ store' = IF e.expiry > clock THEN [store EXCEPT ![e.ip] = e.expiry]
                  ELSE store
      /\ UNCHANGED <<clock, softban, errors, open, pulled, exported, local,
                     seen>>

\* Mutant: a pulled ban starts its time to live again.
PullRenewing(b, c) ==
  /\ store[c] > clock
  /\ pulled' = [pulled EXCEPT ![b][c] = clock + RedisTtl]
  /\ UNCHANGED <<clock, softban, errors, open, ring, exported, store, local,
                 seen>>

\* sentinel_redis_get_reply: a ban that Redis holds is taken over.
Pull(b, c) ==
  /\ store[c] > clock
  /\ pulled' = [pulled EXCEPT ![b][c] = store[c]]
  /\ UNCHANGED <<clock, softban, errors, open, ring, exported, store, local,
                 seen>>

Tick ==
  /\ clock < MaxTime
  /\ clock' = clock + 1
  /\ UNCHANGED <<softban, errors, open, pulled, ring, exported, store, local,
                 seen>>

-----------------------------------------------------------------------------
Init ==
  /\ clock = 0
  /\ softban = [b \in Boxes |-> [c \in Clients |-> 0]]
  /\ errors = [b \in Boxes |-> [c \in Clients |-> 0]]
  /\ open = {}
  /\ pulled = [b \in Boxes |-> [c \in Clients |-> 0]]
  /\ ring = [b \in Boxes |-> << >>]
  /\ exported = {}
  /\ store = [c \in Clients |-> 0]
  /\ local = {}
  /\ seen = [c \in Clients |-> 0]

Request(b, c, l) ==
  \/ \E failed \in BOOLEAN : Pass(b, c, l, failed) \/ Observe(b, c, failed)
  \/ \E ok \in BOOLEAN : Block(b, c, l, ok)

Next ==
  \/ Tick
  \/ \E e \in open, ok \in BOOLEAN : Log(e, ok)
  \/ \E b \in Boxes :
       \/ Flush(b)
       \/ \E c \in Clients : Pull(b, c) \/ \E l \in Local : Request(b, c, l)

Spec == Init /\ [][Next]_vars
-----------------------------------------------------------------------------
TypeOK ==
  /\ clock \in 0 .. MaxTime
  /\ softban \in [Boxes -> [Clients -> Times]]
  /\ errors \in [Boxes -> [Clients -> 0 .. WindowThreshold - 1]]
  /\ open \subseteq Failed
  /\ pulled \in [Boxes -> [Clients -> Times]]
  /\ ring \in [Boxes -> Seq(Ban)]
  /\ \A b \in Boxes : Len(ring[b]) <= RingSize
  /\ exported \subseteq Boxes \X Clients
  /\ store \in [Clients -> Times]
  /\ local \subseteq Boxes \X Clients
  /\ seen \in [Clients -> 0 .. MaxTime]

\* Some box has seen client c do what it bans for.
Guilty(c) == \E b \in Boxes : <<b, c>> \in local

\* No ban comes from nothing: a client that offended at no box is banned,
\* published, exported and pulled nowhere, and has no error against him.
BansHaveOrigin ==
  \A c \in Clients :
    ~Guilty(c) =>
      /\ store[c] = 0
      /\ \A b \in Boxes :
           /\ softban[b][c] = 0 /\ errors[b][c] = 0
           /\ pulled[b][c] = 0 /\ <<b, c>> \notin exported
           /\ \A i \in DOMAIN ring[b] : ring[b][i].ip # c

\* redis.c: only locally-originated block decisions are published.  A box
\* publishes and exports only clients that offended at that box.
OnlyLocalPublished ==
  \A b \in Boxes, c \in Clients :
    \/ <<b, c>> \in local
    \/ /\ <<b, c>> \notin exported
       /\ \A i \in DOMAIN ring[b] : ring[b][i].ip # c

\* sentinel_score_compute: a CrowdSec ban is not nullified.  Wherever a pulled
\* ban runs, every request of its client is blocked, crawler's name or allowlist
\* or not.  README.md:549-551 says the same.  The comment at the head of
\* sentinel_score.c (line 31) and phase3-crowdsec-spec.md:255-262, with its test
\* 9, say the opposite of a crawler's name: that it overrides every signal, the
\* ban included.
PulledBanBlocks ==
  \A b \in Boxes, c \in Clients, l \in Local :
    PulledHit(b, c) => Verdict(Gathered(b, c, l)) = "block"

\* redis.c: no ban loop.  Boxes that pull each other's bans, enforce them and
\* publish them again (OnlyLocalPublished does not hold) never prolong a ban by
\* themselves: every ban on a client, in a zone, on a ring or in Redis, ends
\* within one lifetime of the last request of his that any box dealt with.
BansRunOut ==
  \A c \in Clients :
    /\ store[c] <= seen[c] + RedisTtl
    /\ \A b \in Boxes :
         /\ pulled[b][c] <= seen[c] + RedisTtl
         /\ \/ softban[b][c] <= seen[c] + BlockTtl
            \/ softban[b][c] <= seen[c] + BlockTime
         /\ \A i \in DOMAIN ring[b] :
              ring[b][i].ip = c => ring[b][i].expiry <= seen[c] + RedisTtl
=============================================================================
