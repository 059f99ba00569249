------------------------------- MODULE CsSink -------------------------------
(***************************************************************************)
(* The CrowdSec decision sink: sentinel_cssink.c.  Requests of any worker  *)
(* put local bans on a ring in shared memory.  Worker 0, the owner, drains *)
(* it into a private table of decisions at every tick of its timer, drops  *)
(* the expired ones and rewrites the decisions file: line by line to a     *)
(* temporary file, which is then renamed over the real one.  Something     *)
(* outside imports the file at any moment.                                 *)
(***************************************************************************)
EXTENDS Integers, Sequences, FiniteSets

CONSTANTS
  Clients,
  Free,        \* what an empty slot holds
  Ttl,         \* sentinel_cs_sink_ttl
  Cap,         \* NGX_SENTINEL_CSSINK_RING: of the ring and of the table
  MaxBans,     \* bounds on the environment: bans,
  MaxFaults,   \* failures of the file system and deaths of the owner,
  MaxReloads,  \* configuration reloads
  MaxTime      \* and the clock

\* When a ban may end.
Times == 0 .. MaxTime + Ttl

ASSUME SinkAssumption ==
  /\ \A c \in Clients, t \in Times : Free # [ip |-> c, expiry |-> t]
  /\ Ttl \in Nat \ {0}
  /\ Cap \in Nat \ {0}
  /\ MaxBans \in Nat
  /\ MaxFaults \in Nat
  /\ MaxReloads \in Nat
  /\ MaxTime \in Nat

VARIABLES
  clock,
  ring,    \* the sink ring, from tail to head
  slot,    \* slot[i]: the owner's i-th sentinel_cssink_decision_t
  count,   \* set_count
  tick,    \* the owner's handler in progress
  tmp,     \* <path>.tmp
  file,    \* <path>
  env      \* what the environment has done so far

vars == <<clock, ring, slot, count, tick, tmp, file, env>>

Ban == [ip : Clients, expiry : Times]

\* A line of the file names a client and how long its ban still has to run.
Line == [ip : Clients, duration : Times]

\* A file holds lines; want is what the writer set out to write.
Empty == [lines |-> {}, want |-> {}]

\* The handler: idle, drain, or write with the next slot to be formatted; off
\* when it has no timer.
Idle == [at |-> "idle", now |-> 0, drained |-> 0, next |-> 1]

Off == [Idle EXCEPT !.at = "off"]

Fault == env.faults < MaxFaults /\ env' = [env EXCEPT !.faults = @ + 1]

-----------------------------------------------------------------------------
\* Mutant: one ban too many on the ring.
EnqueueOneMore(c) ==
  /\ env.bans < MaxBans
  /\ env' = [env EXCEPT !.bans = @ + 1]
  /\ ring' = IF Len(ring) <= Cap
             THEN Append(ring, [ip |-> c, expiry |-> clock + Ttl]) ELSE ring
  /\ UNCHANGED <<clock, slot, count, tick, tmp, file>>

\* sentinel_cssink_enqueue_ban; a full ring drops the ban.
Enqueue(c) ==
  /\ env.bans < MaxBans
  /\ env' = [env EXCEPT !.bans = @ + 1]
  /\ ring' = IF Len(ring) < Cap
             THEN Append(ring, [ip |-> c, expiry |-> clock + Ttl]) ELSE ring
  /\ UNCHANGED <<clock, slot, count, tick, tmp, file>>

-----------------------------------------------------------------------------
(* The table of decisions *)

Slots == 1 .. Cap

Used == {i \in Slots : slot[i] # Free}

SlotsOf(c) == {i \in Used : slot[i].ip = c}

FirstFree == CHOOSE i \in Slots \ Used : \A j \in Slots \ Used : i <= j

\* sentinel_cssink_set_upsert: refresh, insert, or drop when full.
Upsert(e) ==
  \/ /\ SlotsOf(e.ip) # {}
     /\ slot' = [i \in Slots |-> IF i \in SlotsOf(e.ip) THEN e ELSE slot[i]]
     /\ UNCHANGED count
  \/ /\ SlotsOf(e.ip) = {}
     /\ Used = Slots
     /\ UNCHANGED <<slot, count>>
  \/ /\ SlotsOf(e.ip) = {}
     /\ Used # Slots
     /\ slot' = [slot EXCEPT ![FirstFree] = e]
     /\ count' = count + 1

Expired(now) == {i \in Used : slot[i].expiry <= now}

\* sentinel_cssink_set_expire
ExpireSet(now) ==
  /\ slot' = [i \in Slots |-> IF i \in Expired(now) THEN Free ELSE slot[i]]
  /\ count' = count - Cardinality(Expired(now))

\* sentinel_cssink_format_decision
Format(e, now) == [ip |-> e.ip, duration |-> e.expiry - now]

\* The lines a rewrite at time now has to produce.
Wanted(now) == {Format(slot[i], now) : i \in Used \ Expired(now)}

-----------------------------------------------------------------------------
(* The owner's timer handler *)

Begin ==
  /\ tick.at = "idle"
  /\ tick' = [Idle EXCEPT !.at = "drain", !.now = clock]
  /\ UNCHANGED <<clock, ring, slot, count, tmp, file, env>>

Draining == tick.at = "drain" /\ ring # << >> /\ tick.drained < Cap

\* Mutant: an expired ban is passed over before tail is advanced.
DrainOneStuck ==
  LET e == Head(ring)
  IN  /\ Draining
      /\ tick' = [tick EXCEPT !.drained = @ + 1]
      /\ \/ /\ e.expiry > tick.now
            /\ Upsert(e)
            /\ ring' = Tail(ring)
         \/ /\ e.expiry <= tick.now
            /\ UNCHANGED <<slot, count, ring>>
      /\ UNCHANGED <<clock, tmp, file, env>>

\* The oldest ban is taken off the ring, under the mutex, and goes into the
\* table unless it had expired when the handler began.
DrainOne ==
  LET e == Head(ring)
  IN  /\ Draining
      /\ ring' = Tail(ring)
      /\ tick' = [tick EXCEPT !.drained = @ + 1]
      /\ \/ /\ e.expiry > tick.now
            /\ Upsert(e)
         \/ /\ e.expiry <= tick.now
            /\ UNCHANGED <<slot, count>>
      /\ UNCHANGED <<clock, tmp, file, env>>

\* Mutant: the file is only rewritten when something was drained.
OpenIfDrained ==
  /\ tick.at = "drain"
  /\ ~Draining
  /\ ExpireSet(tick.now)
  /\ \/ /\ tick.drained > 0
        /\ tmp' = [lines |-> {}, want |-> Wanted(tick.now)]
        /\ tick' = [tick EXCEPT !.at = "write"]
     \/ /\ tick.drained = 0
        /\ tick' = Idle
        /\ UNCHANGED tmp
  /\ UNCHANGED <<clock, ring, file, env>>

\* Expire, then sentinel_cssink_rewrite opens the temporary file.
Open ==
  /\ tick.at = "drain"
  /\ ~Draining
  /\ ExpireSet(tick.now)
  /\ tmp' = [lines |-> {}, want |-> Wanted(tick.now)]
  /\ tick' = [tick EXCEPT !.at = "write"]
  /\ UNCHANGED <<clock, ring, file, env>>

\* The temporary file cannot be opened.
OpenFails ==
  /\ tick.at = "drain"
  /\ ~Draining
  /\ Fault
  /\ ExpireSet(tick.now)
  /\ tick' = Idle
  /\ UNCHANGED <<clock, ring, tmp, file>>

Writing == tick.at = "write" /\ tick.next <= Cap

\* Mutant: the lines are written to the decisions file itself.
WriteLineInPlace ==
  /\ Writing
  /\ tick' = [tick EXCEPT !.next = @ + 1]
  /\ tmp' = IF tick.next \in Used
            THEN [tmp EXCEPT !.lines = @ \cup {Format(slot[tick.next], tick.now)}]
            ELSE tmp
  /\ file' = tmp'
  /\ UNCHANGED <<clock, ring, slot, count, env>>

\* One slot's line is written, if the slot is used.
WriteLine ==
  /\ Writing
  /\ tick' = [tick EXCEPT !.next = @ + 1]
  /\ tmp' = IF tick.next \in Used
            THEN [tmp EXCEPT !.lines = @ \cup {Format(slot[tick.next], tick.now)}]
            ELSE tmp
  /\ UNCHANGED <<clock, ring, slot, count, file, env>>

\* A write, the close or the rename fails: the temporary file is deleted.
RewriteFails ==
  /\ tick.at = "write"
  /\ Fault
  /\ tmp' = Empty
  /\ tick' = Idle
  /\ UNCHANGED <<clock, ring, slot, count, file>>

Rename ==
  /\ tick.at = "write"
  /\ ~Writing
  /\ file' = tmp
  /\ tmp' = Empty
  /\ tick' = Idle
  /\ UNCHANGED <<clock, ring, slot, count, env>>

-----------------------------------------------------------------------------
(* Processes and time *)

\* sentinel_cssink_init_process of a new worker 0: an empty table, and the
\* timer or, without memory for the table, none.  The ring, and the files, stay.
StartOwner(timer) ==
  /\ slot' = [i \in Slots |-> Free]
  /\ count' = 0
  /\ tick' = timer
  /\ UNCHANGED <<clock, ring, tmp, file>>

\* The owner dies anywhere in its handler and is respawned.
Crash ==
  /\ Fault
  /\ StartOwner(Idle)

\* A reload: the old owner's handler does nothing once ngx_exiting is set, and
\* the new one's first tick comes a second after its start, so that the old one
\* has ended a tick that it was in.
Reload ==
  /\ env.reloads < MaxReloads
  /\ env' = [env EXCEPT !.reloads = @ + 1]
  /\ tick.at \in {"idle", "off"}
  /\ StartOwner(Idle)

\* A reload whose worker 0 gets no memory for the table: nobody drains the ring
\* until there is another worker 0.
ReloadFails ==
  /\ env.reloads < MaxReloads /\ env.faults < MaxFaults
  /\ env' = [env EXCEPT !.reloads = @ + 1, !.faults = @ + 1]
  /\ tick.at \in {"idle", "off"}
  /\ StartOwner(Off)

Tick ==
  /\ clock < MaxTime
  /\ clock' = clock + 1
  /\ UNCHANGED <<ring, slot, count, tick, tmp, file, env>>

-----------------------------------------------------------------------------
Init ==
  /\ clock = 0
  /\ ring = << >>
  /\ slot = [i \in Slots |-> Free]
  /\ count = 0
  /\ tick = Idle
  /\ tmp = Empty
  /\ file = Empty
  /\ env = [bans |-> 0, faults |-> 0, reloads |-> 0]

Handler ==
  \/ Begin \/ DrainOne \/ Open \/ OpenFails \/ WriteLine \/ RewriteFails \/ Rename

Next ==
  \/ Handler \/ Crash \/ Reload \/ ReloadFails \/ Tick
  \/ \E c \in Clients : Enqueue(c)

\* The owner's timer fires again and again, and its handler returns.
Spec == Init /\ [][Next]_vars /\ WF_vars(Handler)
-----------------------------------------------------------------------------
TypeOK ==
  /\ clock \in 0 .. MaxTime
  /\ ring \in Seq(Ban) /\ Len(ring) <= Cap
  /\ slot \in [Slots -> Ban \cup {Free}]
  /\ count \in 0 .. Cap
  /\ tick \in [at : {"idle", "drain", "write", "off"}, now : 0 .. MaxTime,
               drained : 0 .. Cap, next : 1 .. Cap + 1]
  /\ tmp \in [lines : SUBSET Line, want : SUBSET Line]
  /\ file \in [lines : SUBSET Line, want : SUBSET Line]
  /\ env \in [bans : 0 .. MaxBans, faults : 0 .. MaxFaults,
              reloads : 0 .. MaxReloads]

\* An importer never sees a partial file: whenever it reads, the file holds
\* every decision of one tick, even if the owner failed or died in a rewrite,
\* and each client once, whatever the order of inserts, refreshes and expiries.
FileWhole ==
  /\ file.lines = file.want
  /\ \A x, y \in file.lines : x.ip = y.ip => x = y

Listed(c) == \E l \in file.lines : l.ip = c

Decided(c) == \E i \in SlotsOf(c) : slot[i].expiry > clock

\* A decision that lasts gets into the file, unless its owner goes.
DecisionsExported == \A c \in Clients : Decided(c) ~> (Listed(c) \/ ~Decided(c))

\* Every ban leaves the ring, over crashes and reloads of its only consumer,
\* while there is one.
RingDrained == []<>(ring = << >> \/ tick.at = "off")
=============================================================================
