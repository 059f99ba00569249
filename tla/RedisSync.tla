----------------------------- MODULE RedisSync -----------------------------
(***************************************************************************)
(* Sharing bans through Redis: sentinel_redis.c.  Requests of any worker   *)
(* put local bans on a ring in shared memory.  Each worker has a timer and *)
(* an asynchronous hiredis connection; the timer's handler connects,       *)
(* drains the ring into SET commands and starts a pull, a chain of SCAN    *)
(* commands whose replies issue GETs that fill the CrowdSec table.  hiredis*)
(* answers commands in order and, when a connection goes, runs the         *)
(* callbacks of the unanswered ones with no reply.                         *)
(*                                                                         *)
(* A worker is single-threaded, and so is its event loop: callbacks and    *)
(* timers run one at a time.  The ring has its own mutex, taken per entry. *)
(***************************************************************************)
EXTENDS Integers, SequencesExt

CONSTANTS
  Keys,        \* client addresses
  Workers,
  Leavers,     \* the workers that may be told to shut down
  Page,        \* Page[k]: the SCAN cursor whose reply holds k's key
  Pages,       \* SCAN cursors are 0 .. Pages - 1
  Password,    \* whether sentinel_redis_password is set
  Ttl,         \* sentinel_redis_ttl
  RingSize,    \* NGX_SENTINEL_REDIS_PUSH_RING
  BackoffMin,  \* NGX_SENTINEL_REDIS_BACKOFF_MIN_MS
  BackoffMax,  \* NGX_SENTINEL_REDIS_BACKOFF_MAX_MS
  MaxBans,     \* bounds on the environment: bans enqueued,
  MaxFaults,   \* failures of Redis, the network, memory or a worker,
  MaxTime      \* and the clock

ASSUME RedisAssumption ==
  /\ IsFiniteSet(Keys)
  /\ Leavers \subseteq Workers
  /\ Pages \in Nat \ {0}
  /\ Page \in [Keys -> 0 .. Pages - 1]
  /\ Password \in BOOLEAN
  /\ Ttl \in Nat \ {0}
  /\ RingSize \in Nat \ {0}
  /\ BackoffMin \in Nat \ {0}
  /\ BackoffMax \in Nat
  /\ BackoffMin <= BackoffMax
  /\ MaxBans \in Nat
  /\ MaxFaults \in Nat
  /\ MaxTime \in Nat

VARIABLES
  clock,    \* seconds
  ring,     \* the push ring, from tail to head
  store,    \* Redis: the ban keys, the expiry in each value and the key's end
  table,    \* the CrowdSec zone: the pulled clients and their expiries
  link,     \* link[w]: sentinel_redis_ctx_t
  pending,  \* pending[w]: the commands hiredis holds callbacks for
  replies,  \* replies[w]: the answers to the first of them
  pc,       \* pc[w]: idle, or flush while the timer's handler drains the ring
  status,   \* status[w]: run, exiting or gone
  env       \* what the environment has done so far: bans, faults

vars == <<clock, ring, store, table, link, pending, replies, pc, status, env>>

\* A queued ban; id tells two bans of one client apart.
Entry == [id : Nat, ip : Keys, expiry : Nat]

Auth    == [op |-> "auth"]
Scan(c) == [op |-> "scan", cursor |-> c]
Get(k)  == [op |-> "get", ip |-> k]
Set(e, ttl) == [op |-> "set", entry |-> e, ttl |-> ttl]

Down ==
  [state |-> "down", timer |-> TRUE, backoff |-> BackoffMin,
   scan_cursor |-> 0, pull_inflight |-> FALSE, auth_pending |-> FALSE,
   now |-> 0, drained |-> 0]

Fault == env.faults < MaxFaults /\ env' = [env EXCEPT !.faults = @ + 1]

-----------------------------------------------------------------------------
(* Connection lifecycle. *)

\* Mutant: the timer is armed whether or not the worker is shutting down.
ArmedAlways(w) == TRUE

\* Timers are not re-armed in a worker that is shutting down.
Armed(w) == status[w] = "run"

\* Mutant: the backoff has no ceiling.
DoubledUncapped(b) == 2 * b

Doubled(b) == IF 2 * b > BackoffMax THEN BackoffMax ELSE 2 * b

\* sentinel_redis_schedule_reconnect, called n times in a row.
Reconnect(w, l, n) ==
  IF Armed(w)
  THEN [l EXCEPT !.timer = TRUE,
                 !.backoff = IF n = 2 THEN Doubled(Doubled(@)) ELSE Doubled(@)]
  ELSE l

\* sentinel_redis_teardown
Torn(l) == [Down EXCEPT !.timer = l.timer, !.backoff = l.backoff]

\* Neither commands nor replies outlive the connection.
Detached(w) ==
  /\ pending' = [pending EXCEPT ![w] = << >>]
  /\ replies' = [replies EXCEPT ![w] = << >>]

\* The connection of w goes.  hiredis runs the callbacks of the outstanding
\* commands with no reply, of which only that of AUTH does more than clear a
\* flag, and then the connect or disconnect callback: the backoff is doubled
\* once by each.
Lose(w) ==
  /\ link' = [link EXCEPT ![w] =
                Reconnect(w, Torn(link[w]), IF link[w].auth_pending THEN 2 ELSE 1)]
  /\ Detached(w)

\* The event loop of w runs a timer or a callback.
Runs(w) == status[w] # "gone" /\ pc[w] = "idle"

\* sentinel_redis_on_connect
OnConnect(w) ==
  /\ Runs(w)
  /\ link[w].state = "connecting"
  /\ link' = [link EXCEPT ![w].state = "up", ![w].backoff = BackoffMin]
  /\ UNCHANGED <<clock, ring, store, table, pending, replies, pc, status, env>>

\* The attempt fails, or an established connection is lost.
Disconnect(w) ==
  /\ Runs(w)
  /\ link[w].state # "down"
  /\ Fault
  /\ Lose(w)
  /\ UNCHANGED <<clock, ring, store, table, pc, status>>

-----------------------------------------------------------------------------
(* The timer's handler. *)

Fires(w, s) == Runs(w) /\ link[w].timer /\ link[w].state = s

\* sentinel_redis_connect: the attempt is under way, AUTH is queued with it.
Connect(w) ==
  /\ Fires(w, "down")
  /\ link' = [link EXCEPT ![w].state = "connecting",
                          ![w].auth_pending = Password,
                          ![w].timer = Armed(w)]
  /\ pending' = [pending EXCEPT ![w] = IF Password THEN <<Auth>> ELSE << >>]
  /\ UNCHANGED <<clock, ring, store, table, replies, pc, status, env>>

\* The attempt fails at once, or its socket or AUTH cannot be set up.
ConnectError(w) ==
  /\ Fires(w, "down")
  /\ Fault
  /\ link' = [link EXCEPT ![w] = Reconnect(w, [@ EXCEPT !.timer = FALSE], 1)]
  /\ UNCHANGED <<clock, ring, store, table, pending, replies, pc, status>>

\* Nothing is done before the connection is up and AUTH has been answered.
TimerWaits(w) ==
  /\ \/ Fires(w, "connecting")
     \/ Fires(w, "up") /\ link[w].auth_pending
  /\ link' = [link EXCEPT ![w].timer = Armed(w)]
  /\ UNCHANGED <<clock, ring, store, table, pending, replies, pc, status, env>>

TimerWorks(w) ==
  /\ Fires(w, "up")
  /\ ~link[w].auth_pending
  /\ pc' = [pc EXCEPT ![w] = "flush"]
  /\ link' = [link EXCEPT ![w].timer = FALSE, ![w].now = clock]
  /\ UNCHANGED <<clock, ring, store, table, pending, replies, status, env>>

\* The loop of sentinel_redis_flush_push goes on.
Draining(w) == pc[w] = "flush" /\ ring # << >> /\ link[w].drained < RingSize

Drained(w) == pc[w] = "flush" /\ (ring = << >> \/ link[w].drained >= RingSize)

\* Mutant: the second that has begun is left out of the time to live.
PublishShort(w, e) ==
  /\ pending' = [pending EXCEPT ![w] =
                   Append(@, Set(e, e.expiry - link[w].now - 1))]
  /\ link' = [link EXCEPT ![w].drained = @ + 1]

\* Issue the SET of entry e, to live for as long as e has left.
Publish(w, e) ==
  /\ pending' = [pending EXCEPT ![w] = Append(@, Set(e, e.expiry - link[w].now))]
  /\ link' = [link EXCEPT ![w].drained = @ + 1]

\* Mutant: the first entry is read under the mutex and removed in a later
\* round, as if tail were advanced after the SET.
FlushOneLate(w) ==
  LET e == Head(ring)
  IN  /\ Draining(w)
      /\ ring' = IF link[w].drained > 0 THEN Tail(ring) ELSE ring
      /\ Publish(w, e)
      /\ UNCHANGED <<clock, store, table, replies, pc, status, env>>

\* Mutant: an expired entry is passed over before tail is advanced.
FlushOneStuck(w) ==
  LET e == Head(ring)
  IN  /\ Draining(w)
      /\ \/ /\ e.expiry <= link[w].now
            /\ UNCHANGED <<ring, pending, link>>
         \/ /\ e.expiry > link[w].now
            /\ ring' = Tail(ring)
            /\ Publish(w, e)
      /\ UNCHANGED <<clock, store, table, replies, pc, status, env>>

\* One entry is taken off the ring, under the mutex, and published, unless it
\* had expired when the flush began.
FlushOne(w) ==
  LET e == Head(ring)
  IN  /\ Draining(w)
      /\ ring' = Tail(ring)
      /\ \/ /\ e.expiry <= link[w].now
            /\ UNCHANGED <<pending, link>>
         \/ /\ e.expiry > link[w].now
            /\ Publish(w, e)
      /\ UNCHANGED <<clock, store, table, replies, pc, status, env>>

\* Mutant: the flag stays set although the SCAN could not be issued.
FinishTickFlagLeft(w, ok) ==
  LET pull == ok /\ ~link[w].pull_inflight
  IN  /\ pc' = [pc EXCEPT ![w] = "idle"]
      /\ link' = [link EXCEPT ![w].timer = Armed(w),
                              ![w].now = 0,
                              ![w].drained = 0,
                              ![w].pull_inflight = TRUE]
      /\ pending' = [pending EXCEPT ![w] = IF pull THEN Append(@, Scan(0)) ELSE @]

\* The end of the handler: start a pull unless one is under way; ok tells
\* whether its SCAN could be issued.
FinishTick(w, ok) ==
  LET pull == ok /\ ~link[w].pull_inflight
  IN  /\ pc' = [pc EXCEPT ![w] = "idle"]
      /\ link' = [link EXCEPT ![w].timer = Armed(w),
                              ![w].now = 0,
                              ![w].drained = 0,
                              ![w].pull_inflight = pull \/ @,
                              ![w].scan_cursor =
                                IF link[w].pull_inflight THEN @ ELSE 0]
      /\ pending' = [pending EXCEPT ![w] = IF pull THEN Append(@, Scan(0)) ELSE @]

FlushEnd(w) ==
  /\ Drained(w)
  /\ FinishTick(w, TRUE)
  /\ UNCHANGED <<clock, ring, store, table, replies, status, env>>

\* hiredis has no memory for the SCAN.
FlushEndFails(w) ==
  /\ Drained(w)
  /\ ~link[w].pull_inflight
  /\ Fault
  /\ FinishTick(w, FALSE)
  /\ UNCHANGED <<clock, ring, store, table, replies, status>>

\* hiredis has no memory for the SET: the entry is lost, the rest stays.
FlushOneFails(w) ==
  /\ Draining(w)
  /\ Head(ring).expiry > link[w].now
  /\ Fault
  /\ ring' = Tail(ring)
  /\ FinishTick(w, TRUE)
  /\ UNCHANGED <<clock, store, table, replies, status>>

-----------------------------------------------------------------------------
(* Redis executes the commands of a connection in order. *)

Held(k) == k \in DOMAIN store /\ store[k].ends > clock

\* What Redis answers to command c; the key of a ban may outlive the expiry in
\* its value, as EX counts from when the SET is executed.
Answer(c) ==
  CASE c.op = "scan" ->
         [keys   |-> {k \in Keys : Held(k) /\ Page[k] = c.cursor},
          cursor |-> (c.cursor + 1) % Pages]
    [] c.op = "get" -> [expiry |-> IF Held(c.ip) THEN store[c.ip].expiry ELSE 0]
    [] OTHER -> [ok |-> TRUE]

Executed(w) == Len(replies[w])

Execute(w) ==
  LET c == pending[w][Executed(w) + 1]
  IN  /\ link[w].state = "up"
      /\ Executed(w) < Len(pending[w])
      /\ replies' = [replies EXCEPT ![w] = Append(@, Answer(c))]
      /\ \/ /\ c.op # "set"
            /\ UNCHANGED store
         \/ /\ c.op = "set"
            /\ store' = [k \in {c.entry.ip} \cup DOMAIN store |->
                           IF k = c.entry.ip
                           THEN [expiry |-> c.entry.expiry, ends |-> clock + c.ttl]
                           ELSE store[k]]
      /\ UNCHANGED <<clock, ring, table, link, pending, pc, status, env>>

-----------------------------------------------------------------------------
(* The callbacks. *)

\* The reply to the first outstanding command of w, of kind op, is here.
Arrives(w, op) ==
  /\ Runs(w)
  /\ replies[w] # << >>
  /\ Head(pending[w]).op = op

Answered(w) == replies' = [replies EXCEPT ![w] = Tail(@)]

\* sentinel_redis_auth_reply
AuthReply(w) ==
  /\ Arrives(w, "auth")
  /\ Answered(w)
  /\ pending' = [pending EXCEPT ![w] = Tail(@)]
  /\ link' = [link EXCEPT ![w].auth_pending = FALSE]
  /\ UNCHANGED <<clock, ring, store, table, pc, status, env>>

\* AUTH is refused: torn down, once more by the disconnect callback.
AuthRefused(w) ==
  /\ Arrives(w, "auth")
  /\ Fault
  /\ Lose(w)
  /\ UNCHANGED <<clock, ring, store, table, pc, status>>

\* sentinel_redis_set_reply only logs.
SetReply(w) ==
  /\ Arrives(w, "set")
  /\ Answered(w)
  /\ pending' = [pending EXCEPT ![w] = Tail(@)]
  /\ UNCHANGED <<clock, ring, store, table, link, pc, status, env>>

\* sentinel_redis_get_reply: a ban that is gone or has expired is ignored.
GetReply(w) ==
  LET k == Head(pending[w]).ip
      e == Head(replies[w]).expiry
  IN  /\ Arrives(w, "get")
      /\ Answered(w)
      /\ pending' = [pending EXCEPT ![w] = Tail(@)]
      /\ \/ /\ e <= clock
            /\ UNCHANGED table
         \/ /\ e > clock
            /\ table' = [x \in {k} \cup DOMAIN table |->
                           IF x = k THEN e ELSE table[x]]
      /\ UNCHANGED <<clock, ring, store, link, pc, status, env>>

\* The reply is no string, or the CrowdSec zone has no room for the ban, which
\* sentinel_redis_get_reply does not look at: the ban is lost until the next
\* pull.
GetReplyLost(w) ==
  /\ Arrives(w, "get")
  /\ Fault
  /\ Answered(w)
  /\ pending' = [pending EXCEPT ![w] = Tail(@)]
  /\ UNCHANGED <<clock, ring, store, table, link, pc, status>>

\* Mutant: the keys of the last page are not asked for.
ScanReplyNotLast(w) ==
  LET r    == Head(replies[w])
      gets == SetToSeq({Get(k) : k \in r.keys})
  IN  /\ Arrives(w, "scan")
      /\ Answered(w)
      /\ pending' = [pending EXCEPT ![w] = IF r.cursor = 0 THEN Tail(@)
                                          ELSE Tail(@) \o gets \o <<Scan(r.cursor)>>]
      /\ link' = [link EXCEPT ![w].scan_cursor = r.cursor,
                              ![w].pull_inflight = r.cursor # 0]
      /\ UNCHANGED <<clock, ring, store, table, pc, status, env>>

\* sentinel_redis_scan_reply: GET every key, then the next page, if any.
ScanReply(w) ==
  LET r    == Head(replies[w])
      gets == SetToSeq({Get(k) : k \in r.keys})
      more == IF r.cursor = 0 THEN << >> ELSE <<Scan(r.cursor)>>
  IN  /\ Arrives(w, "scan")
      /\ Answered(w)
      /\ pending' = [pending EXCEPT ![w] = Tail(@) \o gets \o more]
      /\ link' = [link EXCEPT ![w].scan_cursor = r.cursor,
                              ![w].pull_inflight = r.cursor # 0]
      /\ UNCHANGED <<clock, ring, store, table, pc, status, env>>

\* The reply is an error: the pull ends here.
ScanReplyError(w) ==
  /\ Arrives(w, "scan")
  /\ Fault
  /\ Answered(w)
  /\ pending' = [pending EXCEPT ![w] = Tail(@)]
  /\ link' = [link EXCEPT ![w].pull_inflight = FALSE]
  /\ UNCHANGED <<clock, ring, store, table, pc, status>>

\* No memory for some of the commands: keys are not asked for, and without
\* the next SCAN the pull ends here.
ScanReplyShort(w) ==
  LET r == Head(replies[w])
  IN  /\ Arrives(w, "scan")
      /\ Fault
      /\ Answered(w)
      /\ \E ks \in SUBSET r.keys, next \in BOOLEAN :
           LET gets == SetToSeq({Get(k) : k \in ks})
               more == IF next /\ r.cursor # 0 THEN <<Scan(r.cursor)>> ELSE << >>
           IN  /\ pending' = [pending EXCEPT ![w] = Tail(@) \o gets \o more]
               /\ link' = [link EXCEPT ![w].scan_cursor = r.cursor,
                                       ![w].pull_inflight = more # << >>]
      /\ UNCHANGED <<clock, ring, store, table, pc, status>>

-----------------------------------------------------------------------------
(* Requests, workers and time. *)

\* sentinel_redis_enqueue_ban; a full ring drops the ban.
Enqueue(w, k) ==
  LET e == [id |-> env.bans, ip |-> k, expiry |-> clock + Ttl]
  IN  /\ Runs(w)
      /\ env.bans < MaxBans
      /\ env' = [env EXCEPT !.bans = @ + 1]
      /\ ring' = IF Len(ring) < RingSize THEN Append(ring, e) ELSE ring
      /\ UNCHANGED <<clock, store, table, link, pending, replies, pc, status>>

\* A worker dies, maybe in the middle of a flush, and is respawned:
\* sentinel_redis_init_process starts over.
Crash(w) ==
  /\ status[w] = "run"
  /\ Fault
  /\ link' = [link EXCEPT ![w] = Down]
  /\ Detached(w)
  /\ pc' = [pc EXCEPT ![w] = "idle"]
  /\ UNCHANGED <<clock, ring, store, table, status>>

\* ngx_exiting is set between two handlers.
ToldToExit(w) ==
  /\ w \in Leavers
  /\ status[w] = "run"
  /\ pc[w] = "idle"
  /\ status' = [status EXCEPT ![w] = "exiting"]
  /\ UNCHANGED <<clock, ring, store, table, link, pending, replies, pc, env>>

\* nginx ends a worker once no timer is left.
Leave(w) ==
  /\ status[w] = "exiting"
  /\ pc[w] = "idle"
  /\ ~link[w].timer
  /\ status' = [status EXCEPT ![w] = "gone"]
  /\ link' = [link EXCEPT ![w] = Torn(@)]
  /\ Detached(w)
  /\ UNCHANGED <<clock, ring, store, table, pc, env>>

Tick ==
  /\ clock < MaxTime
  /\ clock' = clock + 1
  /\ UNCHANGED <<ring, store, table, link, pending, replies, pc, status, env>>

-----------------------------------------------------------------------------
Init ==
  /\ clock = 0
  /\ ring = << >>
  /\ store = << >>
  /\ table = << >>
  /\ link = [w \in Workers |-> Down]
  /\ pending = [w \in Workers |-> << >>]
  /\ replies = [w \in Workers |-> << >>]
  /\ pc = [w \in Workers |-> "idle"]
  /\ status = [w \in Workers |-> "run"]
  /\ env = [bans |-> 0, faults |-> 0]

Timer(w) ==
  \/ Connect(w) \/ ConnectError(w) \/ TimerWaits(w) \/ TimerWorks(w)

Flush(w) ==
  \/ FlushOne(w) \/ FlushOneFails(w) \/ FlushEnd(w) \/ FlushEndFails(w)

Callback(w) ==
  \/ OnConnect(w) \/ AuthReply(w) \/ AuthRefused(w)
  \/ SetReply(w) \/ GetReply(w) \/ GetReplyLost(w)
  \/ ScanReply(w) \/ ScanReplyError(w) \/ ScanReplyShort(w)

Next ==
  \/ Tick
  \/ \E w \in Workers :
       \/ Timer(w) \/ Flush(w) \/ Execute(w) \/ Callback(w)
       \/ Disconnect(w) \/ Crash(w) \/ ToldToExit(w) \/ Leave(w)
       \/ \E k \in Keys : Enqueue(w, k)

\* The event loop runs expired timers and ready callbacks, a handler that was
\* entered returns, Redis answers, and nginx ends a worker that may go.
Fairness ==
  \A w \in Workers :
    /\ WF_vars(Timer(w))
    /\ WF_vars(Flush(w))
    /\ WF_vars(Execute(w))
    /\ SF_vars(Callback(w))
    /\ WF_vars(Leave(w))

Spec == Init /\ [][Next]_vars /\ Fairness
-----------------------------------------------------------------------------
TypeOK ==
  /\ clock \in 0 .. MaxTime
  /\ ring \in Seq(Entry)
  /\ Len(ring) <= RingSize
  /\ DOMAIN store \subseteq Keys
  /\ store \in [DOMAIN store -> [expiry : Nat, ends : Nat]]
  /\ DOMAIN table \subseteq Keys /\ table \in [DOMAIN table -> Nat]
  /\ link \in [Workers ->
                 [state : {"down", "connecting", "up"}, timer : BOOLEAN,
                  backoff : BackoffMin .. BackoffMax,
                  scan_cursor : 0 .. Pages - 1, pull_inflight : BOOLEAN,
                  auth_pending : BOOLEAN, now : 0 .. MaxTime,
                  drained : 0 .. RingSize]]
  /\ \A w \in Workers :
       /\ \A i \in DOMAIN pending[w] :
            pending[w][i].op \in {"auth", "scan", "get", "set"}
       /\ Len(replies[w]) <= Len(pending[w])
  /\ pc \in [Workers -> {"idle", "flush"}]
  /\ status \in [Workers -> {"run", "exiting", "gone"}]
  /\ env \in [bans : 0 .. MaxBans, faults : 0 .. MaxFaults]

Outstanding(w, op) == {i \in DOMAIN pending[w] : pending[w][i].op = op}

\* The flags tell the truth about the commands under way: a flag left set
\* with no command to clear it would stop the worker's pulls, or all of its
\* work, for good; two SCAN chains at once would fight over scan_cursor.
FlagsTrue ==
  \A w \in Workers :
    /\ Cardinality(Outstanding(w, "auth")) = IF link[w].auth_pending THEN 1 ELSE 0
    /\ Cardinality(Outstanding(w, "scan")) = IF link[w].pull_inflight THEN 1 ELSE 0
    /\ link[w].state = "down" => pending[w] = << >>

\* "Don't issue work until AUTH settles": nothing else is sent on a connection
\* whose AUTH has not been answered.
AuthFirst ==
  \A w \in Workers : link[w].auth_pending => pending[w] = <<Auth>>

\* A worker that is not shutting down has its timer armed whenever its event
\* loop runs, so that it always comes back to connect, flush and pull.
TimerAlive ==
  \A w \in Workers : status[w] = "run" /\ pc[w] = "idle" => link[w].timer

\* No error path, of whichever callback and at whichever moment, leaves a
\* worker's connection in a state that it cannot get out of.
LinkSound == FlagsTrue /\ AuthFirst /\ TimerAlive

\* The places where ban i is on its way to Redis.
Carried(i) ==
  LET sets(w) == {n \in Outstanding(w, "set") : pending[w][n].entry.id = i}
  IN  {<<"ring", n>> : n \in {n \in DOMAIN ring : ring[n].id = i}}
      \cup UNION {{<<w, n>> : n \in sets(w)} : w \in Workers}

\* The workers drain one ring, yet a ban is taken off it once: never is it on
\* its way to Redis twice.
AtMostOnce == \A i \in 0 .. MaxBans - 1 : Cardinality(Carried(i)) <= 1

\* The time to live of a key is counted from a clock that was read before the
\* flush, by a Redis that gets to the SET later, and a ban may be queued after
\* that clock was read: still no key goes before its ban has ended, and no ban
\* that Redis holds or a box has pulled lasts longer than Ttl from now.
BanLifetimes ==
  /\ \A k \in DOMAIN store : /\ store[k].expiry <= store[k].ends
                             /\ store[k].expiry <= clock + Ttl
  /\ \A k \in DOMAIN table : table[k] <= clock + Ttl

\* Every queued ban leaves the ring, whatever became of the worker that
\* queued it.
RingDrained ==
  \A i \in 0 .. MaxBans - 1 :
    (\E n \in DOMAIN ring : ring[n].id = i) ~> (\A n \in DOMAIN ring : ring[n].id # i)

\* A ban that Redis holds and that does not end reaches the table.
PullDelivers ==
  \A k \in Keys :
    []<>(Held(k) /\ store[k].expiry > clock => k \in DOMAIN table /\ table[k] > clock)

\* A worker that is told to exit does: its timer is not re-armed for ever.
ExitsGracefully == \A w \in Leavers : status[w] = "exiting" ~> status[w] = "gone"
=============================================================================
