------------------------------- MODULE Tarpit -------------------------------
(***************************************************************************)
(* The tarpit of sentinel_tarpit.c: connections held open by a timer-      *)
(* driven trickle of bytes, and the per-worker counters in shared memory   *)
(* that bound their number.  A worker reserves a slot by summing the       *)
(* counters of all workers, one atomic read at a time, and then adding one *)
(* to its own; a pool cleanup gives it back.  Workers are processes that   *)
(* may be killed and respawned, and a configuration reload starts a new    *)
(* cycle of workers while the old ones drain.                              *)
(*                                                                         *)
(* A worker is single-threaded: its handlers do not interleave with each   *)
(* other, only with other workers'.  Timers fire on time.                  *)
(***************************************************************************)
EXTENDS Integers, FiniteSets

CONSTANTS
  Conns,       \* client connections
  NWorkers,    \* worker_processes
  MaxConns,    \* sentinel_tarpit_max_conns
  Delay,       \* Delay[c]: sentinel_tarpit_delay of configuration cycle c
  Lifetime,    \* Lifetime[c]: its sentinel_tarpit_max_lifetime
  Bytes,       \* sentinel_tarpit_bytes, in units of one tick's bytes
  MaxCycles    \* bound on the configuration cycles

ASSUME TarpitAssumption ==
  /\ IsFiniteSet(Conns)
  /\ NWorkers \in Nat \ {0}
  /\ MaxConns \in Nat \ {0}
  /\ Bytes \in Nat \ {0}
  /\ MaxCycles \in Nat \ {0}

ASSUME TimesAssumption ==
  /\ Delay \in [1 .. MaxCycles -> Nat \ {0}]
  /\ Lifetime \in [1 .. MaxCycles -> Nat \ {0}]

\* A worker process is its configuration cycle and its index ngx_worker.
Procs == (1 .. MaxCycles) \X (1 .. NWorkers)

VARIABLES
  cycle,   \* the current configuration cycle
  status,  \* status[p]: none, running, exiting or dead
  slot,    \* slot[p]: tarpit_conns[ngx_worker], in the block of p's cycle
  res,     \* res[p]: p's reservation in progress
  conn     \* the tarpitted connections and their contexts

vars == <<cycle, status, slot, res, conn>>

\* A reservation: idle, summing the slots (next is the index to be read), or
\* reserved, between the counter's increment and the end of the setup.
NoRes == [at |-> "idle", next |-> 1, sum |-> 0]

Reservation == [at : {"idle", "sum", "reserved"}, next : Nat \ {0}, sum : Int]

\* A context: its worker, the time left to its deadline, the time left to its
\* timer, the ticks of bytes sent, and whether it also waits for writability.
Context ==
  [owner : Procs, left : Int, wait : Int, sent : Nat, blocked : BOOLEAN]

Of(p) == {x \in DOMAIN conn : conn[x].owner = p}

\* p can run a handler now.
Ready(p) == status[p] \in {"running", "exiting"} /\ res[p].at = "idle"

-----------------------------------------------------------------------------
(* sentinel_tarpit_start *)

\* A request whose verdict is TARPIT enters sentinel_tarpit_reserve.
Begin(p) ==
  /\ status[p] = "running"
  /\ res[p].at = "idle"
  /\ res' = [res EXCEPT ![p] = [NoRes EXCEPT !.at = "sum"]]
  /\ UNCHANGED <<cycle, status, slot, conn>>

\* sentinel_tarpit_sum reads one slot.
ReadSlot(p) ==
  /\ res[p].at = "sum"
  /\ res[p].next <= NWorkers
  /\ res' = [res EXCEPT ![p].next = @ + 1,
                        ![p].sum = @ + slot[<<p[1], res[p].next>>]]
  /\ UNCHANGED <<cycle, status, slot, conn>>

\* NGX_HTTP_CLOSE: the request is answered 444.
AtCap(p) ==
  /\ res[p].at = "sum"
  /\ res[p].next > NWorkers
  /\ res[p].sum >= MaxConns
  /\ res' = [res EXCEPT ![p] = NoRes]
  /\ UNCHANGED <<cycle, status, slot, conn>>

\* Mutant: the cap is compared with one too many.
ReserveOffByOne(p) ==
  /\ res[p].at = "sum"
  /\ res[p].next > NWorkers
  /\ res[p].sum <= MaxConns
  /\ res' = [res EXCEPT ![p] = [NoRes EXCEPT !.at = "reserved"]]
  /\ slot' = [slot EXCEPT ![p] = @ + 1]
  /\ UNCHANGED <<cycle, status, conn>>

\* The compare-and-set of the worker's own slot, which nobody else writes.
Reserve(p) ==
  /\ res[p].at = "sum"
  /\ res[p].next > NWorkers
  /\ res[p].sum < MaxConns
  /\ res' = [res EXCEPT ![p] = [NoRes EXCEPT !.at = "reserved"]]
  /\ slot' = [slot EXCEPT ![p] = @ + 1]
  /\ UNCHANGED <<cycle, status, conn>>

\* The context or the cleanup cannot be allocated (manual release), or the
\* headers cannot be sent or are the whole response (the request is finalized
\* and the cleanup releases).
GiveUp(p) ==
  /\ res[p].at = "reserved"
  /\ res' = [res EXCEPT ![p] = NoRes]
  /\ slot' = [slot EXCEPT ![p] = @ - 1]
  /\ UNCHANGED <<cycle, status, conn>>

\* The connection is held; its first tick is due after the whole delay, even
\* if this is longer than the lifetime.
Hold(p, x) ==
  /\ res[p].at = "reserved"
  /\ x \notin DOMAIN conn
  /\ res' = [res EXCEPT ![p] = NoRes]
  /\ conn' = [y \in {x} \cup DOMAIN conn |->
                IF y = x
                THEN [owner |-> p, left |-> Lifetime[p[1]],
                      wait |-> Delay[p[1]], sent |-> 0, blocked |-> FALSE]
                ELSE conn[y]]
  /\ UNCHANGED <<cycle, status, slot>>

-----------------------------------------------------------------------------
(* sentinel_tarpit_write_handler, run by the timer or, after NGX_AGAIN, by  *)
(* the socket becoming writable.                                            *)

\* Mutant: the timer's handler does nothing in a worker that is shutting down.
FiresUnlessExiting(x) ==
  /\ status[conn[x].owner] = "running"
  /\ res[conn[x].owner].at = "idle"
  /\ conn[x].wait <= 0 \/ conn[x].blocked

Fires(x) ==
  /\ Ready(conn[x].owner)
  /\ conn[x].wait <= 0 \/ conn[x].blocked

\* Deadline or byte budget.
Expired(x) == conn[x].left <= 0 \/ conn[x].sent >= Bytes

\* Mutant: the finishing handler decrements, and the cleanup again.
CloseTwice(x) ==
  /\ conn' = [y \in DOMAIN conn \ {x} |-> conn[y]]
  /\ slot' = [slot EXCEPT ![conn[x].owner] = @ - 2]
  /\ UNCHANGED <<cycle, status, res>>

\* The request is finalized; its pool's cleanup gives the slot back.
Close(x) ==
  /\ conn' = [y \in DOMAIN conn \ {x} |-> conn[y]]
  /\ slot' = [slot EXCEPT ![conn[x].owner] = @ - 1]
  /\ UNCHANGED <<cycle, status, res>>

\* Mutant: the next tick is due after the delay, whatever is left.
NextWaitUnbounded(x) == Delay[conn[x].owner[1]]

\* The next tick, bounded by what is left to the deadline (something is: the
\* handler has looked at the deadline before it gets here).
NextWait(x) ==
  LET delay == Delay[conn[x].owner[1]]
  IN  IF conn[x].left < delay THEN conn[x].left ELSE delay

\* The connection stays, with a timer set.
Rearm(x, sent, blocked) ==
  /\ conn' = [conn EXCEPT ![x] = [owner |-> conn[x].owner, left |-> conn[x].left,
                                  wait |-> NextWait(x), sent |-> sent,
                                  blocked |-> blocked]]
  /\ UNCHANGED <<cycle, status, slot, res>>

Expire(x) == Fires(x) /\ Expired(x) /\ Close(x)

\* The client is gone, the output filter fails, or the write event cannot be
\* registered.
Fail(x) == Fires(x) /\ ~Expired(x) /\ Close(x)

\* NGX_AGAIN: nothing is counted; the write event and a timer are waited for.
Block(x) ==
  /\ Fires(x)
  /\ ~Expired(x)
  /\ Rearm(x, conn[x].sent, TRUE)

\* NGX_OK: a tick's bytes were sent; the last of the budget ends the request.
Drip(x) ==
  /\ Fires(x)
  /\ ~Expired(x)
  /\ conn[x].sent + 1 < Bytes
  /\ Rearm(x, conn[x].sent + 1, FALSE)

DripLast(x) ==
  /\ Fires(x)
  /\ ~Expired(x)
  /\ conn[x].sent + 1 >= Bytes
  /\ Close(x)

-----------------------------------------------------------------------------
(* Processes and time. *)

\* A worker is killed: its connections are gone, no cleanup runs.
Kill(p) ==
  /\ status[p] \in {"running", "exiting"}
  /\ status' = [status EXCEPT ![p] = "dead"]
  /\ res' = [res EXCEPT ![p] = NoRes]
  /\ conn' = [x \in DOMAIN conn \ Of(p) |-> conn[x]]
  /\ UNCHANGED <<cycle, slot>>

\* Mutant: init_process leaves the slot alone.
RespawnKeepingSlot(p) ==
  /\ status[p] = "dead"
  /\ p[1] = cycle
  /\ status' = [status EXCEPT ![p] = "running"]
  /\ UNCHANGED <<cycle, slot, res, conn>>

\* The master respawns a worker of the current cycle; init_process zeroes
\* its slot.
Respawn(p) ==
  /\ status[p] = "dead"
  /\ p[1] = cycle
  /\ status' = [status EXCEPT ![p] = "running"]
  /\ slot' = [slot EXCEPT ![p] = 0]
  /\ UNCHANGED <<cycle, res, conn>>

\* A reload.  ngx_sentinel_tarpit_shm_init runs again; nginx leaves shm.exists
\* unset when a zone is carried over from the old cycle on POSIX systems, so a
\* new block is allocated and zeroed.  The workers of the old cycle drain.
Reload ==
  /\ cycle < MaxCycles
  /\ cycle' = cycle + 1
  /\ status' = [p \in Procs |->
                  CASE p[1] = cycle + 1 -> "running"
                    [] p[1] # cycle + 1 /\ status[p] = "running" -> "exiting"
                    [] OTHER -> status[p]]
  /\ UNCHANGED <<slot, res, conn>>

Aged(t) == [owner |-> t.owner, left |-> t.left - 1, wait |-> t.wait - 1,
            sent |-> t.sent, blocked |-> t.blocked]

\* Time passes, but never beyond a due timer.
Advance ==
  /\ DOMAIN conn # {}
  /\ \A x \in DOMAIN conn : conn[x].wait > 0
  /\ conn' = [x \in DOMAIN conn |-> Aged(conn[x])]
  /\ UNCHANGED <<cycle, status, slot, res>>

-----------------------------------------------------------------------------
Init ==
  /\ cycle = 1
  /\ status = [p \in Procs |-> IF p[1] = 1 THEN "running" ELSE "none"]
  /\ slot = [p \in Procs |-> 0]
  /\ res = [p \in Procs |-> NoRes]
  /\ conn = << >>

Start(p) ==
  \/ ReadSlot(p) \/ AtCap(p) \/ Reserve(p) \/ GiveUp(p)
  \/ \E x \in Conns : Hold(p, x)

Handle(x) == Expire(x) \/ Fail(x) \/ Block(x) \/ Drip(x) \/ DripLast(x)

Next ==
  \/ \E p \in Procs : Begin(p) \/ Start(p) \/ Kill(p) \/ Respawn(p)
  \/ \E x \in DOMAIN conn : Handle(x)
  \/ Reload
  \/ Advance

\* Time passes, a handler that was entered returns, and the event loop runs the
\* expired timers in each of its rounds, between whatever requests it serves
\* (hence strong fairness: a handler in progress disables the others).
Fairness ==
  /\ WF_vars(Advance)
  /\ \A p \in Procs : WF_vars(Start(p))
  /\ \A x \in Conns :
       SF_vars(x \in DOMAIN conn /\ conn[x].wait <= 0 /\ Handle(x))

Spec == Init /\ [][Next]_vars /\ Fairness
-----------------------------------------------------------------------------
TypeOK ==
  /\ cycle \in 1 .. MaxCycles
  /\ status \in [Procs -> {"none", "running", "exiting", "dead"}]
  /\ slot \in [Procs -> Nat]
  /\ res \in [Procs -> Reservation]
  /\ DOMAIN conn \subseteq Conns
  /\ conn \in [DOMAIN conn -> Context]

\* What a worker's slot has to count.
Held(p) == Cardinality(Of(p)) + IF res[p].at = "reserved" THEN 1 ELSE 0

\* Exactly one increment and one decrement per tarpitted connection, on every
\* exit path: the slot of a live worker is the number of its connections, and
\* a killed worker's stranded count is gone once it runs again.
SlotsExact ==
  \A p \in Procs : status[p] \in {"running", "exiting"} => slot[p] = Held(p)

\* What makes SlotsExact inductive: only live workers hold connections or
\* reserve, and the block of a cycle yet to come is zeroed.
Bookkeeping ==
  /\ \A x \in DOMAIN conn : status[conn[x].owner] \in {"running", "exiting"}
  /\ \A p \in Procs :
       /\ res[p].at # "idle" => status[p] \in {"running", "exiting"}
       /\ p[1] > cycle => status[p] = "none"
       /\ status[p] = "none" => slot[p] = 0

Inv == TypeOK /\ SlotsExact /\ Bookkeeping

\* The connections a cycle's workers hold or are about to hold.
Total(c) ==
  Cardinality({x \in DOMAIN conn : conn[x].owner[1] = c})
  + Cardinality({p \in Procs : p[1] = c /\ res[p].at = "reserved"})

\* The comment of sentinel_tarpit_reserve: the sum is read slot by slot while
\* other workers reserve, yet the cap is overshot by at most one connection
\* per other worker.
OvershootBounded == \A c \in 1 .. MaxCycles : Total(c) <= MaxConns + NWorkers - 1

\* The cap is global: a reload does not hand out the slots a second time.
CapSurvivesReload == Cardinality(DOMAIN conn) <= MaxConns + NWorkers - 1

\* Nothing has been sent or tried on connection t: it waits for the timer that
\* sentinel_tarpit_start has set.
FirstTick(t) == t.sent = 0 /\ ~t.blocked

\* How far connection t may overrun its deadline: the delays and lifetimes that
\* are accepted overlap, and only the first timer ignores the lifetime.
Overrun(t) == Delay[t.owner[1]] - Lifetime[t.owner[1]]

\* "A long delay can never overshoot max_lifetime" (the comment of
\* sentinel_tarpit_write_handler), however slowly the client reads, once its
\* first tick has run.  The comment's claim is false of the first tick, which
\* sentinel_tarpit_start sets: a delay beyond the lifetime holds a connection
\* until then, but for no more than this one delay.
LifetimeBounded ==
  \A x \in DOMAIN conn :
    \/ conn[x].left >= 0
    \/ FirstTick(conn[x]) /\ conn[x].left >= - Overrun(conn[x])

\* What makes LifetimeBounded inductive: no timer but the first is set beyond
\* the deadline.
TimersBounded ==
  \A x \in DOMAIN conn :
    /\ 0 <= conn[x].wait
    /\ \/ conn[x].wait <= conn[x].left
       \/ /\ FirstTick(conn[x])
          /\ conn[x].wait = conn[x].left + Overrun(conn[x])

\* Every tarpitted connection is let go, even if its client never reads and
\* the worker that holds it is draining.
EveryoneReleased == \A x \in Conns : x \in DOMAIN conn ~> x \notin DOMAIN conn
=============================================================================
