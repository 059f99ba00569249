---------------------------- MODULE SlidingWindow ----------------------------
(***************************************************************************)
(* What the identity zone promises its callers: for each client a sliding  *)
(* window of error events, and a ban that runs from the event that fills   *)
(* the window, or from an explicit soft-ban, to its end.  There is no      *)
(* table, no queue and no eviction here; what the zone may forget, and     *)
(* when, is stated instead.  A worker counts on its own clock.  An event   *)
(* may be forgotten only when it is out of the window, give or take the    *)
(* workers' lag, so with MaxLag = 0 the count is exact.  A call the full   *)
(* zone refuses is a step that changes nothing.                            *)
(***************************************************************************)
EXTENDS Integers, FiniteSets

CONSTANTS Keys, Workers, Threshold, Interval, Block, Ttls, MaxLag

VARIABLES
  clock,
  now,     \* now[w]: the time of worker w
  recent,  \* recent[k]: the events of client k that are not yet forgotten
  until    \* until[k]: the end of the last ban of client k, 0 when forgotten

Forgettable(e) == e.ts <= clock - Interval + MaxLag

\* What may be left of client k's events when some are forgotten.
Rests(k) ==
  {evs \in SUBSET recent[k] : \A e \in recent[k] \ evs : Forgettable(e)}

Fades(k) ==
  /\ recent'[k] \in Rests(k)
  /\ until'[k] = until[k] \/ (until[k] <= clock /\ until'[k] = 0)

NewEvent(evs, t) ==
  [cell |-> CHOOSE c \in 1 .. Threshold : \A e \in evs : e.cell # c, ts |-> t]

Init ==
  /\ clock = 0
  /\ now = [w \in Workers |-> 0]
  /\ recent = [k \in Keys |-> {}]
  /\ until = [k \in Keys |-> 0]

Tick ==
  /\ clock' \in {clock, clock + 1}
  /\ now' \in [Workers -> {clock} \cup {clock'} \cup {now[w] : w \in Workers}]
  /\ \A w \in Workers : now'[w] >= now[w] /\ clock' - now'[w] <= MaxLag
  /\ UNCHANGED <<recent, until>>

\* Worker w counts an event of k, unless it sees a ban.  The event that fills
\* the window starts a ban and empties the window.
Count(w, k) ==
  \E evs \in Rests(k) :
    LET open == {e \in evs : e.ts > now[w] - Interval}
        full == open \cup {NewEvent(open, now[w])}
    IN  /\ until[k] <= now[w]
        /\ IF Cardinality(full) >= Threshold
           THEN recent'[k] = {} /\ until'[k] = now[w] + Block
           ELSE recent'[k] = full /\ until'[k] = 0

Ban(w, k, ttl) == recent'[k] = {} /\ until'[k] = now[w] + ttl

\* One call concerns one client; of the others something may be forgotten.
Call(w, k) ==
  /\ Fades(k) \/ Count(w, k) \/ \E ttl \in Ttls : Ban(w, k, ttl)
  /\ \A j \in Keys \ {k} : Fades(j)
  /\ UNCHANGED <<clock, now>>

Next == Tick \/ \E w \in Workers, k \in Keys : Call(w, k)

Spec == Init /\ [][Next]_<<clock, now, recent, until>>
=============================================================================
