---------------------------- MODULE TarpitProofs ----------------------------
(***************************************************************************)
(* Proofs about the tarpit, for any number of workers, connections and     *)
(* reloads: the counters are exact, never negative, and recover from kills *)
(* (from the inductive invariant Inv), no connection outlives its deadline *)
(* except by the delay before its first tick (from                         *)
(* TimersBounded), and the racing sums overshoot the cap by at most one    *)
(* connection per other worker (from Headroom).                            *)
(***************************************************************************)
EXTENDS Tarpit, FiniteSetTheorems, FunctionTheorems, TLAPS

\* The number of a worker's connections is a natural number.
LEMMA OfFinite ==
  ASSUME TypeOK, NEW p
  PROVE  IsFiniteSet(Of(p)) /\ Cardinality(Of(p)) \in Nat
<1>1. Of(p) \in SUBSET Conns
  BY DEF TypeOK, Of
<1>2. IsFiniteSet(Of(p))
  BY <1>1, FS_Subset, TarpitAssumption
<1>. QED
  BY <1>2, FS_CardinalityType

\* Letting a connection go takes it from its worker's set and no other.
LEMMA OfRemoved ==
  ASSUME TypeOK, NEW x \in DOMAIN conn, NEW p,
         conn' = [y \in DOMAIN conn \ {x} |-> conn[y]]
  PROVE  Cardinality(Of(p))' =
           IF p = conn[x].owner THEN Cardinality(Of(p)) - 1
                                ELSE Cardinality(Of(p))
<1>1. Of(p)' = Of(p) \ {x}
  BY DEF Of
<1>2. x \in Of(p) <=> p = conn[x].owner
  BY DEF Of
<1>. QED
  BY <1>1, <1>2, OfFinite, FS_RemoveElement

\* Holding a connection adds it to its worker's set and to no other.
LEMMA OfAdded ==
  ASSUME TypeOK, NEW x \in Conns, NEW q \in Procs, NEW p, Hold(q, x)
  PROVE  Cardinality(Of(p))' =
           IF p = q THEN Cardinality(Of(p)) + 1 ELSE Cardinality(Of(p))
<1>1. CASE p = q
  <2>1. Of(p)' = Of(p) \cup {x}
    BY <1>1 DEF Of, Hold
  <2>2. x \notin Of(p)
    BY DEF Of, Hold
  <2>. QED
    BY <1>1, <2>1, <2>2, OfFinite, FS_AddElement
<1>2. CASE p # q
  <2>1. Of(p)' = Of(p)
    BY <1>2 DEF Of, Hold
  <2>. QED
    BY <1>2, <2>1
<1>. QED
  BY <1>1, <1>2

\* Every worker has the delay and the lifetime of its configuration.
LEMMA CycleTimes ==
  ASSUME NEW q \in Procs
  PROVE  Delay[q[1]] \in Nat \ {0} /\ Lifetime[q[1]] \in Nat \ {0}
<1>1. q[1] \in 1 .. MaxCycles
  BY DEF Procs
<1>. QED
  BY <1>1, TimesAssumption

\* The context a connection starts with.
LEMMA NewContext ==
  ASSUME NEW q \in Procs
  PROVE  [owner |-> q, left |-> Lifetime[q[1]], wait |-> Delay[q[1]],
          sent |-> 0, blocked |-> FALSE] \in Context
<1>1. Lifetime[q[1]] \in Nat \ {0} /\ Delay[q[1]] \in Nat \ {0}
  BY CycleTimes
<1>. QED
  BY <1>1 DEF Context

-----------------------------------------------------------------------------
\* Initially every slot and every set of connections is empty.
LEMMA InitInv == Init => Inv
<1>. SUFFICES ASSUME Init PROVE Inv
  OBVIOUS
<1>1. TypeOK
  BY TarpitAssumption DEF Init, TypeOK, Reservation, NoRes, Procs
<1>2. \A p \in Procs : Of(p) = {}
  BY DEF Init, Of
<1>3. SlotsExact
  <2>1. \A p \in Procs : slot[p] = 0 /\ res[p].at = "idle"
    BY DEF Init, NoRes
  <2>2. \A p \in Procs : Cardinality(Of(p)) = 0
    BY <1>2, FS_EmptySet
  <2>. QED
    BY <2>1, <2>2 DEF SlotsExact, Held
<1>4. Bookkeeping
  BY DEF Init, Bookkeeping, NoRes, Procs
<1>. QED
  BY <1>1, <1>3, <1>4 DEF Inv

\* The steps of sentinel_tarpit_start up to the cap check move only the
\* reservation.
LEMMA SummingInv ==
  ASSUME Inv, NEW p \in Procs, Begin(p) \/ ReadSlot(p) \/ AtCap(p)
  PROVE  Inv'
<1>. USE DEF Inv
<1>1. TypeOK'
  <2>1. UNCHANGED <<cycle, status, slot, conn>>
    BY DEF Begin, ReadSlot, AtCap
  <2>2. res[p] \in Reservation /\ res \in [Procs -> Reservation]
    BY DEF TypeOK
  <2>3. CASE Begin(p) \/ AtCap(p)
    <3>1. /\ [NoRes EXCEPT !.at = "sum"] \in Reservation
          /\ NoRes \in Reservation
      BY DEF NoRes, Reservation
    <3>2. res' \in [Procs -> Reservation]
      BY <2>2, <2>3, <3>1 DEF Begin, AtCap
    <3>. QED
      BY <2>1, <3>2 DEF TypeOK
  <2>4. CASE ReadSlot(p)
    <3>1. res[p].next \in 1 .. NWorkers /\ p[1] \in 1 .. MaxCycles
      BY <2>2, <2>4, TarpitAssumption DEF ReadSlot, Procs, Reservation
    <3>2. slot[<<p[1], res[p].next>>] \in Nat
      BY <3>1 DEF TypeOK, Procs
    <3>3. PICK n \in Nat : n = slot[<<p[1], res[p].next>>]
      BY <3>2
    <3>4. /\ \A x \in Reservation, m \in Nat \ {0} :
                [x EXCEPT !.next = m] \in Reservation
          /\ \A x \in Reservation, k \in Int :
                [x EXCEPT !.sum = k] \in Reservation
      BY DEF Reservation
    <3>. DEFINE y == [res[p] EXCEPT !.next = @ + 1]
                r == [y EXCEPT !.sum = @ + n]
    <3>5. res' = [res EXCEPT ![p] = r]
      BY <2>2, <2>4, <3>3 DEF ReadSlot
    <3>6. y \in Reservation
      BY <2>2, <3>1, <3>4
    <3>. HIDE DEF y
    <3>7. y.sum + n \in Int
      BY <3>6 DEF Reservation
    <3>8. r \in Reservation
      BY <3>6, <3>7, <3>4
    <3>. HIDE DEF r
    <3>9. res' \in [Procs -> Reservation]
      BY <2>2, <3>5, <3>8
    <3>. QED
      BY <2>1, <3>9 DEF TypeOK
  <2>. QED
    BY <2>3, <2>4
<1>2. \A q \in Procs :
        /\ Of(q)' = Of(q)
        /\ (res'[q].at = "reserved") <=> (res[q].at = "reserved")
  <2>1. conn' = conn
    BY DEF Begin, ReadSlot, AtCap
  <2>2. \A q \in Procs : Of(q)' = Of(q)
    BY <2>1 DEF Of
  <2>3. ASSUME NEW q \in Procs
        PROVE  (res'[q].at = "reserved") <=> (res[q].at = "reserved")
    <3>1. CASE q # p
      BY <3>1 DEF TypeOK, Begin, ReadSlot, AtCap
    <3>2. CASE q = p
      <4>1. res[p] \in Reservation
        BY DEF TypeOK
      <4>2. CASE Begin(p) \/ AtCap(p)
        BY <3>2, <4>1, <4>2 DEF TypeOK, Begin, AtCap, NoRes
      <4>3. CASE ReadSlot(p)
        BY <3>2, <4>1, <4>3 DEF TypeOK, ReadSlot, Reservation
      <4>. QED
        BY <4>2, <4>3
    <3>. QED
      BY <3>1, <3>2
  <2>. QED
    BY <2>2, <2>3
<1>3. SlotsExact'
  BY <1>2 DEF SlotsExact, Held, Begin, ReadSlot, AtCap
<1>4. Bookkeeping'
  <2>1. /\ UNCHANGED <<cycle, status, slot, conn>>
        /\ status[p] \in {"running", "exiting"}
        /\ \A q \in Procs \ {p} : res'[q] = res[q]
    BY DEF Bookkeeping, Begin, ReadSlot, AtCap, TypeOK
  <2>. QED
    BY <2>1 DEF Bookkeeping
<1>. QED
  BY <1>1, <1>3, <1>4

\* The increment and the reservation appear together.
LEMMA ReserveInv ==
  ASSUME Inv, NEW p \in Procs, Reserve(p)
  PROVE  Inv'
<1>. USE DEF Inv
<1>1. TypeOK'
  BY DEF TypeOK, Reserve, NoRes, Reservation
<1>2. \A q \in Procs : Of(q)' = Of(q) /\ Cardinality(Of(q)) \in Nat
  BY OfFinite DEF Of, Reserve
<1>3. /\ res'[p].at = "reserved" /\ res[p].at = "sum"
      /\ slot'[p] = slot[p] + 1
      /\ \A q \in Procs \ {p} : res'[q] = res[q] /\ slot'[q] = slot[q]
      /\ status' = status
  BY DEF TypeOK, Reserve, NoRes, Reservation
<1>4. SlotsExact'
  BY <1>2, <1>3 DEF SlotsExact, Held
<1>5. Bookkeeping'
  BY <1>3 DEF Bookkeeping, Reserve, TypeOK
<1>. QED
  BY <1>1, <1>4, <1>5

\* A reservation that is given up gives its slot back.
LEMMA GiveUpInv ==
  ASSUME Inv, NEW p \in Procs, GiveUp(p)
  PROVE  Inv'
<1>. USE DEF Inv
<1>1. /\ status[p] \in {"running", "exiting"}
      /\ slot[p] = Cardinality(Of(p)) + 1
      /\ Cardinality(Of(p)) \in Nat
  BY OfFinite DEF Bookkeeping, SlotsExact, Held, GiveUp
<1>2. TypeOK'
  BY <1>1 DEF TypeOK, GiveUp, NoRes, Reservation
<1>3. /\ res'[p].at = "idle" /\ slot'[p] = slot[p] - 1
      /\ \A q \in Procs \ {p} : res'[q] = res[q] /\ slot'[q] = slot[q]
      /\ status' = status /\ conn' = conn /\ cycle' = cycle
  BY DEF TypeOK, GiveUp, NoRes
<1>4. \A q \in Procs : Of(q)' = Of(q)
  BY <1>3 DEF Of
<1>5. SlotsExact'
  BY <1>1, <1>3, <1>4 DEF SlotsExact, Held
<1>6. Bookkeeping'
  BY <1>1, <1>3 DEF Bookkeeping, TypeOK
<1>. QED
  BY <1>2, <1>5, <1>6

\* A reservation becomes a connection.
LEMMA HoldInv ==
  ASSUME Inv, NEW p \in Procs, NEW x \in Conns, Hold(p, x)
  PROVE  Inv'
<1>. USE DEF Inv
<1>1. /\ status[p] \in {"running", "exiting"}
      /\ res[p].at = "reserved"
      /\ \A q \in Procs : Cardinality(Of(q)) \in Nat
  BY OfFinite DEF Bookkeeping, Hold
<1>2. /\ res'[p].at = "idle" /\ slot' = slot
      /\ \A q \in Procs \ {p} : res'[q] = res[q]
      /\ status' = status /\ cycle' = cycle
      /\ DOMAIN conn' = {x} \cup DOMAIN conn
      /\ conn'[x].owner = p /\ conn'[x] \in Context
      /\ \A y \in DOMAIN conn : conn'[y] = conn[y]
  BY NewContext DEF TypeOK, Hold, NoRes
<1>3. TypeOK'
  BY <1>2 DEF TypeOK, Hold, NoRes, Reservation
<1>4. \A q \in Procs :
        Cardinality(Of(q))' =
          IF q = p THEN Cardinality(Of(q)) + 1 ELSE Cardinality(Of(q))
  BY OfAdded
<1>5. SlotsExact'
  BY <1>1, <1>2, <1>4 DEF SlotsExact, Held
<1>6. Bookkeeping'
  BY <1>1, <1>2 DEF Bookkeeping, TypeOK
<1>. QED
  BY <1>3, <1>5, <1>6

\* The cleanup's decrement goes to the slot the connection was counted in.
LEMMA CloseInv ==
  ASSUME Inv, NEW x \in DOMAIN conn, Close(x)
  PROVE  Inv'
<1>. USE DEF Inv
<1>. DEFINE p == conn[x].owner
<1>1. p \in Procs /\ status[p] \in {"running", "exiting"}
  BY DEF TypeOK, Context, Bookkeeping
<1>2. \A q \in Procs :
        /\ Cardinality(Of(q)) \in Nat
        /\ Cardinality(Of(q))' =
             IF q = p THEN Cardinality(Of(q)) - 1 ELSE Cardinality(Of(q))
  BY OfFinite, OfRemoved DEF Close
<1>3. Cardinality(Of(p)) # 0
  <2>1. x \in Of(p)
    BY DEF Of
  <2>2. IsFiniteSet(Of(p))
    BY OfFinite
  <2>. QED
    BY <2>1, <2>2, FS_EmptySet
<1>4. /\ slot'[p] = slot[p] - 1
      /\ \A q \in Procs \ {p} : slot'[q] = slot[q]
      /\ slot' \in [Procs -> Int]
      /\ res' = res /\ status' = status /\ cycle' = cycle
      /\ DOMAIN conn' = DOMAIN conn \ {x}
      /\ \A y \in DOMAIN conn' : conn'[y] = conn[y]
  BY <1>1 DEF TypeOK, Close
<1>. HIDE DEF p
<1>5. slot[p] = Held(p)
  BY <1>1 DEF SlotsExact
<1>6. slot'[p] \in Nat
  BY <1>1, <1>2, <1>3, <1>4, <1>5 DEF Held
<1>7. slot' \in [Procs -> Nat]
  BY <1>1, <1>4, <1>6 DEF TypeOK
<1>8. TypeOK'
  BY <1>4, <1>7 DEF TypeOK, Close
<1>9. SlotsExact'
  BY <1>1, <1>2, <1>4 DEF SlotsExact, Held, TypeOK
<1>10. Bookkeeping'
  BY <1>1, <1>4 DEF Bookkeeping, TypeOK
<1>. QED
  BY <1>8, <1>9, <1>10

\* Steps that touch only timers, deadlines and byte counts.
LEMMA TimingInv ==
  ASSUME Inv, UNCHANGED <<cycle, status, slot, res>>,
         DOMAIN conn' = DOMAIN conn,
         conn' \in [DOMAIN conn -> Context],
         \A y \in DOMAIN conn : conn'[y].owner = conn[y].owner
  PROVE  Inv'
<1>. USE DEF Inv
<1>1. \A q \in Procs : Of(q)' = Of(q)
  BY DEF Of
<1>2. TypeOK'
  BY DEF TypeOK
<1>3. SlotsExact'
  BY <1>1 DEF SlotsExact, Held
<1>4. Bookkeeping'
  BY DEF Bookkeeping
<1>. QED
  BY <1>2, <1>3, <1>4

\* A tick that leaves the connection open changes nothing but its timing.
LEMMA TickInv ==
  ASSUME Inv, NEW x \in DOMAIN conn, Block(x) \/ Drip(x)
  PROVE  Inv'
<1>1. conn[x] \in Context /\ NextWait(x) \in Int
  <2>1. conn[x] \in Context /\ conn[x].owner \in Procs /\ conn[x].left \in Int
    BY DEF Inv, TypeOK, Context
  <2>2. Delay[conn[x].owner[1]] \in Nat
    BY <2>1, CycleTimes
  <2>. QED
    BY <2>1, <2>2 DEF NextWait
<1>2. PICK s \in Nat, b \in BOOLEAN : Rearm(x, s, b)
  <2>1. conn[x].sent \in Nat /\ conn[x].sent + 1 \in Nat
    BY <1>1 DEF Context
  <2>. QED
    BY <2>1 DEF Block, Drip
<1>3. /\ DOMAIN conn' = DOMAIN conn
      /\ conn' \in [DOMAIN conn -> Context]
      /\ \A y \in DOMAIN conn : conn'[y].owner = conn[y].owner
  BY <1>1, <1>2 DEF Inv, TypeOK, Context, Rearm
<1>. QED
  BY <1>2, <1>3, TimingInv DEF Rearm

\* The passing of time changes nothing but timing.
LEMMA AdvanceInv ==
  ASSUME Inv, Advance
  PROVE  Inv'
<1>1. /\ DOMAIN conn' = DOMAIN conn
      /\ conn' \in [DOMAIN conn -> Context]
      /\ \A y \in DOMAIN conn : conn'[y].owner = conn[y].owner
  <2>1. \A y \in DOMAIN conn : conn[y] \in Context
    BY DEF Inv, TypeOK
  <2>2. conn' = [y \in DOMAIN conn |->
                   [owner |-> conn[y].owner, left |-> conn[y].left - 1,
                    wait |-> conn[y].wait - 1, sent |-> conn[y].sent,
                    blocked |-> conn[y].blocked]]
    BY <2>1 DEF Advance, Aged, Context
  <2>. QED
    BY <2>1, <2>2 DEF Context
<1>. QED
  BY <1>1, TimingInv DEF Advance

\* A kill takes the worker's connections with it and strands its slot; no
\* invariant speaks of a dead worker's slot.
LEMMA KillInv ==
  ASSUME Inv, NEW p \in Procs, Kill(p)
  PROVE  Inv'
<1>. USE DEF Inv
<1>1. /\ status'[p] = "dead" /\ res'[p] = NoRes
      /\ \A q \in Procs \ {p} : status'[q] = status[q] /\ res'[q] = res[q]
      /\ slot' = slot /\ cycle' = cycle
      /\ DOMAIN conn' = DOMAIN conn \ Of(p)
      /\ \A y \in DOMAIN conn' : conn'[y] = conn[y]
  BY DEF TypeOK, Kill
<1>2. TypeOK'
  BY <1>1 DEF TypeOK, Kill, NoRes, Reservation
<1>3. \A q \in Procs \ {p} : Of(q)' = Of(q)
  BY <1>1 DEF Of
<1>4. SlotsExact'
  BY <1>1, <1>3 DEF SlotsExact, Held
<1>5. \A y \in DOMAIN conn' : conn'[y].owner # p /\ conn'[y].owner \in Procs
  BY <1>1 DEF Of, TypeOK, Context
<1>6. Bookkeeping'
  BY <1>1, <1>5 DEF Bookkeeping, NoRes, TypeOK, Kill
<1>. QED
  BY <1>2, <1>4, <1>6

\* init_process zeroes the slot of a worker that holds nothing yet.
LEMMA RespawnInv ==
  ASSUME Inv, NEW p \in Procs, Respawn(p)
  PROVE  Inv'
<1>. USE DEF Inv
<1>1. /\ status'[p] = "running" /\ slot'[p] = 0 /\ status[p] = "dead"
      /\ \A q \in Procs \ {p} : status'[q] = status[q] /\ slot'[q] = slot[q]
      /\ res' = res /\ cycle' = cycle /\ conn' = conn
  BY DEF TypeOK, Respawn
<1>2. TypeOK'
  BY <1>1 DEF TypeOK, Respawn
<1>3. Of(p) = {} /\ res[p].at = "idle"
  BY <1>1 DEF Of, Bookkeeping
<1>4. \A q \in Procs : Of(q)' = Of(q)
  BY <1>1 DEF Of
<1>5. SlotsExact'
  BY <1>1, <1>3, <1>4, FS_EmptySet DEF SlotsExact, Held
<1>6. p[1] = cycle /\ cycle \in Int
  BY DEF Respawn, TypeOK
<1>7. Bookkeeping'
  BY <1>1, <1>6 DEF Bookkeeping, TypeOK, Context
<1>. QED
  BY <1>2, <1>5, <1>7

\* The workers of the new cycle start with nothing and a zeroed block.
LEMMA ReloadInv ==
  ASSUME Inv, Reload
  PROVE  Inv'
<1>. USE DEF Inv
<1>1. /\ slot' = slot /\ res' = res /\ conn' = conn /\ cycle' = cycle + 1
      /\ cycle \in Nat /\ cycle < MaxCycles
      /\ \A p \in Procs : p[1] \in Nat
  BY TarpitAssumption DEF Reload, TypeOK, Procs
<1>2. \A p \in Procs :
        /\ p[1] = cycle + 1 => status'[p] = "running"
        /\ p[1] # cycle + 1 /\ status[p] = "running" => status'[p] = "exiting"
        /\ p[1] # cycle + 1 /\ status[p] # "running" => status'[p] = status[p]
  BY DEF Reload
<1>3. TypeOK'
  <2>1. \A p \in Procs : status'[p] \in {"none", "running", "exiting", "dead"}
    BY <1>2 DEF TypeOK
  <2>2. status' \in [Procs -> {"none", "running", "exiting", "dead"}]
    BY <2>1 DEF Reload
  <2>. QED
    BY <1>1, <2>2, TarpitAssumption DEF TypeOK
<1>4. \A p \in Procs : Of(p)' = Of(p)
  BY <1>1 DEF Of
<1>5. \A p \in Procs : p[1] = cycle + 1 =>
        status[p] = "none" /\ slot[p] = 0 /\ Of(p) = {} /\ res[p].at = "idle"
  BY <1>1 DEF Bookkeeping, Of
<1>6. ASSUME NEW p \in Procs, status'[p] \in {"running", "exiting"}
      PROVE  slot'[p] = Held(p)'
  <2>1. CASE p[1] = cycle + 1
    <3>1. slot'[p] = 0 /\ Of(p)' = {} /\ res'[p].at = "idle"
      BY <1>1, <1>4, <1>5, <2>1
    <3>2. Cardinality(Of(p))' = 0
      BY <3>1, FS_EmptySet
    <3>. QED
      BY <3>1, <3>2 DEF Held
  <2>2. CASE p[1] # cycle + 1
    <3>1. status[p] \in {"running", "exiting"}
      BY <1>2, <1>6, <2>2 DEF TypeOK
    <3>. QED
      BY <1>1, <1>4, <3>1 DEF Held, SlotsExact
  <2>. QED
    BY <2>1, <2>2
<1>7. SlotsExact'
  BY <1>6 DEF SlotsExact
<1>8. Bookkeeping'
  <2>1. \A p \in Procs : status[p] \in {"running", "exiting"} =>
                         status'[p] \in {"running", "exiting"}
    BY <1>2
  <2>2. \A x \in DOMAIN conn : conn[x].owner \in Procs
    BY DEF TypeOK, Context
  <2>3. \A p \in Procs : p[1] > cycle + 1 => status'[p] = "none"
    BY <1>1, <1>2 DEF Bookkeeping
  <2>4. \A p \in Procs : status'[p] = "none" => slot[p] = 0
    BY <1>2 DEF Bookkeeping
  <2>. QED
    BY <1>1, <2>1, <2>2, <2>3, <2>4 DEF Bookkeeping
<1>. QED
  BY <1>3, <1>7, <1>8

\* Every step of the specification preserves the invariant.
LEMMA NextInv == Inv /\ [Next]_vars => Inv'
<1>. SUFFICES ASSUME Inv, [Next]_vars PROVE Inv'
  OBVIOUS
<1>1. ASSUME NEW p \in Procs, Begin(p) \/ Start(p) \/ Kill(p) \/ Respawn(p)
      PROVE  Inv'
  BY <1>1, SummingInv, ReserveInv, GiveUpInv, HoldInv, KillInv, RespawnInv
     DEF Start
<1>2. ASSUME NEW x \in DOMAIN conn, Handle(x)
      PROVE  Inv'
  BY <1>2, CloseInv, TickInv DEF Handle, Expire, Fail, DripLast
<1>3. CASE UNCHANGED vars
  BY <1>3 DEF Inv, TypeOK, SlotsExact, Bookkeeping, Held, Of, vars
<1>. QED
  BY <1>1, <1>2, <1>3, ReloadInv, AdvanceInv DEF Next

\* Whatever the interleaving of reservations, ticks, kills, respawns and
\* reloads, a live worker's slot counts exactly its tarpitted connections and
\* no slot ever goes below zero (sentinel_tarpit_reserve, _cleanup, _start and
\* _init_process).
THEOREM TarpitSafety == Spec => [](TypeOK /\ SlotsExact)
<1>1. Inv => TypeOK /\ SlotsExact
  BY DEF Inv
<1>. QED
  BY <1>1, InitInv, NextInv, PTL DEF Spec

\* The states stay well formed: in particular no slot, an ngx_atomic_t that the
\* cleanups decrement, goes below zero.
THEOREM TarpitTypeCorrect == Spec => []TypeOK
  BY TarpitSafety, PTL
-----------------------------------------------------------------------------
\* A step sets no timer but a connection's first beyond its deadline.
LEMMA NextTimers ==
  ASSUME TypeOK, TimersBounded, [Next]_vars
  PROVE  TimersBounded'
<1>1. ASSUME NEW p \in Procs, NEW x \in Conns, Hold(p, x)
      PROVE  TimersBounded'
  <2>1. PICK d, l : d = Delay[p[1]] /\ l = Lifetime[p[1]]
    OBVIOUS
  <2>2. d \in Nat \ {0} /\ l \in Nat \ {0}
    BY <2>1, CycleTimes
  <2>3. /\ DOMAIN conn' = {x} \cup DOMAIN conn
        /\ conn'[x] = [owner |-> p, left |-> l, wait |-> d, sent |-> 0,
                       blocked |-> FALSE]
        /\ \A y \in DOMAIN conn : conn'[y] = conn[y]
    BY <1>1, <2>1 DEF Hold
  <2>4. /\ conn'[x].wait = d /\ conn'[x].left = l /\ conn'[x].owner = p
        /\ conn'[x].sent = 0 /\ ~conn'[x].blocked
    BY <2>3
  <2>5. FirstTick(conn'[x])
    BY <2>4 DEF FirstTick
  <2>6. Overrun(conn'[x]) = d - l
    BY <2>1, <2>4 DEF Overrun
  <2>7. 0 <= conn'[x].wait /\ conn'[x].wait = conn'[x].left + Overrun(conn'[x])
    BY <2>2, <2>4, <2>6
  <2>. QED
    BY <2>3, <2>5, <2>7 DEF TimersBounded
<1>2. ASSUME NEW x, conn' = [y \in DOMAIN conn \ {x} |-> conn[y]]
      PROVE  TimersBounded'
  BY <1>2 DEF TimersBounded
<1>3. ASSUME NEW p \in Procs, Kill(p)
      PROVE  TimersBounded'
  BY <1>3 DEF Kill, TimersBounded
<1>4. ASSUME NEW x \in DOMAIN conn, Block(x) \/ Drip(x)
      PROVE  TimersBounded'
  <2>1. conn[x] \in Context /\ conn[x].left \in Int
    BY DEF TypeOK, Context
  <2>2. 0 <= NextWait(x) /\ NextWait(x) <= conn[x].left
    <3>1. ~(conn[x].left <= 0)
      BY <1>4 DEF Block, Drip, Expired
    <3>2. Delay[conn[x].owner[1]] \in Nat
      BY <2>1, CycleTimes DEF Context
    <3>. QED
      BY <2>1, <3>1, <3>2 DEF NextWait
  <2>3. /\ DOMAIN conn' = DOMAIN conn
        /\ conn'[x].wait = NextWait(x) /\ conn'[x].left = conn[x].left
        /\ \A y \in DOMAIN conn \ {x} : conn'[y] = conn[y]
    BY <1>4, <2>1 DEF Block, Drip, Rearm, TypeOK
  <2>. QED
    BY <2>2, <2>3 DEF TimersBounded
<1>5. ASSUME Advance
      PROVE  TimersBounded'
  <2>1. \A x \in DOMAIN conn : conn[x].left \in Int /\ conn[x].wait \in Int
    BY DEF TypeOK, Context
  <2>2. /\ DOMAIN conn' = DOMAIN conn
        /\ \A x \in DOMAIN conn : /\ conn'[x].wait = conn[x].wait - 1
                                  /\ conn'[x].left = conn[x].left - 1
                                  /\ conn[x].wait > 0
    BY <1>5 DEF Advance, Aged, TypeOK, Context
  <2>3. ASSUME NEW x \in DOMAIN conn
        PROVE  /\ conn'[x].owner = conn[x].owner
               /\ conn'[x].sent = conn[x].sent
               /\ conn'[x].blocked = conn[x].blocked
    BY <1>5 DEF Advance, Aged
  <2>4. ASSUME NEW x \in DOMAIN conn
        PROVE  /\ 0 <= conn'[x].wait
               /\ \/ conn'[x].wait <= conn'[x].left
                  \/ /\ FirstTick(conn'[x])
                     /\ conn'[x].wait = conn'[x].left + Overrun(conn'[x])
    <3>1. Overrun(conn[x]) \in Int
      BY CycleTimes DEF TypeOK, Context, Overrun
    <3>2. Overrun(conn'[x]) = Overrun(conn[x])
      BY <2>3 DEF Overrun
    <3>3. FirstTick(conn[x]) => FirstTick(conn'[x])
      BY <2>3 DEF FirstTick
    <3>4. 0 <= conn'[x].wait
      BY <2>1, <2>2
    <3>5. CASE conn[x].wait <= conn[x].left
      BY <2>1, <2>2, <3>4, <3>5
    <3>6. CASE FirstTick(conn[x]) /\ conn[x].wait = conn[x].left + Overrun(conn[x])
      <4>1. conn'[x].wait = conn'[x].left + Overrun(conn'[x])
        BY <2>1, <2>2, <3>1, <3>2, <3>6
      <4>. QED
        BY <3>3, <3>4, <3>6, <4>1
    <3>. QED
      BY <3>5, <3>6 DEF TimersBounded
  <2>. QED
    BY <2>2, <2>4 DEF TimersBounded
<1>6. ASSUME UNCHANGED conn
      PROVE  TimersBounded'
  BY <1>6 DEF TimersBounded
<1>7. ASSUME NEW p \in Procs, Begin(p) \/ Start(p) \/ Kill(p) \/ Respawn(p)
      PROVE  TimersBounded'
  BY <1>1, <1>3, <1>6, <1>7
     DEF Start, Begin, ReadSlot, AtCap, Reserve, GiveUp, Respawn
<1>8. ASSUME NEW x \in DOMAIN conn, Handle(x)
      PROVE  TimersBounded'
  BY <1>2, <1>4, <1>8 DEF Handle, Expire, Fail, DripLast, Close
<1>. QED
  BY <1>5, <1>6, <1>7, <1>8 DEF Next, Reload, vars

\* For every delay and lifetime, in whatever order, and every behaviour of the
\* client: a connection overruns its deadline only while it waits for its first
\* tick, and by no more than that delay exceeds the lifetime; every later tick is
\* within the deadline (sentinel_tarpit_start and _write_handler).
THEOREM OverrunIsFirstTick == Spec => []LifetimeBounded
<1>1. Init => TimersBounded
  BY DEF Init, TimersBounded
<1>2. TypeOK /\ TimersBounded /\ [Next]_vars => TimersBounded'
  BY NextTimers
<1>3. TypeOK /\ TimersBounded => LifetimeBounded
  <2>. SUFFICES ASSUME TypeOK, TimersBounded, NEW x \in DOMAIN conn
                PROVE  \/ conn[x].left >= 0
                       \/ /\ FirstTick(conn[x])
                          /\ conn[x].left >= - Overrun(conn[x])
    BY DEF LifetimeBounded
  <2>1. conn[x].left \in Int /\ conn[x].wait \in Int
    BY DEF TypeOK, Context
  <2>2. Overrun(conn[x]) \in Int
    BY CycleTimes DEF TypeOK, Context, Overrun
  <2>3. /\ 0 <= conn[x].wait
        /\ \/ conn[x].wait <= conn[x].left
           \/ /\ FirstTick(conn[x])
              /\ conn[x].wait = conn[x].left + Overrun(conn[x])
    BY DEF TimersBounded
  <2>. QED
    BY <2>1, <2>2, <2>3
<1>4. Spec => []TypeOK
  BY TarpitSafety, PTL
<1>. QED
  BY <1>1, <1>2, <1>3, <1>4, PTL DEF Spec
-----------------------------------------------------------------------------
(* The cap.  A worker adds up the slots one read at a time while the others *)
(* reserve and release, so what it has read is not the number of            *)
(* connections at any one time.  What bounds the overshoot is how many      *)
(* workers can be about to pass the check, for each amount by which they    *)
(* would still have to be let in.                                           *)

\* The units that the slots f of cycle c count, from index i on.
Units(f, c, i) ==
  UNION {{p} \X (1 .. f[p]) : p \in {q \in Procs : q[1] = c /\ q[2] >= i}}

\* The sum a worker that is adding up will arrive at, if no slot changes.
View(p) == res[p].sum + Cardinality(Units(slot, p[1], res[p].next))

\* The workers of cycle c that pass the check once j units are released.
Passing(c, j) ==
  {p \in Procs :
     p[1] = c /\ res[p].at = "sum" /\ View(p) < MaxConns + j}

Headroom ==
  /\ \A p \in Procs : res[p].next >= 1
  /\ \A c \in 1 .. MaxCycles, j \in Nat :
       Cardinality(Units(slot, c, 1)) + Cardinality(Passing(c, j))
         <= MaxConns + NWorkers - 1 + j

\* The workers are finitely many, NWorkers of them in a cycle.
LEMMA ProcsFinite ==
  /\ IsFiniteSet(Procs)
  /\ \A c \in 1 .. MaxCycles :
       /\ IsFiniteSet({p \in Procs : p[1] = c})
       /\ Cardinality({p \in Procs : p[1] = c}) = NWorkers
<1>1. IsFiniteSet(1 .. MaxCycles) /\ IsFiniteSet(1 .. NWorkers)
  BY FS_Interval, TarpitAssumption
<1>2. IsFiniteSet(Procs)
  BY <1>1, FS_Product DEF Procs
<1>3. ASSUME NEW c \in 1 .. MaxCycles
      PROVE  /\ IsFiniteSet({p \in Procs : p[1] = c})
             /\ Cardinality({p \in Procs : p[1] = c}) = NWorkers
  <2>1. {p \in Procs : p[1] = c} = {c} \X (1 .. NWorkers)
    BY DEF Procs
  <2>2. IsFiniteSet({c}) /\ Cardinality({c}) = 1
    BY FS_Singleton
  <2>3. Cardinality(1 .. NWorkers) = NWorkers
    BY FS_Interval, TarpitAssumption
  <2>4. /\ IsFiniteSet({c} \X (1 .. NWorkers))
        /\ Cardinality({c} \X (1 .. NWorkers)) = 1 * NWorkers
    BY <1>1, <2>2, <2>3, FS_Product, ZenonT(60)
  <2>5. 1 * NWorkers = NWorkers
    BY TarpitAssumption
  <2>. QED
    BY <2>1, <2>4, <2>5, Zenon
<1>. QED
  BY <1>2, <1>3

\* A worker counts units a to b of its slot as b - a + 1.
LEMMA ColumnSize ==
  ASSUME NEW p, NEW a \in Nat, NEW b \in Nat, a <= b
  PROVE  /\ IsFiniteSet({p} \X (a + 1 .. b))
         /\ Cardinality({p} \X (a + 1 .. b)) = b - a
<1>1. IsFiniteSet({p}) /\ Cardinality({p}) = 1
  BY FS_Singleton
<1>2. IsFiniteSet(a + 1 .. b) /\ Cardinality(a + 1 .. b) = b - a
  <2>1. PICK d \in Int : d = a + 1
    OBVIOUS
  <2>2. /\ IsFiniteSet(d .. b)
        /\ Cardinality(d .. b) = IF d > b THEN 0 ELSE b - d + 1
    BY FS_Interval
  <2>. QED
    BY <2>1, <2>2
<1>3. PICK n \in Nat : n = b - a
  OBVIOUS
<1>4. \A S, T : IsFiniteSet(S) /\ IsFiniteSet(T) =>
        /\ IsFiniteSet(S \X T)
        /\ Cardinality(S \X T) = Cardinality(S) * Cardinality(T)
  BY FS_Product, Zenon
<1>5. /\ IsFiniteSet({p} \X (a + 1 .. b))
      /\ Cardinality({p} \X (a + 1 .. b)) = 1 * n
  BY <1>1, <1>2, <1>3, <1>4, ZenonT(60)
<1>6. 1 * n = n
  OBVIOUS
<1>. QED
  BY <1>3, <1>5, <1>6, Zenon

\* What a unit is.
LEMMA UnitsMember ==
  ASSUME NEW f \in [Procs -> Nat], NEW c, NEW i, NEW u
  PROVE  u \in Units(f, c, i) <=>
           /\ u \in Procs \X Nat
           /\ u[1][1] = c /\ u[1][2] >= i
           /\ u[2] \in 1 .. f[u[1]]
<1>1. ASSUME u \in Units(f, c, i)
      PROVE  /\ u \in Procs \X Nat
             /\ u[1][1] = c /\ u[1][2] >= i
             /\ u[2] \in 1 .. f[u[1]]
  <2>1. PICK p \in Procs : p[1] = c /\ p[2] >= i /\ u \in {p} \X (1 .. f[p])
    BY <1>1 DEF Units
  <2>2. f[p] \in Nat
    BY <2>1
  <2>. QED
    BY <2>1, <2>2
<1>2. ASSUME u \in Procs \X Nat, u[1][1] = c, u[1][2] >= i,
             u[2] \in 1 .. f[u[1]]
      PROVE  u \in Units(f, c, i)
  <2>1. PICK p \in Procs, k \in Nat : u = <<p, k>>
    BY <1>2
  <2>2. u \in {p} \X (1 .. f[p])
    BY <1>2, <2>1
  <2>3. p \in {q \in Procs : q[1] = c /\ q[2] >= i}
    BY <1>2, <2>1
  <2>. QED
    BY <2>2, <2>3 DEF Units
<1>. QED
  BY <1>1, <1>2

\* The units of a cycle are finitely many.
LEMMA UnitsFinite ==
  ASSUME NEW f \in [Procs -> Nat], NEW c, NEW i
  PROVE  /\ IsFiniteSet(Units(f, c, i))
         /\ Cardinality(Units(f, c, i)) \in Nat
<1>. DEFINE P == {q \in Procs : q[1] = c /\ q[2] >= i}
            T == {{p} \X (1 .. f[p]) : p \in P}
            g == [p \in P |-> {p} \X (1 .. f[p])]
<1>1. IsFiniteSet(P)
  BY ProcsFinite, FS_Subset
<1>2. g \in Surjection(P, T)
  BY DEF Surjection
<1>3. IsFiniteSet(T)
  BY <1>1, <1>2, FS_Surjection
<1>4. ASSUME NEW t \in T PROVE IsFiniteSet(t)
  <2>1. PICK p \in P : t = {p} \X (1 .. f[p])
    OBVIOUS
  <2>2. f[p] \in Nat /\ 0 \in Nat /\ 0 <= f[p] /\ 0 + 1 = 1
    BY <2>1
  <2>. QED
    BY <2>1, <2>2, ColumnSize
<1>5. IsFiniteSet(UNION T)
  BY <1>3, <1>4, FS_UNION
<1>. QED
  BY <1>5, FS_CardinalityType DEF Units

\* Lowering one slot takes that many units, where the slot is counted.
LEMMA UnitsLowered ==
  ASSUME NEW f \in [Procs -> Nat], NEW g \in [Procs -> Nat],
         NEW p \in Procs, g[p] <= f[p],
         \A q \in Procs \ {p} : g[q] = f[q],
         NEW c, NEW i
  PROVE  Cardinality(Units(f, c, i)) =
           Cardinality(Units(g, c, i))
             + (IF p[1] = c /\ p[2] >= i THEN f[p] - g[p] ELSE 0)
<1>1. f[p] \in Nat /\ g[p] \in Nat
  OBVIOUS
<1>2. CASE p[1] = c /\ p[2] >= i
  <2>. DEFINE C == {p} \X (g[p] + 1 .. f[p])
  <2>1. Units(f, c, i) = Units(g, c, i) \cup C
    <3>1. ASSUME NEW u \in Units(f, c, i) PROVE u \in Units(g, c, i) \cup C
      <4>1. /\ u \in Procs \X Nat /\ u[1][1] = c /\ u[1][2] >= i
            /\ u[2] \in 1 .. f[u[1]]
        BY <3>1, UnitsMember
      <4>2. CASE u[1] # p
        BY <4>1, <4>2, UnitsMember
      <4>3. CASE u[1] = p /\ u[2] <= g[p]
        BY <1>1, <4>1, <4>3, UnitsMember
      <4>4. CASE u[1] = p /\ u[2] > g[p]
        BY <1>1, <4>1, <4>4
      <4>. QED
        BY <1>1, <4>1, <4>2, <4>3, <4>4
    <3>2. ASSUME NEW u \in Units(g, c, i) PROVE u \in Units(f, c, i)
      <4>1. /\ u \in Procs \X Nat /\ u[1][1] = c /\ u[1][2] >= i
            /\ u[2] \in 1 .. g[u[1]]
        BY <3>2, UnitsMember
      <4>2. g[u[1]] <= f[u[1]] /\ g[u[1]] \in Nat /\ f[u[1]] \in Nat
        BY <1>1, <4>1
      <4>. QED
        BY <4>1, <4>2, UnitsMember
    <3>3. ASSUME NEW u \in C PROVE u \in Units(f, c, i)
      <4>1. u \in Procs \X Nat /\ u[1] = p /\ u[2] \in 1 .. f[p]
        BY <1>1
      <4>. QED
        BY <1>2, <4>1, UnitsMember
    <3>. QED
      BY <3>1, <3>2, <3>3
  <2>2. Units(g, c, i) \cap C = {}
    <3>1. ASSUME NEW u \in Units(g, c, i), u \in C PROVE FALSE
      <4>1. u[2] \in 1 .. g[u[1]]
        BY UnitsMember
      <4>2. u[1] = p /\ u[2] \in g[p] + 1 .. f[p]
        BY <3>1
      <4>. QED
        BY <1>1, <4>1, <4>2
    <3>. QED
      BY <3>1
  <2>3. IsFiniteSet(C) /\ Cardinality(C) = f[p] - g[p]
    BY <1>1, ColumnSize
  <2>4. IsFiniteSet(Units(g, c, i)) /\ Cardinality(Units(g, c, i)) \in Nat
    BY UnitsFinite
  <2>. HIDE DEF C
  <2>5. Cardinality(Units(g, c, i) \cup C) =
          Cardinality(Units(g, c, i)) + Cardinality(C)
            - Cardinality(Units(g, c, i) \cap C)
    BY <2>3, <2>4, FS_Union
  <2>6. Cardinality(Units(g, c, i) \cap C) = 0
    BY <2>2, FS_EmptySet
  <2>. QED
    BY <1>1, <1>2, <2>1, <2>3, <2>4, <2>5, <2>6
<1>3. CASE ~(p[1] = c /\ p[2] >= i)
  <2>1. \A u : u \in Units(f, c, i) <=> u \in Units(g, c, i)
    BY <1>3, UnitsMember
  <2>2. Units(f, c, i) = Units(g, c, i)
    BY <2>1
  <2>3. Cardinality(Units(g, c, i)) \in Nat
    BY UnitsFinite
  <2>. QED
    BY <1>3, <2>2, <2>3
<1>. QED
  BY <1>2, <1>3

\* Reading slot i leaves the units of the slots after it to be read.
LEMMA UnitsRead ==
  ASSUME NEW f \in [Procs -> Nat], NEW c \in 1 .. MaxCycles,
         NEW i \in 1 .. NWorkers
  PROVE  Cardinality(Units(f, c, i)) =
           f[<<c, i>>] + Cardinality(Units(f, c, i + 1))
<1>. DEFINE p == <<c, i>>
            C == {p} \X (1 .. f[p])
<1>1. p \in Procs /\ f[p] \in Nat /\ p[1] = c /\ p[2] = i /\ i \in Int
  BY TarpitAssumption DEF Procs
<1>2. Units(f, c, i) = Units(f, c, i + 1) \cup C
  <2>1. ASSUME NEW u \in Units(f, c, i) PROVE u \in Units(f, c, i + 1) \cup C
    <3>1. /\ u \in Procs \X Nat /\ u[1][1] = c /\ u[1][2] >= i
          /\ u[2] \in 1 .. f[u[1]]
      BY UnitsMember
    <3>2. u[1][2] \in Int /\ u[1] = <<u[1][1], u[1][2]>>
      BY <3>1 DEF Procs
    <3>3. CASE u[1][2] >= i + 1
      BY <3>1, <3>3, UnitsMember
    <3>4. CASE u[1][2] = i
      BY <3>1, <3>2, <3>4
    <3>. QED
      BY <1>1, <3>1, <3>2, <3>3, <3>4
  <2>2. ASSUME NEW u \in Units(f, c, i + 1) PROVE u \in Units(f, c, i)
    <3>1. /\ u \in Procs \X Nat /\ u[1][1] = c /\ u[1][2] >= i + 1
          /\ u[2] \in 1 .. f[u[1]]
      BY UnitsMember
    <3>2. u[1][2] \in Int
      BY <3>1 DEF Procs
    <3>3. u[1][2] >= i
      BY <1>1, <3>1, <3>2
    <3>. QED
      BY <3>1, <3>3, UnitsMember
  <2>3. ASSUME NEW u \in C PROVE u \in Units(f, c, i)
    <3>1. u \in Procs \X Nat /\ u[1] = p /\ u[2] \in 1 .. f[p]
      BY <1>1
    <3>. QED
      BY <1>1, <3>1, UnitsMember
  <2>. QED
    BY <2>1, <2>2, <2>3
<1>3. Units(f, c, i + 1) \cap C = {}
  <2>1. ASSUME NEW u \in Units(f, c, i + 1), u \in C PROVE FALSE
    <3>1. u[1][2] >= i + 1
      BY UnitsMember
    <3>2. u[1] = p
      BY <2>1
    <3>. QED
      BY <1>1, <3>1, <3>2
  <2>. QED
    BY <2>1
<1>4. IsFiniteSet(C) /\ Cardinality(C) = f[p]
  <2>1. PICK a \in Nat : a = 0
    OBVIOUS
  <2>2. a <= f[p] /\ a + 1 = 1 /\ f[p] - a = f[p]
    BY <1>1, <2>1
  <2>3. /\ IsFiniteSet({p} \X (a + 1 .. f[p]))
        /\ Cardinality({p} \X (a + 1 .. f[p])) = f[p] - a
    BY <1>1, <2>2, ColumnSize
  <2>. QED
    BY <2>2, <2>3
<1>5. /\ IsFiniteSet(Units(f, c, i + 1))
      /\ Cardinality(Units(f, c, i + 1)) \in Nat
  BY UnitsFinite
<1>. HIDE DEF C
<1>6. Cardinality(Units(f, c, i + 1) \cup C) =
        Cardinality(Units(f, c, i + 1)) + Cardinality(C) - 0
  BY <1>3, <1>4, <1>5, FS_Union, FS_EmptySet
<1>. QED
  BY <1>1, <1>2, <1>4, <1>5, <1>6

\* After the last slot there is nothing left to be read.
LEMMA UnitsAllRead ==
  ASSUME NEW f \in [Procs -> Nat], NEW c, NEW i \in Nat, i > NWorkers
  PROVE  Cardinality(Units(f, c, i)) = 0
<1>1. ASSUME NEW u \in Units(f, c, i) PROVE FALSE
  <2>1. u \in Procs \X Nat /\ u[1][2] >= i
    BY UnitsMember
  <2>2. u[1][2] \in 1 .. NWorkers
    BY <2>1 DEF Procs
  <2>. QED
    BY <2>1, <2>2, TarpitAssumption
<1>2. Units(f, c, i) = {}
  BY <1>1
<1>. QED
  BY <1>2, FS_EmptySet

\* A subset of a cycle's workers is finite and no larger than NWorkers.
LEMMA WorkersBounded ==
  ASSUME NEW c \in 1 .. MaxCycles, NEW S \in SUBSET {p \in Procs : p[1] = c}
  PROVE  /\ IsFiniteSet(S)
         /\ Cardinality(S) \in Nat
         /\ Cardinality(S) <= NWorkers
<1>1. PICK W : W = {p \in Procs : p[1] = c}
  OBVIOUS
<1>2. IsFiniteSet(W) /\ Cardinality(W) = NWorkers
  BY <1>1, ProcsFinite, Zenon
<1>3. IsFiniteSet(S) /\ Cardinality(S) <= Cardinality(W)
  BY <1>1, <1>2, FS_Subset
<1>. QED
  BY <1>2, <1>3, FS_CardinalityType

\* A release, a kill, a respawn, or a reservation that ends without an
\* increment: a slot is lowered, if any is, and no worker starts to add up.
\* Those that the lower sum lets pass are among those counted for a larger j.
LEMMA LoweredHeadroom ==
  ASSUME TypeOK, TypeOK', Headroom,
         NEW p \in Procs, slot'[p] <= slot[p],
         \A q \in Procs \ {p} : slot'[q] = slot[q],
         \A q \in Procs : /\ res'[q].next >= 1
                          /\ res'[q].at = "sum" => res'[q] = res[q]
  PROVE  Headroom'
<1>1. slot \in [Procs -> Nat] /\ slot' \in [Procs -> Nat]
  BY DEF TypeOK
<1>2. \A q \in Procs : res[q].sum \in Int
  BY DEF TypeOK, Reservation
<1>3. ASSUME NEW c \in 1 .. MaxCycles, NEW j \in Nat
      PROVE  (Cardinality(Units(slot, c, 1)) + Cardinality(Passing(c, j)))'
               <= MaxConns + NWorkers - 1 + j
  <2>1. PICK e \in Nat : e = IF p[1] = c THEN slot[p] - slot'[p] ELSE 0
    BY <1>1
  <2>2. j + e \in Nat
    BY <2>1
  <2>3. \A i : Cardinality(Units(slot, c, i)) =
                 Cardinality(Units(slot', c, i))
                   + (IF p[1] = c /\ p[2] >= i THEN slot[p] - slot'[p] ELSE 0)
    BY <1>1, UnitsLowered
  <2>4. \A i : /\ Cardinality(Units(slot, c, i)) \in Nat
               /\ Cardinality(Units(slot', c, i)) \in Nat
    BY <1>1, UnitsFinite
  <2>5. Cardinality(Units(slot, c, 1)) = Cardinality(Units(slot', c, 1)) + e
    <3>1. p[2] >= 1
      BY DEF Procs
    <3>. QED
      BY <2>1, <2>3, <3>1
  <2>6. \A i : Cardinality(Units(slot, c, i))
                 <= Cardinality(Units(slot', c, i)) + e
    BY <1>1, <2>1, <2>3, <2>4
  <2>7. Passing(c, j)' \subseteq Passing(c, j + e)
    <3>1. ASSUME NEW q \in Passing(c, j)' PROVE q \in Passing(c, j + e)
      <4>1. /\ q \in Procs /\ q[1] = c /\ res'[q].at = "sum"
            /\ res'[q].sum + Cardinality(Units(slot', c, res'[q].next))
                 < MaxConns + j
        BY DEF Passing, View
      <4>2. res'[q] = res[q] /\ res[q].sum \in Int
        BY <1>2, <4>1
      <4>3. PICK i : i = res[q].next
        OBVIOUS
      <4>4. res[q].sum + Cardinality(Units(slot', c, i)) < MaxConns + j
        BY <4>1, <4>2, <4>3
      <4>5. /\ Cardinality(Units(slot, c, i)) \in Nat
            /\ Cardinality(Units(slot', c, i)) \in Nat
            /\ Cardinality(Units(slot, c, i))
                 <= Cardinality(Units(slot', c, i)) + e
        BY <2>4, <2>6
      <4>6. res[q].sum + Cardinality(Units(slot, c, i)) < MaxConns + (j + e)
        BY <4>2, <4>4, <4>5, TarpitAssumption
      <4>. QED
        BY <4>1, <4>2, <4>3, <4>6 DEF Passing, View
    <3>. QED
      BY <3>1
  <2>8. /\ IsFiniteSet(Passing(c, j + e))
        /\ Cardinality(Passing(c, j + e)) \in Nat
    <3>1. Passing(c, j + e) \in SUBSET {q \in Procs : q[1] = c}
      BY DEF Passing
    <3>. QED
      BY <3>1, WorkersBounded
  <2>9. /\ IsFiniteSet(Passing(c, j)')
        /\ Cardinality(Passing(c, j)') <= Cardinality(Passing(c, j + e))
    BY <2>7, <2>8, FS_Subset
  <2>10. Cardinality(Passing(c, j)') \in Nat
    BY <2>9, FS_CardinalityType
  <2>11. Cardinality(Units(slot, c, 1)) + Cardinality(Passing(c, j + e))
           <= MaxConns + NWorkers - 1 + (j + e)
    BY <2>2 DEF Headroom
  <2>12. Cardinality(Units(slot', c, 1)) + Cardinality(Passing(c, j)')
           <= MaxConns + NWorkers - 1 + j
    BY <2>4, <2>5, <2>8, <2>9, <2>10, <2>11, TarpitAssumption
  <2>. QED
    BY <2>12
<1>. QED
  BY <1>3 DEF Headroom

\* A step that changes no slot and lets no worker start to add up.
LEMMA QuietHeadroom ==
  ASSUME TypeOK, TypeOK', Headroom, slot' = slot,
         \A q \in Procs : /\ res'[q].next >= 1
                          /\ res'[q].at = "sum" => res'[q] = res[q]
  PROVE  Headroom'
<1>1. PICK p \in Procs : p = <<1, 1>>
  <2>1. 1 \in 1 .. MaxCycles /\ 1 \in 1 .. NWorkers
    BY TarpitAssumption
  <2>. QED
    BY <2>1 DEF Procs
<1>2. slot'[p] <= slot[p]
  <2>1. slot[p] \in Nat
    BY DEF TypeOK
  <2>. QED
    BY <2>1
<1>3. \A q \in Procs \ {p} : slot'[q] = slot[q]
  OBVIOUS
<1>. QED
  BY <1>2, <1>3, LoweredHeadroom

\* The worker that reserves was one of those about to pass.
LEMMA ReserveHeadroom ==
  ASSUME TypeOK, TypeOK', Headroom, NEW p \in Procs, Reserve(p)
  PROVE  Headroom'
<1>1. slot \in [Procs -> Nat] /\ slot' \in [Procs -> Nat]
  BY DEF TypeOK
<1>2. /\ res[p].at = "sum" /\ res[p].next > NWorkers /\ res[p].sum < MaxConns
      /\ res'[p].at = "reserved" /\ res'[p].next = 1
      /\ slot'[p] = slot[p] + 1
      /\ \A q \in Procs \ {p} : res'[q] = res[q] /\ slot'[q] = slot[q]
  BY DEF TypeOK, Reserve, NoRes
<1>3. \A q \in Procs : res[q].sum \in Int /\ res[q].next \in Nat
  BY DEF TypeOK, Reservation
<1>4. \A q \in Procs : res'[q].next >= 1
  BY <1>2 DEF Headroom
<1>5. ASSUME NEW c \in 1 .. MaxCycles, NEW j \in Nat
      PROVE  (Cardinality(Units(slot, c, 1)) + Cardinality(Passing(c, j)))'
               <= MaxConns + NWorkers - 1 + j
  <2>1. slot[p] <= slot'[p] /\ slot'[p] - slot[p] = 1
    BY <1>1, <1>2
  <2>2. \A i : Cardinality(Units(slot', c, i)) =
                 Cardinality(Units(slot, c, i))
                   + (IF p[1] = c /\ p[2] >= i THEN slot'[p] - slot[p] ELSE 0)
    BY <1>1, <1>2, <2>1, UnitsLowered
  <2>3. \A i : /\ Cardinality(Units(slot, c, i)) \in Nat
               /\ Cardinality(Units(slot', c, i)) \in Nat
    BY <1>1, UnitsFinite
  <2>4. Cardinality(Units(slot', c, 1)) =
          Cardinality(Units(slot, c, 1)) + (IF p[1] = c THEN 1 ELSE 0)
    <3>1. p[2] >= 1
      BY DEF Procs
    <3>. QED
      BY <2>1, <2>2, <3>1
  <2>5. \A i : Cardinality(Units(slot, c, i))
                 <= Cardinality(Units(slot', c, i))
    BY <2>1, <2>2, <2>3
  <2>6. Passing(c, j)' \subseteq Passing(c, j) \ {p}
    <3>1. ASSUME NEW q \in Passing(c, j)' PROVE q \in Passing(c, j) \ {p}
      <4>1. /\ q \in Procs /\ q[1] = c /\ res'[q].at = "sum"
            /\ res'[q].sum + Cardinality(Units(slot', c, res'[q].next))
                 < MaxConns + j
        BY DEF Passing, View
      <4>2. q # p /\ res'[q] = res[q] /\ res[q].sum \in Int
        BY <1>2, <1>3, <4>1
      <4>3. PICK i : i = res[q].next
        OBVIOUS
      <4>4. /\ Cardinality(Units(slot, c, i)) \in Nat
            /\ Cardinality(Units(slot', c, i)) \in Nat
            /\ Cardinality(Units(slot, c, i))
                 <= Cardinality(Units(slot', c, i))
        BY <2>3, <2>5
      <4>5. res[q].sum + Cardinality(Units(slot, c, i)) < MaxConns + j
        BY <4>1, <4>2, <4>3, <4>4, TarpitAssumption
      <4>. QED
        BY <4>1, <4>2, <4>3, <4>5 DEF Passing, View
    <3>. QED
      BY <3>1
  <2>7. p[1] = c => p \in Passing(c, j)
    <3>1. Cardinality(Units(slot, p[1], res[p].next)) = 0
      BY <1>1, <1>2, <1>3, UnitsAllRead
    <3>2. View(p) < MaxConns + j
      BY <1>2, <1>3, <3>1, TarpitAssumption DEF View
    <3>. QED
      BY <1>2, <3>2 DEF Passing
  <2>8. IsFiniteSet(Passing(c, j)) /\ Cardinality(Passing(c, j)) \in Nat
    <3>1. Passing(c, j) \in SUBSET {q \in Procs : q[1] = c}
      BY DEF Passing
    <3>. QED
      BY <3>1, WorkersBounded
  <2>9. /\ IsFiniteSet(Passing(c, j) \ {p})
        /\ Cardinality(Passing(c, j) \ {p}) =
             IF p \in Passing(c, j) THEN Cardinality(Passing(c, j)) - 1
             ELSE Cardinality(Passing(c, j))
    BY <2>8, FS_RemoveElement
  <2>10. /\ IsFiniteSet(Passing(c, j)')
         /\ Cardinality(Passing(c, j)') <= Cardinality(Passing(c, j) \ {p})
    BY <2>6, <2>9, FS_Subset
  <2>11. Cardinality(Passing(c, j)') \in Nat
    BY <2>10, FS_CardinalityType
  <2>12. Cardinality(Units(slot, c, 1)) + Cardinality(Passing(c, j))
           <= MaxConns + NWorkers - 1 + j
    BY DEF Headroom
  <2>13. Cardinality(Units(slot', c, 1)) + Cardinality(Passing(c, j)')
           <= MaxConns + NWorkers - 1 + j
    BY <2>3, <2>4, <2>7, <2>8, <2>9, <2>10, <2>11, <2>12, TarpitAssumption
  <2>. QED
    BY <2>13
<1>. QED
  BY <1>4, <1>5 DEF Headroom

\* A worker that starts to add up passes only below the cap, where even all
\* the workers of the cycle stay within the bound.
LEMMA BeginHeadroom ==
  ASSUME TypeOK, TypeOK', Headroom, NEW p \in Procs, Begin(p)
  PROVE  Headroom'
<1>1. slot \in [Procs -> Nat] /\ slot' = slot
  BY DEF TypeOK, Begin
<1>2. /\ res'[p] = [at |-> "sum", next |-> 1, sum |-> 0]
      /\ \A q \in Procs \ {p} : res'[q] = res[q]
  BY DEF TypeOK, Begin, NoRes
<1>3. \A q \in Procs : res'[q].next >= 1
  BY <1>2 DEF Headroom
<1>4. ASSUME NEW c \in 1 .. MaxCycles, NEW j \in Nat
      PROVE  (Cardinality(Units(slot, c, 1)) + Cardinality(Passing(c, j)))'
               <= MaxConns + NWorkers - 1 + j
  <2>1. Cardinality(Units(slot, c, 1)) \in Nat
    BY <1>1, UnitsFinite
  <2>2. /\ Cardinality(Passing(c, j)') \in Nat
        /\ Cardinality(Passing(c, j)') <= NWorkers
    <3>1. PICK S : S = Passing(c, j)'
      OBVIOUS
    <3>2. S \in SUBSET {q \in Procs : q[1] = c}
      BY <3>1 DEF Passing
    <3>. QED
      BY <3>1, <3>2, WorkersBounded
  <2>3. CASE Cardinality(Units(slot, c, 1)) < MaxConns + j
    BY <1>1, <2>1, <2>2, <2>3, TarpitAssumption
  <2>4. CASE ~(Cardinality(Units(slot, c, 1)) < MaxConns + j)
    <3>1. Passing(c, j)' \subseteq Passing(c, j)
      <4>1. ASSUME NEW q \in Passing(c, j)' PROVE q \in Passing(c, j)
        <5>1. /\ q \in Procs /\ q[1] = c /\ res'[q].at = "sum"
              /\ res'[q].sum + Cardinality(Units(slot, c, res'[q].next))
                   < MaxConns + j
          BY <1>1 DEF Passing, View
        <5>2. q # p
          BY <1>2, <2>1, <2>4, <5>1
        <5>. QED
          BY <1>2, <5>1, <5>2 DEF Passing, View
      <4>. QED
        BY <4>1
    <3>2. IsFiniteSet(Passing(c, j)) /\ Cardinality(Passing(c, j)) \in Nat
      <4>1. Passing(c, j) \in SUBSET {q \in Procs : q[1] = c}
        BY DEF Passing
      <4>. QED
        BY <4>1, WorkersBounded
    <3>3. Cardinality(Passing(c, j)') <= Cardinality(Passing(c, j))
      BY <3>1, <3>2, FS_Subset
    <3>4. Cardinality(Units(slot, c, 1)) + Cardinality(Passing(c, j))
            <= MaxConns + NWorkers - 1 + j
      BY DEF Headroom
    <3>5. Cardinality(Units(slot, c, 1)) + Cardinality(Passing(c, j)')
            <= MaxConns + NWorkers - 1 + j
      BY <2>1, <2>2, <3>2, <3>3, <3>4, TarpitAssumption
    <3>. QED
      BY <1>1, <3>5
  <2>. QED
    BY <2>3, <2>4
<1>. QED
  BY <1>3, <1>4 DEF Headroom

\* Reading a slot does not change what a worker will arrive at.
LEMMA ReadSlotHeadroom ==
  ASSUME TypeOK, TypeOK', Headroom, NEW p \in Procs, ReadSlot(p)
  PROVE  Headroom'
<1>1. slot \in [Procs -> Nat] /\ slot' = slot
  BY DEF TypeOK, ReadSlot
<1>2. /\ res[p].at = "sum" /\ res[p].next <= NWorkers
      /\ res[p].next \in Nat /\ res[p].next >= 1 /\ res[p].sum \in Int
      /\ res'[p].at = "sum" /\ res'[p].next = res[p].next + 1
      /\ res'[p].sum = res[p].sum + slot[<<p[1], res[p].next>>]
      /\ \A q \in Procs \ {p} : res'[q] = res[q]
  <2>1. res[p] \in Reservation
    BY DEF TypeOK
  <2>. QED
    BY <2>1 DEF TypeOK, ReadSlot, Reservation, Headroom
<1>3. /\ p[1] \in 1 .. MaxCycles /\ res[p].next \in 1 .. NWorkers
      /\ <<p[1], res[p].next>> \in Procs
  BY <1>2, TarpitAssumption DEF Procs
<1>4. View(p)' = View(p)
  <2>1. PICK c \in 1 .. MaxCycles, i \in 1 .. NWorkers :
          c = p[1] /\ i = res[p].next
    BY <1>3
  <2>2. Cardinality(Units(slot, c, i)) =
          slot[<<c, i>>] + Cardinality(Units(slot, c, i + 1))
    BY <1>1, UnitsRead
  <2>3. Cardinality(Units(slot, c, i + 1)) \in Nat /\ slot[<<c, i>>] \in Nat
    BY <1>1, <1>3, <2>1, UnitsFinite
  <2>4. View(p)' = res[p].sum + slot[<<c, i>>]
                     + Cardinality(Units(slot, c, i + 1))
    BY <1>1, <1>2, <2>1 DEF View
  <2>. QED
    BY <1>2, <2>1, <2>2, <2>3, <2>4 DEF View
<1>5. \A q \in Procs : View(q)' = View(q) /\ res'[q].at = res[q].at
  BY <1>1, <1>2, <1>4 DEF View
<1>6. \A q \in Procs : res'[q].next >= 1
  BY <1>2 DEF Headroom
<1>7. \A c, j : Passing(c, j)' = Passing(c, j)
  BY <1>5 DEF Passing
<1>. QED
  BY <1>1, <1>6, <1>7 DEF Headroom

\* Initially nothing is held and no worker adds up.
LEMMA InitHeadroom == Init => Headroom
<1>. SUFFICES ASSUME Init PROVE Headroom
  OBVIOUS
<1>1. /\ slot \in [Procs -> Nat]
      /\ \A p \in Procs : slot[p] = 0 /\ res[p].at = "idle" /\ res[p].next = 1
  BY DEF Init, NoRes
<1>2. ASSUME NEW c \in 1 .. MaxCycles, NEW j \in Nat
      PROVE  Cardinality(Units(slot, c, 1)) + Cardinality(Passing(c, j))
               <= MaxConns + NWorkers - 1 + j
  <2>1. Units(slot, c, 1) = {}
    <3>1. ASSUME NEW u \in Units(slot, c, 1) PROVE FALSE
      BY <1>1, UnitsMember
    <3>. QED
      BY <3>1
  <2>2. Passing(c, j) = {}
    BY <1>1 DEF Passing
  <2>. QED
    BY <2>1, <2>2, FS_EmptySet, TarpitAssumption
<1>. QED
  BY <1>1, <1>2 DEF Headroom

\* Every step keeps the headroom.
LEMMA NextHeadroom ==
  ASSUME Inv, Inv', Headroom, [Next]_vars
  PROVE  Headroom'
<1>1. TypeOK /\ TypeOK'
  BY DEF Inv
<1>2. \A q \in Procs : res[q].next >= 1
  BY DEF Headroom
<1>3. slot \in [Procs -> Nat] /\ slot' \in [Procs -> Nat] /\ DOMAIN res = Procs
  BY <1>1 DEF TypeOK
<1>4. ASSUME NEW p \in Procs, AtCap(p) \/ Kill(p) \/ \E x \in Conns : Hold(p, x)
      PROVE  Headroom'
  <2>1. slot' = slot
    BY <1>4 DEF AtCap, Kill, Hold
  <2>2. res' = [res EXCEPT ![p] = NoRes]
    BY <1>4 DEF AtCap, Kill, Hold
  <2>3. \A q \in Procs : /\ res'[q].next >= 1
                         /\ res'[q].at = "sum" => res'[q] = res[q]
    BY <1>2, <1>3, <2>2 DEF NoRes
  <2>. QED
    BY <1>1, <2>1, <2>3, QuietHeadroom
<1>5. ASSUME NEW p \in Procs, GiveUp(p)
      PROVE  Headroom'
  <2>1. /\ slot' = [slot EXCEPT ![p] = @ - 1]
        /\ res' = [res EXCEPT ![p] = NoRes]
    BY <1>5 DEF GiveUp
  <2>2. slot'[p] <= slot[p] /\ \A q \in Procs \ {p} : slot'[q] = slot[q]
    BY <1>3, <2>1
  <2>3. \A q \in Procs : /\ res'[q].next >= 1
                         /\ res'[q].at = "sum" => res'[q] = res[q]
    BY <1>2, <1>3, <2>1 DEF NoRes
  <2>. QED
    BY <1>1, <2>2, <2>3, LoweredHeadroom
<1>6. ASSUME NEW p \in Procs, Respawn(p)
      PROVE  Headroom'
  <2>1. slot' = [slot EXCEPT ![p] = 0] /\ res' = res
    BY <1>6 DEF Respawn
  <2>2. slot'[p] <= slot[p] /\ \A q \in Procs \ {p} : slot'[q] = slot[q]
    BY <1>3, <2>1
  <2>. QED
    BY <1>1, <1>2, <2>1, <2>2, LoweredHeadroom
<1>7. ASSUME NEW x \in DOMAIN conn, Close(x)
      PROVE  Headroom'
  <2>1. PICK p \in Procs : p = conn[x].owner
    BY <1>1 DEF TypeOK, Context
  <2>2. slot' = [slot EXCEPT ![p] = @ - 1] /\ res' = res
    BY <1>7, <2>1 DEF Close
  <2>3. slot'[p] <= slot[p] /\ \A q \in Procs \ {p} : slot'[q] = slot[q]
    BY <1>3, <2>2
  <2>. QED
    BY <1>1, <1>2, <2>2, <2>3, LoweredHeadroom
<1>8. ASSUME UNCHANGED <<slot, res>>
      PROVE  Headroom'
  BY <1>1, <1>2, <1>8, QuietHeadroom
<1>9. ASSUME NEW p \in Procs, Begin(p) \/ Start(p) \/ Kill(p) \/ Respawn(p)
      PROVE  Headroom'
  BY <1>1, <1>4, <1>5, <1>6, <1>9, BeginHeadroom, ReadSlotHeadroom,
     ReserveHeadroom DEF Start
<1>10. ASSUME NEW x \in DOMAIN conn, Handle(x)
       PROVE  Headroom'
  <2>1. CASE Block(x) \/ Drip(x)
    BY <1>8, <2>1 DEF Block, Drip, Rearm
  <2>2. CASE Expire(x) \/ Fail(x) \/ DripLast(x)
    BY <1>7, <2>2 DEF Expire, Fail, DripLast
  <2>. QED
    BY <1>10, <2>1, <2>2 DEF Handle
<1>11. CASE Reload \/ Advance \/ UNCHANGED vars
  BY <1>8, <1>11 DEF Reload, Advance, vars
<1>. QED
  BY <1>9, <1>10, <1>11 DEF Next

\* Every connection and every reservation of a live worker is one of the units
\* of its slot.
LEMMA TotalCounted ==
  ASSUME Inv, NEW c \in 1 .. MaxCycles
  PROVE  Total(c) <= Cardinality(Units(slot, c, 1))
<1>. DEFINE X == {x \in DOMAIN conn : conn[x].owner[1] = c}
            R == {p \in Procs : p[1] = c /\ res[p].at = "reserved"}
            b == [p \in Procs |->
                    CHOOSE g : g \in Bijection(Of(p), 1 .. Cardinality(Of(p)))]
            f == [x \in X |-> <<conn[x].owner, b[conn[x].owner][x]>>]
            h == [p \in R |-> <<p, slot[p]>>]
            F == {f[x] : x \in X}
            H == {h[p] : p \in R}
<1>1. slot \in [Procs -> Nat]
  BY DEF Inv, TypeOK
<1>2. ASSUME NEW p \in Procs
      PROVE  /\ Cardinality(Of(p)) \in Nat
             /\ b[p] \in Bijection(Of(p), 1 .. Cardinality(Of(p)))
  <2>1. IsFiniteSet(Of(p)) /\ Cardinality(Of(p)) \in Nat
    BY OfFinite DEF Inv
  <2>2. ExistsBijection(1 .. Cardinality(Of(p)), Of(p))
    BY <2>1, FS_CardinalityType
  <2>3. ExistsBijection(Of(p), 1 .. Cardinality(Of(p)))
    BY <2>2, Fun_ExistsBijSymmetric
  <2>4. \E g : g \in Bijection(Of(p), 1 .. Cardinality(Of(p)))
    BY <2>3 DEF ExistsBijection
  <2>. QED
    BY <2>1, <2>4
<1>3. ASSUME NEW p \in Procs, status[p] \in {"running", "exiting"}
      PROVE  slot[p] = Cardinality(Of(p))
                         + IF res[p].at = "reserved" THEN 1 ELSE 0
  BY <1>3 DEF Inv, SlotsExact, Held
<1>. HIDE DEF b
<1>4. ASSUME NEW x \in X
      PROVE  /\ conn[x].owner \in Procs /\ conn[x].owner[1] = c
             /\ status[conn[x].owner] \in {"running", "exiting"}
             /\ x \in Of(conn[x].owner)
             /\ b[conn[x].owner][x] \in 1 .. Cardinality(Of(conn[x].owner))
  <2>1. /\ conn[x].owner \in Procs /\ conn[x].owner[1] = c
        /\ status[conn[x].owner] \in {"running", "exiting"}
        /\ x \in Of(conn[x].owner)
    BY DEF Inv, TypeOK, Context, Bookkeeping, Of
  <2>2. b[conn[x].owner] \in
          [Of(conn[x].owner) -> 1 .. Cardinality(Of(conn[x].owner))]
    BY <1>2, <2>1 DEF Bijection, Injection
  <2>. QED
    BY <2>1, <2>2
<1>5. ASSUME NEW p \in R
      PROVE  /\ p \in Procs /\ p[1] = c
             /\ slot[p] = Cardinality(Of(p)) + 1 /\ Cardinality(Of(p)) \in Nat
  <2>1. p \in Procs /\ p[1] = c /\ res[p].at = "reserved"
    OBVIOUS
  <2>2. status[p] \in {"running", "exiting"}
    BY <2>1 DEF Inv, Bookkeeping
  <2>. QED
    BY <1>2, <1>3, <2>1, <2>2
<1>. HIDE DEF X, R
<1>6. \A p \in Procs : p[2] >= 1
  BY DEF Procs
<1>7. F \subseteq Units(slot, c, 1)
  <2>1. ASSUME NEW x \in X PROVE f[x] \in Units(slot, c, 1)
    <3>1. PICK p, k : p \in Procs /\ p = conn[x].owner /\ k = b[p][x]
      BY <1>4
    <3>2. /\ p[1] = c /\ status[p] \in {"running", "exiting"}
          /\ k \in 1 .. Cardinality(Of(p)) /\ Cardinality(Of(p)) \in Nat
      BY <1>2, <1>4, <3>1
    <3>3. k \in Nat /\ k \in 1 .. slot[p]
      BY <1>1, <1>3, <3>1, <3>2
    <3>4. <<p, k>> \in Units(slot, c, 1)
      BY <1>1, <1>6, <3>1, <3>2, <3>3, UnitsMember
    <3>. QED
      BY <3>1, <3>4
  <2>. QED
    BY <2>1
<1>8. H \subseteq Units(slot, c, 1)
  <2>1. ASSUME NEW p \in R PROVE <<p, slot[p]>> \in Units(slot, c, 1)
    <3>1. p \in Procs /\ p[1] = c /\ slot[p] \in Nat /\ slot[p] \in 1 .. slot[p]
      BY <1>1, <1>5
    <3>. QED
      BY <1>1, <1>6, <3>1, UnitsMember
  <2>. QED
    BY <2>1
<1>9. F \cap H = {}
  <2>1. ASSUME NEW x \in X, NEW p \in R, f[x] = h[p] PROVE FALSE
    <3>1. conn[x].owner = p /\ b[p][x] = slot[p]
      BY <2>1
    <3>2. b[p][x] \in 1 .. Cardinality(Of(p))
      BY <1>4, <3>1
    <3>. QED
      BY <1>5, <3>1, <3>2
  <2>. QED
    BY <2>1
<1>10. f \in Bijection(X, F)
  <2>1. ASSUME NEW x \in X, NEW y \in X, f[x] = f[y] PROVE x = y
    <3>1. conn[x].owner = conn[y].owner
      BY <2>1
    <3>2. PICK p \in Procs : p = conn[x].owner
      BY <1>4
    <3>3. x \in Of(p) /\ y \in Of(p) /\ b[p][x] = b[p][y]
      BY <1>4, <2>1, <3>1, <3>2
    <3>4. b[p] \in Injection(Of(p), 1 .. Cardinality(Of(p)))
      BY <1>2 DEF Bijection
    <3>. QED
      BY <3>3, <3>4 DEF Injection, IsInjective
  <2>2. f \in [X -> F]
    OBVIOUS
  <2>3. \A t \in F : \E x \in X : f[x] = t
    OBVIOUS
  <2>. HIDE DEF f, F
  <2>. QED
    BY <2>1, <2>2, <2>3 DEF Bijection, Injection, Surjection, IsInjective
<1>11. h \in Bijection(R, H)
  <2>1. ASSUME NEW p \in R, NEW q \in R, h[p] = h[q] PROVE p = q
    BY <2>1
  <2>2. h \in [R -> H]
    OBVIOUS
  <2>3. \A t \in H : \E p \in R : h[p] = t
    OBVIOUS
  <2>. HIDE DEF h, H
  <2>. QED
    BY <2>1, <2>2, <2>3 DEF Bijection, Injection, Surjection, IsInjective
<1>12. IsFiniteSet(X) /\ IsFiniteSet(R)
  <2>1. X \in SUBSET Conns /\ R \in SUBSET Procs
    BY DEF X, R, Inv, TypeOK
  <2>. QED
    BY <2>1, ProcsFinite, FS_Subset, TarpitAssumption
<1>. HIDE DEF f, h, F, H
<1>13. /\ IsFiniteSet(F) /\ Cardinality(F) = Cardinality(X)
       /\ IsFiniteSet(H) /\ Cardinality(H) = Cardinality(R)
  BY <1>10, <1>11, <1>12, FS_Bijection DEF ExistsBijection
<1>14. Cardinality(F \cup H) =
         Cardinality(F) + Cardinality(H) - Cardinality(F \cap H)
  BY <1>13, FS_Union
<1>15. Cardinality(F \cap H) = 0
  BY <1>9, FS_EmptySet
<1>16. Cardinality(F) \in Nat /\ Cardinality(H) \in Nat
  BY <1>13, FS_CardinalityType
<1>17. /\ IsFiniteSet(Units(slot, c, 1))
       /\ Cardinality(Units(slot, c, 1)) \in Nat
  BY <1>1, UnitsFinite
<1>18. Cardinality(F \cup H) <= Cardinality(Units(slot, c, 1))
  BY <1>7, <1>8, <1>17, FS_Subset
<1>19. Total(c) = Cardinality(X) + Cardinality(R)
  BY DEF Total, X, R
<1>. QED
  BY <1>13, <1>14, <1>15, <1>16, <1>17, <1>18, <1>19

\* The comment of sentinel_tarpit_reserve, for any number of workers, any cap
\* and any interleaving of reads, reservations, releases, kills, respawns and
\* reloads: one configuration's connections overshoot the cap by at most one
\* for each other worker.
THEOREM CapOvershootBounded == Spec => []OvershootBounded
<1>1. Inv /\ Headroom => OvershootBounded
  <2>1. ASSUME Inv, Headroom, NEW c \in 1 .. MaxCycles
        PROVE  Total(c) <= MaxConns + NWorkers - 1
    <3>1. Total(c) <= Cardinality(Units(slot, c, 1))
      BY <2>1, TotalCounted
    <3>2. Cardinality(Units(slot, c, 1)) \in Nat
      BY <2>1, UnitsFinite DEF Inv, TypeOK
    <3>3. Cardinality(Passing(c, 0)) \in Nat
      <4>1. Passing(c, 0) \in SUBSET {q \in Procs : q[1] = c}
        BY DEF Passing
      <4>. QED
        BY <4>1, WorkersBounded
    <3>4. Cardinality(Units(slot, c, 1)) + Cardinality(Passing(c, 0))
            <= MaxConns + NWorkers - 1 + 0
      BY <2>1 DEF Headroom
    <3>5. Total(c) \in Int
      <4>1. {x \in DOMAIN conn : conn[x].owner[1] = c} \in SUBSET Conns
        BY <2>1 DEF Inv, TypeOK
      <4>2. {p \in Procs : p[1] = c /\ res[p].at = "reserved"}
              \in SUBSET Procs
        OBVIOUS
      <4>3. /\ IsFiniteSet({x \in DOMAIN conn : conn[x].owner[1] = c})
            /\ IsFiniteSet({p \in Procs : p[1] = c /\ res[p].at = "reserved"})
        BY <4>1, <4>2, ProcsFinite, FS_Subset, TarpitAssumption
      <4>. QED
        BY <4>3, FS_CardinalityType DEF Total
    <3>. QED
      BY <3>1, <3>2, <3>3, <3>4, <3>5, TarpitAssumption
  <2>. QED
    BY <2>1 DEF OvershootBounded
<1>2. Inv /\ Inv' /\ Headroom /\ [Next]_vars => Headroom'
  BY NextHeadroom
<1>. QED
  BY <1>1, <1>2, InitInv, NextInv, InitHeadroom, PTL DEF Spec
=============================================================================
