--------------------------- MODULE RedisSyncProofs ---------------------------
(***************************************************************************)
(* Proofs about the Redis sync, for any number of workers, keys, SCAN      *)
(* pages, bans and faults: the types, that no error path leaves a worker's *)
(* connection stuck (LinkSound), that a ban is never on its way to Redis   *)
(* twice (AtMostOnce), and that bans live as long as they should           *)
(* (BanLifetimes).  All need to know what the two queues of a connection   *)
(* hold: commands of the four kinds, and replies that suit the first of    *)
(* them.                                                                   *)
(***************************************************************************)
EXTENDS RedisSync, FiniteSetTheorems, SequenceTheorems, TLAPS

-----------------------------------------------------------------------------
(* The inductive invariant. *)

Command ==
  [op : {"auth"}] \cup [op : {"scan"}, cursor : 0 .. Pages - 1]
  \cup [op : {"get"}, ip : Keys] \cup [op : {"set"}, entry : Entry, ttl : Nat]

ScanResult == [keys : SUBSET Keys, cursor : 0 .. Pages - 1]

Reply == ScanResult \cup [expiry : Nat] \cup [ok : {TRUE}]

\* r can be the reply to command c.
Suits(r, c) ==
  /\ c.op = "scan" => r \in ScanResult
  /\ c.op = "get" => r \in [expiry : Nat]

\* The replies rs are to the first of the commands q.
Answers(rs, q) ==
  /\ Len(rs) <= Len(q)
  /\ \A i \in 1 .. Len(rs) : Suits(rs[i], q[i])

\* hiredis: every reply belongs to a command still held.
Queues ==
  /\ pending \in [Workers -> Seq(Command)]
  /\ replies \in [Workers -> Seq(Reply)]
  /\ \A w \in Workers : Answers(replies[w], pending[w])

\* There is a command of kind op in q.
Some(q, op) == \E i \in 1 .. Len(q) : q[i].op = op

\* There is no more than one.
NotTwo(q, op) == \A i, j \in 1 .. Len(q) : q[i].op = op /\ q[j].op = op => i = j

\* What the context l of a worker says of its commands q, with its handler at p.
Tells(l, q, p) ==
  /\ l.auth_pending <=> Some(q, "auth")
  /\ l.auth_pending => q = <<Auth>>
  /\ l.pull_inflight <=> Some(q, "scan")
  /\ NotTwo(q, "scan")
  /\ l.state = "down" => q = << >>
  /\ p = "flush" => l.state = "up" /\ ~l.auth_pending

LinksTell == \A w \in Workers : Tells(link[w], pending[w], pc[w])

\* Ban i is in the n-th command of q.
Carries(q, n, i) == n \in 1 .. Len(q) /\ q[n].op = "set" /\ q[n].entry.id = i

\* A ban's id is never given again; it is in one place.
BansApart ==
  /\ \A n \in 1 .. Len(ring) : ring[n].id < env.bans
  /\ \A m, n \in 1 .. Len(ring) : ring[m].id = ring[n].id => m = n
  /\ \A w \in Workers, n, i \in Nat :
       Carries(pending[w], n, i) =>
         /\ i < env.bans
         /\ \A m \in 1 .. Len(ring) : ring[m].id # i
         /\ \A v \in Workers, m \in Nat :
              Carries(pending[v], m, i) => v = w /\ m = n

Inv == TypeOK /\ Queues /\ LinksTell /\ TimerAlive /\ BansApart

-----------------------------------------------------------------------------
(* Queues of commands. *)

\* The GETs for a set of keys: one sequence of them, in some order.
LEMMA GetsProps ==
  ASSUME NEW ks \in SUBSET Keys
  PROVE  LET gets == SetToSeq({Get(k) : k \in ks})
         IN  /\ gets \in Seq(Command)
             /\ \A i \in 1 .. Len(gets) : gets[i].op = "get"
<1>. DEFINE S == {Get(k) : k \in ks}
            f == [k \in ks |-> Get(k)]
            gets == SetToSeq(S)
<1>1. IsFiniteSet(ks)
  BY FS_Subset, RedisAssumption
<1>2. f \in Surjection(ks, S)
  BY DEF Surjection
<1>3. S \subseteq [op : {"get"}, ip : Keys]
  BY DEF Get
<1>. HIDE DEF S, f
<1>4. IsFiniteSet(S)
  BY <1>1, <1>2, FS_Surjection
<1>5. Cardinality(S) \in Nat /\ ExistsBijection(1 .. Cardinality(S), S)
  BY <1>4, FS_CardinalityType
<1>6. \E g \in [1 .. Cardinality(S) -> S] : IsInjective(g)
  BY <1>5 DEF ExistsBijection, Bijection, Injection, IsInjective
<1>7. gets \in [1 .. Cardinality(S) -> S]
  BY <1>6 DEF SetToSeq
<1>. HIDE DEF gets
<1>8. gets \in Seq(S) /\ Len(gets) = Cardinality(S)
  BY <1>5, <1>7
<1>9. gets \in Seq(Command)
  BY <1>3, <1>5, <1>7 DEF Command
<1>10. \A i \in 1 .. Len(gets) : gets[i].op = "get"
  BY <1>3, <1>7, <1>8
<1>. QED
  BY <1>9, <1>10 DEF gets, S

\* A first reply answers the first command, and the rest answer the rest.
LEMMA TailAnswers ==
  ASSUME NEW q \in Seq(Command), NEW rs \in Seq(Reply), Answers(rs, q), rs # << >>
  PROVE  /\ q # << >> /\ Len(q) \in Nat
         /\ Head(q) = q[1] /\ q[1] \in Command
         /\ Suits(Head(rs), q[1])
         /\ Tail(q) \in Seq(Command) /\ Len(Tail(q)) = Len(q) - 1
         /\ \A i \in 1 .. Len(Tail(q)) : Tail(q)[i] = q[i + 1]
         /\ Tail(rs) \in Seq(Reply)
         /\ Answers(Tail(rs), Tail(q))
<1>1. /\ Len(rs) \in Nat /\ Len(rs) > 0 /\ Head(rs) = rs[1]
      /\ Tail(rs) \in Seq(Reply) /\ Len(Tail(rs)) = Len(rs) - 1
      /\ \A i \in 1 .. Len(Tail(rs)) : Tail(rs)[i] = rs[i + 1]
  BY HeadTailProperties, LenProperties, EmptySeq
<1>2. Len(q) \in Nat /\ Len(q) > 0 /\ q # << >>
  BY <1>1, LenProperties DEF Answers
<1>3. /\ Head(q) = q[1] /\ q[1] \in Command
      /\ Tail(q) \in Seq(Command) /\ Len(Tail(q)) = Len(q) - 1
      /\ \A i \in 1 .. Len(Tail(q)) : Tail(q)[i] = q[i + 1]
  BY <1>2, HeadTailProperties, ElementOfSeq
<1>4. Suits(Head(rs), q[1])
  BY <1>1 DEF Answers
<1>5. Answers(Tail(rs), Tail(q))
  <2>1. Len(Tail(rs)) <= Len(Tail(q))
    BY <1>1, <1>2, <1>3 DEF Answers
  <2>2. ASSUME NEW i \in 1 .. Len(Tail(rs))
        PROVE  Suits(Tail(rs)[i], Tail(q)[i])
    <3>1. i + 1 \in 1 .. Len(rs) /\ i \in 1 .. Len(Tail(q))
      BY <1>1, <1>2, <1>3, <2>1
    <3>. QED
      BY <1>1, <1>3, <3>1 DEF Answers
  <2>. QED
    BY <2>1, <2>2 DEF Answers
<1>. QED
  BY <1>1, <1>2, <1>3, <1>4, <1>5

\* Commands behind the others leave the replies to the first ones valid.
LEMMA ConcatAnswers ==
  ASSUME NEW q \in Seq(Command), NEW x \in Seq(Command), NEW rs \in Seq(Reply),
         Answers(rs, q)
  PROVE  /\ q \o x \in Seq(Command)
         /\ Len(q \o x) = Len(q) + Len(x)
         /\ Len(q) \in Nat /\ Len(x) \in Nat
         /\ \A i \in 1 .. Len(q) : (q \o x)[i] = q[i]
         /\ \A i \in 1 .. Len(x) : (q \o x)[Len(q) + i] = x[i]
         /\ Answers(rs, q \o x)
<1>1. /\ q \o x \in Seq(Command)
      /\ Len(q \o x) = Len(q) + Len(x)
      /\ Len(q) \in Nat /\ Len(x) \in Nat /\ Len(rs) \in Nat
      /\ \A i \in 1 .. Len(q) : (q \o x)[i] = q[i]
      /\ \A i \in 1 .. Len(x) : (q \o x)[Len(q) + i] = x[i]
  BY LenProperties, ConcatProperties
<1>2. Answers(rs, q \o x)
  BY <1>1 DEF Answers
<1>. QED
  BY <1>1, <1>2

\* The same for one command.
LEMMA AppendAnswers ==
  ASSUME NEW q \in Seq(Command), NEW c \in Command, NEW rs \in Seq(Reply),
         Answers(rs, q)
  PROVE  /\ Append(q, c) \in Seq(Command)
         /\ Len(Append(q, c)) = Len(q) + 1
         /\ Len(q) \in Nat
         /\ \A i \in 1 .. Len(q) : Append(q, c)[i] = q[i]
         /\ Append(q, c)[Len(q) + 1] = c
         /\ Answers(rs, Append(q, c))
<1>1. /\ Append(q, c) \in Seq(Command)
      /\ Len(Append(q, c)) = Len(q) + 1
      /\ Len(q) \in Nat /\ Len(rs) \in Nat
      /\ \A i \in 1 .. Len(q) : Append(q, c)[i] = q[i]
      /\ Append(q, c)[Len(q) + 1] = c
  BY LenProperties, AppendProperties
<1>2. Answers(rs, Append(q, c))
  BY <1>1 DEF Answers
<1>. QED
  BY <1>1, <1>2

-----------------------------------------------------------------------------
(* Steps of one worker. *)

Link ==
  [state : {"down", "connecting", "up"}, timer : BOOLEAN,
   backoff : BackoffMin .. BackoffMax,
   scan_cursor : 0 .. Pages - 1, pull_inflight : BOOLEAN,
   auth_pending : BOOLEAN, now : 0 .. MaxTime, drained : 0 .. RingSize]

\* A step of worker w that leaves it with context l, commands q, replies rs and
\* its handler at p keeps what is said of the workers one by one.
LEMMA WorkerStep ==
  ASSUME Inv, NEW w \in Workers, NEW l \in Link, NEW q \in Seq(Command),
         NEW rs \in Seq(Reply), NEW p \in {"idle", "flush"},
         link' = [link EXCEPT ![w] = l], pending' = [pending EXCEPT ![w] = q],
         replies' = [replies EXCEPT ![w] = rs], pc' = [pc EXCEPT ![w] = p],
         \A v \in Workers \ {w} : status'[v] = status[v],
         Answers(rs, q), Tells(l, q, p),
         status'[w] = "run" /\ p = "idle" => l.timer
  PROVE  /\ link' \in [Workers -> Link]
         /\ pc' \in [Workers -> {"idle", "flush"}]
         /\ Queues' /\ LinksTell' /\ TimerAlive'
<1>. USE DEF Inv
<1>1. /\ link \in [Workers -> Link] /\ pc \in [Workers -> {"idle", "flush"}]
      /\ pending \in [Workers -> Seq(Command)] /\ replies \in [Workers -> Seq(Reply)]
  BY DEF TypeOK, Queues, Link
<1>2. /\ link'[w] = l /\ pending'[w] = q /\ replies'[w] = rs /\ pc'[w] = p
      /\ \A v \in Workers \ {w} :
           /\ link'[v] = link[v] /\ pending'[v] = pending[v]
           /\ replies'[v] = replies[v] /\ pc'[v] = pc[v]
  BY <1>1
<1>3. link' \in [Workers -> Link] /\ pc' \in [Workers -> {"idle", "flush"}]
  BY <1>1
<1>4. Queues'
  <2>1. pending' \in [Workers -> Seq(Command)] /\ replies' \in [Workers -> Seq(Reply)]
    BY <1>1
  <2>2. \A v \in Workers : Answers(replies'[v], pending'[v])
    BY <1>2 DEF Queues
  <2>. QED
    BY <2>1, <2>2 DEF Queues, Answers, Suits
<1>5. LinksTell'
  <2>1. \A v \in Workers : Tells(link'[v], pending'[v], pc'[v])
    BY <1>2 DEF LinksTell
  <2>. QED
    BY <2>1 DEF LinksTell, Tells, Some, NotTwo
<1>6. TimerAlive'
  BY <1>2 DEF TimerAlive
<1>. QED
  BY <1>3, <1>4, <1>5, <1>6

\* With that, the rest of the types are of what is not a worker's.
LEMMA Typed ==
  ASSUME link' \in [Workers -> Link], pc' \in [Workers -> {"idle", "flush"}],
         Queues',
         clock' \in 0 .. MaxTime, ring' \in Seq(Entry), Len(ring') <= RingSize,
         DOMAIN store' \subseteq Keys,
         store' \in [DOMAIN store' -> [expiry : Nat, ends : Nat]],
         DOMAIN table' \subseteq Keys, table' \in [DOMAIN table' -> Nat],
         status' \in [Workers -> {"run", "exiting", "gone"}],
         env' \in [bans : 0 .. MaxBans, faults : 0 .. MaxFaults]
  PROVE  TypeOK'
<1>1. ASSUME NEW w \in Workers
      PROVE  /\ \A i \in DOMAIN pending'[w] :
                  pending'[w][i].op \in {"auth", "scan", "get", "set"}
             /\ Len(replies'[w]) <= Len(pending'[w])
  <2>1. pending'[w] \in Seq(Command) /\ Answers(replies'[w], pending'[w])
    BY DEF Queues, Answers, Suits
  <2>2. \A i \in DOMAIN pending'[w] : pending'[w][i] \in Command
    BY <2>1, LenProperties
  <2>. QED
    BY <2>1, <2>2 DEF Command, Answers
<1>. QED
  BY <1>1 DEF TypeOK, Link

\* What a failure does to the record of them.
LEMMA FaultType ==
  ASSUME TypeOK, Fault
  PROVE  /\ env' \in [bans : 0 .. MaxBans, faults : 0 .. MaxFaults]
         /\ env'.bans = env.bans
  BY RedisAssumption DEF TypeOK, Fault

\* The SETs in r are some of those in q, moved up by d places.
Thins(q, r) ==
  \E d \in Nat : \A n \in 1 .. Len(r) :
    r[n].op = "set" => n + d \in 1 .. Len(q) /\ r[n] = q[n + d]

\* Taking commands off a queue, or bans off the ring, puts no ban anywhere new.
LEMMA BansThin ==
  ASSUME Inv, NEW w \in Workers, NEW q \in Seq(Command),
         pending' = [pending EXCEPT ![w] = q], Thins(pending[w], q),
         ring' = ring \/ (ring # << >> /\ ring' = Tail(ring)),
         env'.bans = env.bans
  PROVE  BansApart'
<1>. USE DEF Inv
<1>1. pending'[w] = q /\ \A v \in Workers \ {w} : pending'[v] = pending[v]
  BY DEF Queues
<1>2. PICK d \in Nat : \A n \in 1 .. Len(q) :
        q[n].op = "set" => n + d \in 1 .. Len(pending[w]) /\ q[n] = pending[w][n + d]
  BY DEF Thins
<1>3. Len(ring) \in Nat /\ Len(q) \in Nat
  BY LenProperties DEF TypeOK
<1>4. PICK r \in {0, 1} : \A n \in 1 .. Len(ring') :
        n + r \in 1 .. Len(ring) /\ ring'[n] = ring[n + r]
  <2>1. CASE ring' = ring
    BY <1>3, <2>1
  <2>2. CASE ring # << >> /\ ring' = Tail(ring)
    <3>1. /\ Len(ring') = Len(ring) - 1
          /\ \A n \in 1 .. Len(ring') : ring'[n] = ring[n + 1]
      BY <2>2, HeadTailProperties DEF TypeOK
    <3>. QED
      BY <1>3, <3>1
  <2>. QED
    BY <2>1, <2>2
<1>. DEFINE up(v) == IF v = w THEN d ELSE 0
<1>5. ASSUME NEW v \in Workers, NEW n \in Nat, NEW i \in Nat,
             Carries(pending'[v], n, i)
      PROVE  n + up(v) \in Nat /\ Carries(pending[v], n + up(v), i)
  BY <1>1, <1>2, <1>3, <1>5 DEF Carries
<1>. HIDE DEF up
<1>6. ASSUME NEW v \in Workers, NEW n \in Nat, NEW i \in Nat,
             Carries(pending'[v], n, i)
      PROVE  /\ i < env.bans
             /\ \A m \in 1 .. Len(ring') : ring'[m].id # i
             /\ \A u \in Workers, m \in Nat :
                  Carries(pending'[u], m, i) => u = v /\ m = n
  <2>1. n + up(v) \in Nat /\ Carries(pending[v], n + up(v), i)
    BY <1>5, <1>6
  <2>2. /\ i < env.bans
        /\ \A m \in 1 .. Len(ring) : ring[m].id # i
    BY <2>1 DEF BansApart
  <2>3. ASSUME NEW u \in Workers, NEW m \in Nat, Carries(pending'[u], m, i)
        PROVE  u = v /\ m = n
    <3>1. m + up(u) \in Nat /\ Carries(pending[u], m + up(u), i)
      BY <1>5, <2>3
    <3>2. u = v /\ m + up(u) = n + up(v)
      BY <2>1, <3>1 DEF BansApart
    <3>. QED
      BY <3>2, d \in Nat DEF up
  <2>. QED
    BY <1>4, <2>2, <2>3
<1>7. /\ \A n \in 1 .. Len(ring') : ring'[n].id < env'.bans
      /\ \A m, n \in 1 .. Len(ring') : ring'[m].id = ring'[n].id => m = n
  <2>1. \A n \in 1 .. Len(ring') : ring'[n].id < env'.bans
    BY <1>4 DEF BansApart
  <2>2. ASSUME NEW m \in 1 .. Len(ring'), NEW n \in 1 .. Len(ring'),
               ring'[m].id = ring'[n].id
        PROVE  m = n
    <3>1. m + r = n + r
      BY <1>4, <2>2 DEF BansApart
    <3>. QED
      BY <3>1
  <2>. QED
    BY <2>1, <2>2
<1>. QED
  BY <1>6, <1>7 DEF BansApart, Carries

\* The steps that only take commands off the queue of w or put others than SET
\* on it, and leave the ring alone.
LEMMA QuietStep ==
  ASSUME Inv, NEW w \in Workers, NEW l \in Link, NEW q \in Seq(Command),
         NEW rs \in Seq(Reply), NEW p \in {"idle", "flush"},
         link' = [link EXCEPT ![w] = l], pending' = [pending EXCEPT ![w] = q],
         replies' = [replies EXCEPT ![w] = rs], pc' = [pc EXCEPT ![w] = p],
         status' \in [Workers -> {"run", "exiting", "gone"}],
         \A v \in Workers \ {w} : status'[v] = status[v],
         Answers(rs, q), Tells(l, q, p), Thins(pending[w], q),
         status'[w] = "run" /\ p = "idle" => l.timer,
         UNCHANGED <<clock, ring>>,
         DOMAIN store' \subseteq Keys,
         store' \in [DOMAIN store' -> [expiry : Nat, ends : Nat]],
         DOMAIN table' \subseteq Keys, table' \in [DOMAIN table' -> Nat],
         env' \in [bans : 0 .. MaxBans, faults : 0 .. MaxFaults],
         env'.bans = env.bans
  PROVE  Inv'
<1>1. /\ link' \in [Workers -> Link]
      /\ pc' \in [Workers -> {"idle", "flush"}]
      /\ Queues' /\ LinksTell' /\ TimerAlive'
  BY WorkerStep
<1>2. BansApart'
  BY BansThin
<1>3. clock' \in 0 .. MaxTime /\ ring' \in Seq(Entry) /\ Len(ring') <= RingSize
  BY DEF Inv, TypeOK
<1>4. TypeOK'
  BY <1>1, <1>3, Typed
<1>. QED
  BY <1>1, <1>2, <1>4 DEF Inv

\* A worker's part of the invariant.
LEMMA WorkerFacts ==
  ASSUME Inv, NEW w \in Workers
  PROVE  /\ link \in [Workers -> Link] /\ link[w] \in Link
         /\ pending \in [Workers -> Seq(Command)] /\ pending[w] \in Seq(Command)
         /\ replies \in [Workers -> Seq(Reply)] /\ replies[w] \in Seq(Reply)
         /\ pc \in [Workers -> {"idle", "flush"}]
         /\ pc[w] \in {"idle", "flush"}
         /\ status \in [Workers -> {"run", "exiting", "gone"}]
         /\ Answers(replies[w], pending[w])
         /\ Tells(link[w], pending[w], pc[w])
         /\ status[w] = "run" /\ pc[w] = "idle" => link[w].timer
         /\ DOMAIN store \subseteq Keys
         /\ store \in [DOMAIN store -> [expiry : Nat, ends : Nat]]
         /\ DOMAIN table \subseteq Keys /\ table \in [DOMAIN table -> Nat]
         /\ env \in [bans : 0 .. MaxBans, faults : 0 .. MaxFaults]
         /\ clock \in 0 .. MaxTime
         /\ Len(pending[w]) \in Nat
  BY LenProperties DEF Inv, TypeOK, Queues, LinksTell, TimerAlive, Link

\* Replacing the value of w by the one it has.
LEMMA SameAt ==
  ASSUME NEW S, NEW f \in [Workers -> S], NEW w \in Workers
  PROVE  f = [f EXCEPT ![w] = f[w]]
  OBVIOUS

\* A queue thins itself, and so does every queue the empty one.
LEMMA ThinsSelf ==
  ASSUME NEW q \in Seq(Command)
  PROVE  Thins(q, q) /\ Thins(q, << >>)
<1>1. Thins(q, q)
  <2>1. Len(q) \in Nat
    BY LenProperties
  <2>2. \A n \in 1 .. Len(q) : n + 0 \in 1 .. Len(q) /\ q[n] = q[n + 0]
    BY <2>1
  <2>. QED
    BY <2>2 DEF Thins
<1>2. Thins(q, << >>)
  <2>1. 1 .. Len(<< >>) = {}
    BY EmptySeq
  <2>. QED
    BY <2>1 DEF Thins
<1>. QED
  BY <1>1, <1>2

\* The backoff stays within its limits.
LEMMA DoubledBound ==
  ASSUME NEW b \in BackoffMin .. BackoffMax
  PROVE  Doubled(b) \in BackoffMin .. BackoffMax
  BY RedisAssumption DEF Doubled

\* sentinel_redis_schedule_reconnect keeps everything but timer and backoff.
LEMMA ReconnectProps ==
  ASSUME NEW w \in Workers, NEW l \in Link, NEW n
  PROVE  /\ Reconnect(w, l, n) \in Link
         /\ Reconnect(w, l, n).state = l.state
         /\ Reconnect(w, l, n).auth_pending = l.auth_pending
         /\ Reconnect(w, l, n).pull_inflight = l.pull_inflight
         /\ status[w] = "run" => Reconnect(w, l, n).timer
<1>1. l.backoff \in BackoffMin .. BackoffMax
  BY DEF Link
<1>. DEFINE b == IF n = 2 THEN Doubled(Doubled(l.backoff)) ELSE Doubled(l.backoff)
<1>2. b \in BackoffMin .. BackoffMax
  BY <1>1, DoubledBound
<1>. HIDE DEF b
<1>3. CASE Armed(w)
  <2>1. Reconnect(w, l, n) = [l EXCEPT !.timer = TRUE, !.backoff = b]
    BY <1>3 DEF Reconnect, b, Link
  <2>. QED
    BY <1>2, <2>1 DEF Link
<1>4. CASE ~Armed(w)
  BY <1>4 DEF Reconnect, Armed
<1>. QED
  BY <1>3, <1>4

\* A context that is torn down is that of no connection.
LEMMA TornProps ==
  ASSUME NEW l \in Link
  PROVE  /\ Torn(l) \in Link /\ Torn(l).state = "down"
         /\ ~Torn(l).auth_pending /\ ~Torn(l).pull_inflight
         /\ Torn(l).timer = l.timer
<1>1. /\ Down \in Link /\ Down.state = "down"
      /\ ~Down.auth_pending /\ ~Down.pull_inflight
  BY RedisAssumption DEF Down, Link
<1>. QED
  BY <1>1 DEF Torn, Link

\* No connection, no commands.
LEMMA DownTells ==
  ASSUME NEW l \in Link, l.state = "down", ~l.auth_pending, ~l.pull_inflight
  PROVE  Tells(l, << >>, "idle") /\ Answers(<< >>, << >>)
<1>1. Len(<< >>) = 0
  BY EmptySeq
<1>. QED
  BY <1>1 DEF Tells, Answers, Some, NotTwo

-----------------------------------------------------------------------------
(* The connection's lifecycle and the timer's handler. *)

\* Steps that change only the context.
LEMMA LinkOnlyInv ==
  ASSUME Inv, NEW w \in Workers,
         OnConnect(w) \/ ConnectError(w) \/ TimerWaits(w) \/ TimerWorks(w)
  PROVE  Inv'
<1>. USE WorkerFacts
<1>0. /\ UNCHANGED <<clock, ring, store, table, pending, replies, status>>
      /\ env' \in [bans : 0 .. MaxBans, faults : 0 .. MaxFaults]
      /\ env'.bans = env.bans
      /\ pc[w] = "idle"
  BY FaultType DEF OnConnect, ConnectError, TimerWaits, TimerWorks, Fires, Runs, Inv
<1>1. \E l \in Link, p \in {"idle", "flush"} :
        /\ link' = [link EXCEPT ![w] = l] /\ pc' = [pc EXCEPT ![w] = p]
        /\ l.auth_pending = link[w].auth_pending
        /\ l.pull_inflight = link[w].pull_inflight
        /\ l.state = link[w].state \/ (link[w].state = "connecting" /\ l.state = "up")
        /\ p = "flush" => l.state = "up" /\ ~l.auth_pending
        /\ status[w] = "run" /\ p = "idle" => l.timer
  <2>1. CASE OnConnect(w)
    <3>1. PICK l : l = [link[w] EXCEPT !.state = "up", !.backoff = BackoffMin]
      OBVIOUS
    <3>2. /\ l \in Link /\ link' = [link EXCEPT ![w] = l]
          /\ pc' = [pc EXCEPT ![w] = "idle"]
      <4>0. link[w] \in Link /\ BackoffMin \in BackoffMin .. BackoffMax
        BY RedisAssumption
      <4>1. l \in Link
        BY <3>1, <4>0 DEF Link
      <4>2. link' = [link EXCEPT ![w] = l] /\ pc' = pc
        BY <2>1, <3>1 DEF OnConnect, Link
      <4>. QED
        BY <1>0, <4>1, <4>2
    <3>3. l.auth_pending = link[w].auth_pending /\ l.pull_inflight = link[w].pull_inflight
          /\ link[w].state = "connecting" /\ l.state = "up" /\ l.timer = link[w].timer
      BY <2>1, <3>1 DEF OnConnect, Link
    <3>. QED
      BY <1>0, <3>2, <3>3
  <2>2. CASE ConnectError(w)
    <3>1. PICK l0 : l0 = [link[w] EXCEPT !.timer = FALSE]
      OBVIOUS
    <3>2. PICK l : l = Reconnect(w, l0, 1)
      OBVIOUS
    <3>3. l0 \in Link /\ l0.auth_pending = link[w].auth_pending
          /\ l0.pull_inflight = link[w].pull_inflight /\ l0.state = link[w].state
      BY <3>1, ZenonT(60) DEF Link
    <3>4. /\ l \in Link /\ l.state = l0.state
          /\ l.auth_pending = l0.auth_pending /\ l.pull_inflight = l0.pull_inflight
          /\ status[w] = "run" => l.timer
      BY <3>2, <3>3, ReconnectProps
    <3>5. link' = [link EXCEPT ![w] = l] /\ pc' = [pc EXCEPT ![w] = "idle"]
      BY <1>0, <2>2, <3>1, <3>2, SameAt DEF ConnectError
    <3>. QED
      BY <3>3, <3>4, <3>5
  <2>3. CASE TimerWaits(w)
    <3>1. PICK l : l = [link[w] EXCEPT !.timer = Armed(w)]
      OBVIOUS
    <3>2. /\ l \in Link /\ link' = [link EXCEPT ![w] = l]
          /\ pc' = [pc EXCEPT ![w] = "idle"]
      <4>1. l \in Link
        BY <3>1, ZenonT(60) DEF Link, Armed
      <4>2. link' = [link EXCEPT ![w] = l] /\ pc' = pc
        BY <2>3, <3>1 DEF TimerWaits
      <4>. QED
        BY <1>0, <4>1, <4>2
    <3>3. l.auth_pending = link[w].auth_pending /\ l.pull_inflight = link[w].pull_inflight
          /\ l.state = link[w].state /\ (status[w] = "run" => l.timer)
      BY <3>1 DEF Link, Armed
    <3>. QED
      BY <1>0, <3>2, <3>3
  <2>4. CASE TimerWorks(w)
    <3>1. PICK l : l = [link[w] EXCEPT !.timer = FALSE, !.now = clock]
      OBVIOUS
    <3>2. l \in Link /\ link' = [link EXCEPT ![w] = l] /\ pc' = [pc EXCEPT ![w] = "flush"]
      BY <2>4, <3>1, ZenonT(60) DEF TimerWorks, Link
    <3>3. l.auth_pending = link[w].auth_pending /\ l.pull_inflight = link[w].pull_inflight
          /\ l.state = link[w].state /\ l.state = "up" /\ ~l.auth_pending
      BY <2>4, <3>1 DEF TimerWorks, Fires, Link
    <3>. QED
      BY <3>2, <3>3
  <2>. QED
    BY <2>1, <2>2, <2>3, <2>4
<1>2. PICK l \in Link, p \in {"idle", "flush"} :
        /\ link' = [link EXCEPT ![w] = l] /\ pc' = [pc EXCEPT ![w] = p]
        /\ l.auth_pending = link[w].auth_pending
        /\ l.pull_inflight = link[w].pull_inflight
        /\ l.state = link[w].state \/ (link[w].state = "connecting" /\ l.state = "up")
        /\ p = "flush" => l.state = "up" /\ ~l.auth_pending
        /\ status[w] = "run" /\ p = "idle" => l.timer
  BY <1>1
<1>3. PICK q, rs : q = pending[w] /\ rs = replies[w]
  OBVIOUS
<1>4. pending' = [pending EXCEPT ![w] = q] /\ replies' = [replies EXCEPT ![w] = rs]
  BY <1>0, <1>3, SameAt
<1>5. Tells(l, q, p)
  BY <1>2, <1>3 DEF Tells
<1>6. Thins(pending[w], q)
  BY <1>3, ThinsSelf
<1>7. /\ q \in Seq(Command) /\ rs \in Seq(Reply) /\ Answers(rs, q)
      /\ status' \in [Workers -> {"run", "exiting", "gone"}]
      /\ DOMAIN store' \subseteq Keys
      /\ store' \in [DOMAIN store' -> [expiry : Nat, ends : Nat]]
      /\ DOMAIN table' \subseteq Keys /\ table' \in [DOMAIN table' -> Nat]
  BY <1>0, <1>3
<1>8. /\ \A v \in Workers \ {w} : status'[v] = status[v]
      /\ status'[w] = "run" /\ p = "idle" => l.timer
      /\ UNCHANGED <<clock, ring>>
      /\ env' \in [bans : 0 .. MaxBans, faults : 0 .. MaxFaults]
      /\ env'.bans = env.bans
  BY <1>0, <1>2
<1>9. link' = [link EXCEPT ![w] = l] /\ pc' = [pc EXCEPT ![w] = p]
  BY <1>2
<1>. HIDE WorkerFacts
<1>. QED
  BY <1>4, <1>9, <1>5, <1>6, <1>7, <1>8, QuietStep

\* Steps at which the connection of a worker goes, or the worker itself.
LEMMA LoseInv ==
  ASSUME Inv, NEW w \in Workers,
         Disconnect(w) \/ AuthRefused(w) \/ Crash(w) \/ Leave(w)
  PROVE  Inv'
<1>. USE WorkerFacts
<1>0. /\ UNCHANGED <<clock, ring, store, table>>
      /\ Detached(w)
      /\ env' \in [bans : 0 .. MaxBans, faults : 0 .. MaxFaults]
      /\ env'.bans = env.bans
      /\ pc' = [pc EXCEPT ![w] = "idle"]
      /\ status' \in [Workers -> {"run", "exiting", "gone"}]
      /\ \A v \in Workers \ {w} : status'[v] = status[v]
  <2>1. CASE Disconnect(w) \/ AuthRefused(w)
    BY <2>1, FaultType, SameAt DEF Disconnect, AuthRefused, Lose, Arrives, Runs, Inv
  <2>2. CASE Crash(w)
    BY <2>2, FaultType DEF Crash, Inv
  <2>3. CASE Leave(w)
    BY <2>3, SameAt DEF Leave
  <2>. QED
    BY <2>1, <2>2, <2>3
<1>1. \E l \in Link :
        /\ link' = [link EXCEPT ![w] = l]
        /\ l.state = "down" /\ ~l.auth_pending /\ ~l.pull_inflight
        /\ status'[w] = "run" => l.timer
  <2>1. CASE Disconnect(w) \/ AuthRefused(w)
    <3>1. PICK l0, n : l0 = Torn(link[w]) /\ n = IF link[w].auth_pending THEN 2 ELSE 1
      OBVIOUS
    <3>2. PICK l : l = Reconnect(w, l0, n)
      OBVIOUS
    <3>3. l0 \in Link /\ l0.state = "down" /\ ~l0.auth_pending /\ ~l0.pull_inflight
      BY <3>1, TornProps
    <3>4. l \in Link /\ l.state = "down" /\ ~l.auth_pending /\ ~l.pull_inflight
          /\ (status[w] = "run" => l.timer)
      BY <3>2, <3>3, ReconnectProps
    <3>5. link' = [link EXCEPT ![w] = l] /\ status' = status
      BY <2>1, <3>1, <3>2 DEF Disconnect, AuthRefused, Lose
    <3>. QED
      BY <3>4, <3>5
  <2>2. CASE Crash(w)
    <3>1. Down \in Link /\ Down.state = "down" /\ ~Down.auth_pending
          /\ ~Down.pull_inflight /\ Down.timer
      BY RedisAssumption, SMTT(60) DEF Down, Link
    <3>. QED
      BY <2>2, <3>1 DEF Crash
  <2>3. CASE Leave(w)
    <3>1. PICK l : l = Torn(link[w])
      OBVIOUS
    <3>2. l \in Link /\ l.state = "down" /\ ~l.auth_pending /\ ~l.pull_inflight
      BY <3>1, TornProps
    <3>3. link' = [link EXCEPT ![w] = l] /\ status'[w] = "gone"
      BY <2>3, <3>1 DEF Leave
    <3>. QED
      BY <3>2, <3>3
  <2>. QED
    BY <2>1, <2>2, <2>3
<1>2. PICK l \in Link :
        /\ link' = [link EXCEPT ![w] = l]
        /\ l.state = "down" /\ ~l.auth_pending /\ ~l.pull_inflight
        /\ status'[w] = "run" => l.timer
  BY <1>1
<1>3. Tells(l, << >>, "idle") /\ Answers(<< >>, << >>)
  BY <1>2, DownTells
<1>4. Thins(pending[w], << >>) /\ << >> \in Seq(Command) /\ << >> \in Seq(Reply)
  BY ThinsSelf, EmptySeq
<1>. QED
  BY <1>0, <1>2, <1>3, <1>4, QuietStep DEF Detached

\* A connection attempt begins with at most AUTH in the queue.
LEMMA ConnectInv ==
  ASSUME Inv, NEW w \in Workers, Connect(w)
  PROVE  Inv'
<1>. USE WorkerFacts
<1>0. /\ UNCHANGED <<clock, ring, store, table, replies, pc, status, env>>
      /\ pc[w] = "idle" /\ link[w].state = "down" /\ pending[w] = << >>
      /\ ~link[w].pull_inflight
  BY EmptySeq DEF Connect, Fires, Runs, Tells, Some
<1>1. PICK l, q, rs :
        /\ l = [link[w] EXCEPT !.state = "connecting", !.auth_pending = Password,
                               !.timer = Armed(w)]
        /\ q = IF Password THEN <<Auth>> ELSE << >>
        /\ rs = replies[w]
  OBVIOUS
<1>2. l \in Link /\ link' = [link EXCEPT ![w] = l]
  <2>0. link[w] \in Link /\ Password \in BOOLEAN
    BY RedisAssumption
  <2>1. l \in Link
    BY <1>1, <2>0 DEF Link, Armed
  <2>2. link' = [link EXCEPT ![w] = l]
    BY <1>1 DEF Connect, Link
  <2>. QED
    BY <2>1, <2>2
<1>3. /\ l.auth_pending = Password /\ ~l.pull_inflight /\ l.state = "connecting"
      /\ status[w] = "run" => l.timer
  BY <1>0, <1>1 DEF Link, Armed
<1>4. /\ q \in Seq(Command) /\ Len(q) = (IF Password THEN 1 ELSE 0)
      /\ Password => q[1] = Auth
      /\ Auth.op = "auth" /\ Auth \in Command
  <2>1. Auth.op = "auth" /\ Auth \in Command
    BY DEF Auth, Command
  <2>2. CASE Password
    BY <1>1, <2>1, <2>2
  <2>3. CASE ~Password
    BY <1>1, <2>1, <2>3, EmptySeq
  <2>. QED
    BY <2>1, <2>2, <2>3
<1>5. Tells(l, q, "idle")
  <2>1. CASE Password
    BY <1>1, <1>3, <1>4, <2>1 DEF Tells, Some, NotTwo
  <2>2. CASE ~Password
    BY <1>1, <1>3, <1>4, <2>2 DEF Tells, Some, NotTwo
  <2>. QED
    BY <2>1, <2>2
<1>6. Len(rs) = 0 /\ Answers(rs, q)
  <2>1. Len(rs) <= 0 /\ rs \in Seq(Reply)
    BY <1>0, <1>1, EmptySeq DEF Answers
  <2>2. Len(rs) = 0
    BY <2>1, LenProperties
  <2>. QED
    BY <1>4, <2>2 DEF Answers
<1>7. Thins(pending[w], q)
  <2>1. \A n \in 1 .. Len(q) : q[n].op # "set"
    BY <1>4
  <2>. QED
    BY <2>1 DEF Thins
<1>8. /\ pending' = [pending EXCEPT ![w] = q]
      /\ replies' = [replies EXCEPT ![w] = rs] /\ pc' = [pc EXCEPT ![w] = "idle"]
      /\ rs \in Seq(Reply)
  BY <1>0, <1>1, SameAt DEF Connect
<1>. QED
  BY <1>0, <1>2, <1>3, <1>4, <1>5, <1>6, <1>7, <1>8, QuietStep

\* A SCAN is put on a queue that holds none.
LEMMA FinishTickProps ==
  ASSUME Inv, NEW w \in Workers, NEW ok \in BOOLEAN, pc[w] = "flush",
         FinishTick(w, ok)
  PROVE  \E l \in Link, q \in Seq(Command) :
           /\ link' = [link EXCEPT ![w] = l] /\ pending' = [pending EXCEPT ![w] = q]
           /\ pc' = [pc EXCEPT ![w] = "idle"]
           /\ Answers(replies[w], q) /\ Tells(l, q, "idle") /\ Thins(pending[w], q)
           /\ status[w] = "run" => l.timer
<1>0. /\ link \in [Workers -> Link] /\ link[w] \in Link
      /\ pending[w] \in Seq(Command) /\ replies[w] \in Seq(Reply)
      /\ Answers(replies[w], pending[w]) /\ Tells(link[w], pending[w], "flush")
  BY WorkerFacts
<1>1. PICK pull, q0, rs : /\ pull = (ok /\ ~link[w].pull_inflight)
                          /\ q0 = pending[w] /\ rs = replies[w]
  OBVIOUS
<1>2. pull \in BOOLEAN
  BY <1>1
<1>3. PICK l, q :
        /\ l = [link[w] EXCEPT !.timer = Armed(w), !.now = 0, !.drained = 0,
                               !.pull_inflight = pull \/ link[w].pull_inflight,
                               !.scan_cursor = IF link[w].pull_inflight THEN @ ELSE 0]
        /\ q = IF pull THEN Append(q0, Scan(0)) ELSE q0
  OBVIOUS
<1>4. l \in Link
  <2>1. 0 \in 0 .. MaxTime /\ 0 \in 0 .. RingSize /\ 0 \in 0 .. Pages - 1
    BY RedisAssumption
  <2>. QED
    BY <1>0, <1>3, <2>1 DEF Link, Armed
<1>5. /\ link' = [link EXCEPT ![w] = l] /\ pending' = [pending EXCEPT ![w] = q]
      /\ pc' = [pc EXCEPT ![w] = "idle"]
  <2>1. pending' = [pending EXCEPT ![w] = q] /\ pc' = [pc EXCEPT ![w] = "idle"]
    BY <1>1, <1>3 DEF FinishTick
  <2>2. link' = [link EXCEPT ![w] = l]
    BY <1>0, <1>1, <1>3 DEF FinishTick, Link
  <2>. QED
    BY <2>1, <2>2
<1>6. /\ l.auth_pending = link[w].auth_pending /\ l.state = link[w].state
      /\ l.pull_inflight = (pull \/ link[w].pull_inflight)
      /\ status[w] = "run" => l.timer
  BY <1>0, <1>3 DEF Link, Armed
<1>7. CASE ~pull
  <2>1. q = q0 /\ l.pull_inflight = link[w].pull_inflight
    BY <1>0, <1>3, <1>6, <1>7 DEF Link
  <2>2. Tells(l, q, "idle")
    BY <1>0, <1>1, <1>6, <2>1 DEF Tells
  <2>3. Thins(pending[w], q)
    BY <1>0, <1>1, <2>1, ThinsSelf
  <2>. QED
    BY <1>0, <1>1, <1>4, <1>5, <1>6, <2>1, <2>2, <2>3
<1>8. CASE pull
  <2>1. q = Append(q0, Scan(0)) /\ l.pull_inflight /\ ~link[w].pull_inflight
    BY <1>1, <1>3, <1>6, <1>8
  <2>2. Scan(0) \in Command /\ Scan(0).op = "scan"
    BY RedisAssumption DEF Scan, Command
  <2>3. /\ q \in Seq(Command) /\ Len(q) = Len(q0) + 1 /\ Len(q0) \in Nat
        /\ \A i \in 1 .. Len(q0) : q[i] = q0[i]
        /\ q[Len(q0) + 1].op = "scan"
        /\ Answers(rs, q)
    BY <1>0, <1>1, <2>1, <2>2, AppendAnswers
  <2>4. Tells(l, q, "idle")
    <3>1. ~link[w].auth_pending /\ link[w].state = "up"
      BY <1>0 DEF Tells
    <3>2. \A i \in 1 .. Len(q0) : q0[i].op # "auth" /\ q0[i].op # "scan"
      BY <1>0, <1>1, <2>1, <3>1 DEF Tells, Some
    <3>3. \A i \in 1 .. Len(q) : q[i].op # "auth" /\ (q[i].op = "scan" <=> i = Len(q0) + 1)
      BY <2>3, <3>2
    <3>4. Len(q0) + 1 \in 1 .. Len(q)
      BY <2>3
    <3>. QED
      BY <1>6, <2>1, <3>1, <3>3, <3>4 DEF Tells, Some, NotTwo
  <2>5. Thins(q0, q)
    <3>1. \A n \in 1 .. Len(q) : q[n].op = "set" => n + 0 \in 1 .. Len(q0) /\ q[n] = q0[n + 0]
      BY <2>3
    <3>. QED
      BY <3>1 DEF Thins
  <2>. QED
    BY <1>1, <1>4, <1>5, <1>6, <2>3, <2>4, <2>5
<1>. QED
  BY <1>2, <1>7, <1>8

\* The ring without its oldest entry.
LEMMA TailOfRing ==
  ASSUME TypeOK, ring # << >>
  PROVE  /\ Tail(ring) \in Seq(Entry) /\ Len(Tail(ring)) <= RingSize
         /\ Len(ring) \in Nat /\ Len(Tail(ring)) = Len(ring) - 1
         /\ Head(ring) = ring[1] /\ 1 \in 1 .. Len(ring) /\ ring[1] \in Entry
         /\ \A n \in 1 .. Len(Tail(ring)) :
              n + 1 \in 1 .. Len(ring) /\ Tail(ring)[n] = ring[n + 1]
<1>1. ring \in Seq(Entry) /\ Len(ring) <= RingSize /\ Len(ring) \in Nat \ {0}
  BY EmptySeq DEF TypeOK
<1>2. /\ Tail(ring) \in Seq(Entry) /\ Len(Tail(ring)) = Len(ring) - 1
      /\ \A n \in 1 .. Len(Tail(ring)) : Tail(ring)[n] = ring[n + 1]
  BY <1>1, HeadTailProperties
<1>3. Head(ring) = ring[1] /\ 1 \in 1 .. Len(ring) /\ ring[1] \in Entry
  BY <1>1, ElementOfSeq
<1>. QED
  BY <1>1, <1>2, <1>3, RedisAssumption

\* The handler returns; with FlushOneFails, it has lost the entry it held.
LEMMA FlushEndInv ==
  ASSUME Inv, NEW w \in Workers, FlushEnd(w) \/ FlushEndFails(w) \/ FlushOneFails(w)
  PROVE  Inv'
<1>0. /\ UNCHANGED <<clock, store, table, replies, status>>
      /\ pc[w] = "flush"
      /\ env' \in [bans : 0 .. MaxBans, faults : 0 .. MaxFaults]
      /\ env'.bans = env.bans
      /\ ring' = ring \/ (ring # << >> /\ ring' = Tail(ring))
  BY FaultType DEF FlushEnd, FlushEndFails, FlushOneFails, Draining, Drained, Inv, TypeOK
<1>1. \E ok \in BOOLEAN : FinishTick(w, ok)
  BY DEF FlushEnd, FlushEndFails, FlushOneFails
<1>2. PICK l \in Link, q \in Seq(Command) :
        /\ link' = [link EXCEPT ![w] = l] /\ pending' = [pending EXCEPT ![w] = q]
        /\ pc' = [pc EXCEPT ![w] = "idle"]
        /\ Answers(replies[w], q) /\ Tells(l, q, "idle") /\ Thins(pending[w], q)
        /\ status[w] = "run" => l.timer
  BY <1>0, <1>1, FinishTickProps
<1>3. PICK rs \in Seq(Reply) : rs = replies[w] /\ replies' = [replies EXCEPT ![w] = rs]
  BY <1>0, WorkerFacts
<1>4. /\ link' \in [Workers -> Link]
      /\ pc' \in [Workers -> {"idle", "flush"}]
      /\ Queues' /\ LinksTell' /\ TimerAlive'
  <2>1. \A v \in Workers \ {w} : status'[v] = status[v]
    BY <1>0
  <2>2. Answers(rs, q) /\ (status'[w] = "run" => l.timer)
    BY <1>0, <1>2, <1>3
  <2>. QED
    BY <1>2, <1>3, <2>1, <2>2, WorkerStep
<1>5. BansApart'
  BY <1>0, <1>2, BansThin
<1>6. TypeOK'
  <2>1. ring' \in Seq(Entry) /\ Len(ring') <= RingSize
    BY <1>0, TailOfRing DEF Inv, TypeOK
  <2>2. /\ clock' \in 0 .. MaxTime
        /\ DOMAIN store' \subseteq Keys
        /\ store' \in [DOMAIN store' -> [expiry : Nat, ends : Nat]]
        /\ DOMAIN table' \subseteq Keys /\ table' \in [DOMAIN table' -> Nat]
        /\ status' \in [Workers -> {"run", "exiting", "gone"}]
    BY <1>0, WorkerFacts
  <2>. QED
    BY <1>0, <1>4, <2>1, <2>2, Typed
<1>. QED
  BY <1>4, <1>5, <1>6 DEF Inv

\* A ban moves from the ring to the queue of w: it was nowhere else.
LEMMA PublishBans ==
  ASSUME Inv, NEW w \in Workers, NEW ttl, NEW q \in Seq(Command), ring # << >>,
         q = Append(pending[w], Set(Head(ring), ttl)),
         Set(Head(ring), ttl) \in Command,
         ring' = Tail(ring), pending' = [pending EXCEPT ![w] = q], env' = env
  PROVE  BansApart'
<1>. DEFINE q0 == pending[w]
            c == Set(Head(ring), ttl)
            last == Len(q0) + 1
<1>1. /\ Len(ring) \in Nat /\ Len(ring') = Len(ring) - 1
      /\ Head(ring) = ring[1] /\ 1 \in 1 .. Len(ring) /\ ring[1] \in Entry
      /\ \A n \in 1 .. Len(ring') : n + 1 \in 1 .. Len(ring) /\ ring'[n] = ring[n + 1]
  BY TailOfRing DEF Inv
<1>2. c.op = "set" /\ c.entry = ring[1]
  BY <1>1 DEF Set
<1>3. /\ Len(q) = Len(q0) + 1 /\ Len(q0) \in Nat
      /\ \A i \in 1 .. Len(q0) : q[i] = q0[i]
      /\ q[Len(q0) + 1] = c
  BY WorkerFacts, AppendAnswers
<1>4. pending'[w] = q /\ \A v \in Workers \ {w} : pending'[v] = pending[v]
  BY WorkerFacts
<1>5. ASSUME NEW v \in Workers, NEW n \in Nat, NEW i \in Nat,
             Carries(pending'[v], n, i)
      PROVE  Carries(pending[v], n, i) \/ (v = w /\ n = last /\ i = ring[1].id)
  <2>1. CASE v = w
    <3>1. n \in 1 .. Len(q0) \/ n = last
      BY <1>3, <1>4, <1>5, <2>1 DEF Carries
    <3>2. CASE n \in 1 .. Len(q0)
      BY <1>3, <1>4, <1>5, <2>1, <3>2 DEF Carries
    <3>3. CASE n = last
      BY <1>2, <1>3, <1>4, <1>5, <2>1, <3>3 DEF Carries
    <3>. QED
      BY <3>1, <3>2, <3>3
  <2>2. CASE v # w
    BY <1>4, <1>5, <2>2
  <2>. QED
    BY <2>1, <2>2
<1>. HIDE DEF last, c
<1>6. /\ \A n \in 1 .. Len(ring) : ring[n].id < env.bans
      /\ \A m, n \in 1 .. Len(ring) : ring[m].id = ring[n].id => m = n
      /\ \A v \in Workers, n, i \in Nat :
           Carries(pending[v], n, i) =>
             /\ i < env.bans
             /\ \A m \in 1 .. Len(ring) : ring[m].id # i
             /\ \A u \in Workers, m \in Nat :
                  Carries(pending[u], m, i) => u = v /\ m = n
  BY DEF Inv, BansApart
<1>7. \A m \in 1 .. Len(ring') : ring'[m].id # ring[1].id
  <2>. SUFFICES ASSUME NEW m \in 1 .. Len(ring'), ring'[m].id = ring[1].id
                PROVE  FALSE
    OBVIOUS
  <2>1. m + 1 = 1 /\ m \in Nat
    BY <1>1, <1>6
  <2>. QED
    BY <2>1, <1>1
<1>8. ASSUME NEW v \in Workers, NEW n \in Nat, NEW i \in Nat,
             Carries(pending'[v], n, i)
      PROVE  /\ i < env.bans
             /\ \A m \in 1 .. Len(ring') : ring'[m].id # i
             /\ \A u \in Workers, m \in Nat :
                  Carries(pending'[u], m, i) => u = v /\ m = n
  <2>1. CASE Carries(pending[v], n, i)
    <3>1. /\ i < env.bans /\ i # ring[1].id
          /\ \A m \in 1 .. Len(ring') : ring'[m].id # i
      BY <1>1, <1>6, <2>1
    <3>. QED
      BY <1>5, <1>6, <2>1, <3>1
  <2>2. CASE v = w /\ n = last /\ i = ring[1].id
    <3>1. i < env.bans
      BY <1>1, <1>6, <2>2
    <3>2. \A u \in Workers, m \in Nat : ~Carries(pending[u], m, i)
      BY <1>1, <1>6, <2>2
    <3>. QED
      BY <1>5, <1>7, <2>2, <3>1, <3>2
  <2>. QED
    BY <1>5, <1>8, <2>1, <2>2
<1>9. /\ \A n \in 1 .. Len(ring') : ring'[n].id < env'.bans
      /\ \A m, n \in 1 .. Len(ring') : ring'[m].id = ring'[n].id => m = n
  <2>1. \A n \in 1 .. Len(ring') : ring'[n].id < env'.bans
    BY <1>1, <1>6
  <2>2. ASSUME NEW m \in 1 .. Len(ring'), NEW n \in 1 .. Len(ring'),
               ring'[m].id = ring'[n].id
        PROVE  m = n
    <3>1. m + 1 = n + 1
      BY <1>1, <1>6, <2>2
    <3>. QED
      BY <3>1
  <2>. QED
    BY <2>1, <2>2
<1>10. env'.bans = env.bans
  OBVIOUS
<1>. HIDE DEF q0
<1>11. \A v \in Workers, n, i \in Nat :
         Carries(pending'[v], n, i) =>
           /\ i < env'.bans
           /\ \A m \in 1 .. Len(ring') : ring'[m].id # i
           /\ \A u \in Workers, m \in Nat :
                Carries(pending'[u], m, i) => u = v /\ m = n
  BY <1>8, <1>10
<1>12. (\A v \in Workers, n, i \in Nat :
         Carries(pending[v], n, i) =>
           /\ i < env.bans
           /\ \A m \in 1 .. Len(ring) : ring[m].id # i
           /\ \A u \in Workers, m \in Nat :
                Carries(pending[u], m, i) => u = v /\ m = n)'
  BY <1>11 DEF Carries
<1>. QED
  BY <1>9, <1>12 DEF BansApart

\* One entry leaves the ring, to be published or, expired, to be dropped.
LEMMA FlushOneInv ==
  ASSUME Inv, NEW w \in Workers, FlushOne(w)
  PROVE  Inv'
<1>0. /\ UNCHANGED <<clock, store, table, replies, pc, status, env>>
      /\ pc[w] = "flush" /\ ring # << >> /\ ring' = Tail(ring)
      /\ link[w].drained < RingSize
      /\ TypeOK
  BY DEF FlushOne, Draining, Inv
<1>1. /\ ring' \in Seq(Entry) /\ Len(ring') <= RingSize
      /\ Head(ring) \in Entry
  BY <1>0, TailOfRing
<1>2. PICK p, rs : p = pc[w] /\ rs = replies[w]
  OBVIOUS
<1>3. /\ p = "flush" /\ rs \in Seq(Reply) /\ Answers(rs, pending[w])
      /\ pc' = [pc EXCEPT ![w] = p] /\ replies' = [replies EXCEPT ![w] = rs]
      /\ pending[w] \in Seq(Command) /\ Tells(link[w], pending[w], p)
      /\ link[w] \in Link /\ link \in [Workers -> Link]
      /\ \A v \in Workers \ {w} : status'[v] = status[v]
  BY <1>0, <1>2, WorkerFacts
<1>4. /\ clock' \in 0 .. MaxTime
      /\ DOMAIN store' \subseteq Keys
      /\ store' \in [DOMAIN store' -> [expiry : Nat, ends : Nat]]
      /\ DOMAIN table' \subseteq Keys /\ table' \in [DOMAIN table' -> Nat]
      /\ status' \in [Workers -> {"run", "exiting", "gone"}]
      /\ env' \in [bans : 0 .. MaxBans, faults : 0 .. MaxFaults]
  BY <1>0, WorkerFacts
<1>5. \E l \in Link, q \in Seq(Command) :
        /\ link' = [link EXCEPT ![w] = l] /\ pending' = [pending EXCEPT ![w] = q]
        /\ Answers(rs, q) /\ Tells(l, q, p)
        /\ BansApart'
  <2>1. CASE UNCHANGED <<pending, link>>
    <3>1. PICK l, q : l = link[w] /\ q = pending[w]
      OBVIOUS
    <3>2. link' = [link EXCEPT ![w] = l] /\ pending' = [pending EXCEPT ![w] = q]
      BY <2>1, <3>1, WorkerFacts
    <3>3. BansApart'
      BY <1>0, <1>3, <3>1, <3>2, ThinsSelf, BansThin
    <3>. QED
      BY <1>3, <3>1, <3>2, <3>3
  <2>2. CASE Head(ring).expiry > link[w].now /\ Publish(w, Head(ring))
    <3>1. PICK l, ttl : /\ l = [link[w] EXCEPT !.drained = @ + 1]
                        /\ ttl = Head(ring).expiry - link[w].now
      OBVIOUS
    <3>2. PICK q : q = Append(pending[w], Set(Head(ring), ttl))
      OBVIOUS
    <3>3. Set(Head(ring), ttl) \in Command /\ Set(Head(ring), ttl).op = "set"
      <4>1. Head(ring).expiry \in Nat /\ link[w].now \in Nat
        BY <1>1, <1>3, RedisAssumption DEF Entry, Link
      <4>2. ttl \in Nat
        BY <2>2, <3>1, <4>1
      <4>. QED
        BY <1>1, <4>2 DEF Set, Command
    <3>4. link' = [link EXCEPT ![w] = l] /\ pending' = [pending EXCEPT ![w] = q]
      BY <1>3, <2>2, <3>1, <3>2 DEF Publish
    <3>5. /\ q \in Seq(Command) /\ Answers(rs, q)
          /\ Len(q) = Len(pending[w]) + 1 /\ Len(pending[w]) \in Nat
          /\ \A i \in 1 .. Len(pending[w]) : q[i] = pending[w][i]
          /\ q[Len(pending[w]) + 1].op = "set"
      BY <1>3, <3>2, <3>3, AppendAnswers
    <3>6. BansApart'
      BY <1>0, <3>2, <3>3, <3>4, <3>5, PublishBans
    <3>7. /\ l \in Link /\ l.auth_pending = link[w].auth_pending
          /\ l.pull_inflight = link[w].pull_inflight /\ l.state = link[w].state
      <4>1. link[w].drained + 1 \in 0 .. RingSize
        BY <1>0, <1>3, RedisAssumption DEF Link
      <4>. QED
        BY <1>3, <3>1, <4>1 DEF Link
    <3>8. \A op \in {"auth", "scan"} :
            (Some(q, op) <=> Some(pending[w], op)) /\ (NotTwo(pending[w], op) => NotTwo(q, op))
      BY <3>5, SMTT(60) DEF Some, NotTwo
    <3>9. Tells(l, q, p)
      BY <1>3, <3>7, <3>8 DEF Tells
    <3>. QED
      BY <3>4, <3>5, <3>6, <3>7, <3>9
  <2>. QED
    BY <2>1, <2>2 DEF FlushOne
<1>6. /\ link' \in [Workers -> Link]
      /\ pc' \in [Workers -> {"idle", "flush"}]
      /\ Queues' /\ LinksTell' /\ TimerAlive'
  BY <1>3, <1>5, WorkerStep
<1>7. TypeOK'
  BY <1>1, <1>4, <1>6, Typed
<1>. QED
  BY <1>5, <1>6, <1>7 DEF Inv

-----------------------------------------------------------------------------
(* Redis and the callbacks. *)

\* Redis answers a command with a reply that suits it.
LEMMA AnswerSuits ==
  ASSUME TypeOK, NEW c \in Command
  PROVE  Answer(c) \in Reply /\ Suits(Answer(c), c)
<1>1. CASE c.op = "scan"
  <2>1. c.cursor \in 0 .. Pages - 1
    BY <1>1 DEF Command
  <2>2. (c.cursor + 1) % Pages \in 0 .. Pages - 1
    BY <2>1, RedisAssumption
  <2>3. {k \in Keys : Held(k) /\ Page[k] = c.cursor} \in SUBSET Keys
    OBVIOUS
  <2>4. Answer(c) \in ScanResult
    BY <1>1, <2>2, <2>3 DEF Answer, ScanResult
  <2>. QED
    BY <1>1, <2>4 DEF Suits, Reply
<1>2. CASE c.op = "get"
  <2>1. (IF Held(c.ip) THEN store[c.ip].expiry ELSE 0) \in Nat
    BY DEF Held, TypeOK
  <2>2. Answer(c) \in [expiry : Nat]
    BY <1>2, <2>1 DEF Answer
  <2>. QED
    BY <1>2, <2>2 DEF Suits, Reply
<1>3. CASE c.op # "scan" /\ c.op # "get"
  BY <1>3 DEF Answer, Suits, Reply
<1>. QED
  BY <1>1, <1>2, <1>3

\* Redis executes the next command.
LEMMA ExecuteInv ==
  ASSUME Inv, NEW w \in Workers, Execute(w)
  PROVE  Inv'
<1>0. /\ UNCHANGED <<clock, ring, table, link, pending, pc, status, env>>
      /\ Len(replies[w]) < Len(pending[w])
      /\ TypeOK
  BY DEF Execute, Executed, Inv
<1>1. PICK c, q, l, p : /\ c = pending[w][Len(replies[w]) + 1] /\ q = pending[w]
                        /\ l = link[w] /\ p = pc[w]
  OBVIOUS
<1>2. PICK a : a = Answer(c)
  OBVIOUS
<1>3. PICK rs : rs = Append(replies[w], a)
  OBVIOUS
<1>4. /\ link' = [link EXCEPT ![w] = l] /\ pending' = [pending EXCEPT ![w] = q]
      /\ pc' = [pc EXCEPT ![w] = p] /\ replies' = [replies EXCEPT ![w] = rs]
      /\ l \in Link /\ q \in Seq(Command) /\ p \in {"idle", "flush"}
      /\ Tells(l, q, p) /\ Thins(pending[w], q)
      /\ status'[w] = "run" /\ p = "idle" => l.timer
      /\ \A v \in Workers \ {w} : status'[v] = status[v]
  BY <1>0, <1>1, <1>2, <1>3, WorkerFacts, ThinsSelf DEF Execute, Executed
<1>5. /\ Len(replies[w]) \in Nat /\ Len(pending[w]) \in Nat
      /\ c \in Command
      /\ replies[w] \in Seq(Reply) /\ Answers(replies[w], q)
  BY <1>0, <1>1, WorkerFacts, LenProperties, ElementOfSeq
<1>6. a \in Reply /\ Suits(a, c)
  BY <1>0, <1>2, <1>5, AnswerSuits
<1>7. rs \in Seq(Reply) /\ Answers(rs, q)
  <2>1. /\ rs \in Seq(Reply) /\ Len(rs) = Len(replies[w]) + 1
        /\ \A i \in 1 .. Len(replies[w]) : rs[i] = replies[w][i]
        /\ rs[Len(replies[w]) + 1] = a
    BY <1>3, <1>5, <1>6, AppendProperties
  <2>. QED
    BY <1>0, <1>1, <1>5, <1>6, <2>1, SMTT(60) DEF Answers
<1>8. /\ DOMAIN store' \subseteq Keys
      /\ store' \in [DOMAIN store' -> [expiry : Nat, ends : Nat]]
  <2>1. CASE UNCHANGED store
    BY <1>0, <2>1 DEF TypeOK
  <2>2. CASE c.op = "set"
    <3>1. c.entry \in Entry /\ c.ttl \in Nat
      BY <1>5, <2>2 DEF Command
    <3>2. c.entry.ip \in Keys /\ c.entry.expiry \in Nat /\ clock + c.ttl \in Nat
      <4>1. clock \in Nat
        BY <1>0, RedisAssumption DEF TypeOK
      <4>2. c.entry.ip \in Keys /\ c.entry.expiry \in Nat
        BY <3>1 DEF Entry
      <4>. QED
        BY <3>1, <4>1, <4>2
    <3>3. store' = [k \in {c.entry.ip} \cup DOMAIN store |->
                      IF k = c.entry.ip
                      THEN [expiry |-> c.entry.expiry, ends |-> clock + c.ttl]
                      ELSE store[k]]
      BY <1>1, <2>2 DEF Execute, Executed
    <3>. QED
      BY <1>0, <3>2, <3>3 DEF TypeOK
  <2>. QED
    BY <1>1, <2>1, <2>2 DEF Execute, Executed
<1>9. /\ DOMAIN table' \subseteq Keys /\ table' \in [DOMAIN table' -> Nat]
      /\ status' \in [Workers -> {"run", "exiting", "gone"}]
      /\ env' \in [bans : 0 .. MaxBans, faults : 0 .. MaxFaults]
      /\ env'.bans = env.bans
      /\ UNCHANGED <<clock, ring>>
  BY <1>0 DEF TypeOK
<1>. QED
  BY <1>4, <1>7, <1>8, <1>9, QuietStep

\* What is known when a callback runs: the first reply is to the first command.
LEMMA ArrivesFacts ==
  ASSUME Inv, NEW w \in Workers, NEW op, Arrives(w, op)
  PROVE  /\ pc[w] = "idle" /\ pending[w] # << >> /\ Len(pending[w]) \in Nat
         /\ Head(pending[w]) = pending[w][1] /\ pending[w][1] \in Command
         /\ pending[w][1].op = op /\ 1 \in 1 .. Len(pending[w])
         /\ Suits(Head(replies[w]), pending[w][1])
         /\ Tail(pending[w]) \in Seq(Command)
         /\ Len(Tail(pending[w])) = Len(pending[w]) - 1
         /\ \A i \in 1 .. Len(Tail(pending[w])) :
              /\ i + 1 \in 1 .. Len(pending[w])
              /\ Tail(pending[w])[i] = pending[w][i + 1]
         /\ Tail(replies[w]) \in Seq(Reply)
         /\ Answers(Tail(replies[w]), Tail(pending[w]))
<1>1. /\ pending[w] \in Seq(Command) /\ replies[w] \in Seq(Reply)
      /\ Answers(replies[w], pending[w]) /\ replies[w] # << >>
      /\ pc[w] = "idle" /\ Head(pending[w]).op = op
  BY WorkerFacts DEF Arrives, Runs
<1>2. /\ pending[w] # << >> /\ Len(pending[w]) \in Nat
      /\ Head(pending[w]) = pending[w][1] /\ pending[w][1] \in Command
      /\ Suits(Head(replies[w]), pending[w][1])
      /\ Tail(pending[w]) \in Seq(Command)
      /\ Len(Tail(pending[w])) = Len(pending[w]) - 1
      /\ \A i \in 1 .. Len(Tail(pending[w])) : Tail(pending[w])[i] = pending[w][i + 1]
      /\ Tail(replies[w]) \in Seq(Reply)
      /\ Answers(Tail(replies[w]), Tail(pending[w]))
  BY <1>1, TailAnswers
<1>3. Len(pending[w]) # 0
  BY <1>1, <1>2, EmptySeq
<1>. QED
  BY <1>1, <1>2, <1>3

\* The queue after a callback: the first command is gone, and behind the rest
\* there are GETs and perhaps a SCAN.
LEMMA CallbackStep ==
  ASSUME Inv, NEW w \in Workers, NEW op, Arrives(w, op),
         NEW l \in Link, NEW x \in Seq(Command), NEW q, NEW rs,
         q = Tail(pending[w]) \o x, rs = Tail(replies[w]),
         link' = [link EXCEPT ![w] = l],
         pending' = [pending EXCEPT ![w] = q], replies' = [replies EXCEPT ![w] = rs],
         \A i \in 1 .. Len(x) : x[i].op \in {"get", "scan"},
         NotTwo(x, "scan"),
         l.pull_inflight <=> (op # "scan" /\ link[w].pull_inflight) \/ Some(x, "scan"),
         Some(x, "scan") => op = "scan",
         op = "auth" \/ op = "set" \/ op = "get" => x = << >>,
         ~l.auth_pending, l.state = link[w].state, l.timer = link[w].timer,
         UNCHANGED <<clock, ring, store, pc, status>>,
         DOMAIN table' \subseteq Keys, table' \in [DOMAIN table' -> Nat],
         env' \in [bans : 0 .. MaxBans, faults : 0 .. MaxFaults],
         env'.bans = env.bans
  PROVE  Inv'
<1>. DEFINE q0 == pending[w]
            t == Tail(pending[w])
<1>1. /\ pc[w] = "idle" /\ q0 # << >> /\ Len(q0) \in Nat
      /\ q0[1] \in Command /\ q0[1].op = op /\ 1 \in 1 .. Len(q0)
      /\ t \in Seq(Command) /\ Len(t) = Len(q0) - 1
      /\ \A i \in 1 .. Len(t) : i + 1 \in 1 .. Len(q0) /\ t[i] = q0[i + 1]
      /\ rs \in Seq(Reply) /\ Answers(rs, t)
  BY ArrivesFacts
<1>2. /\ q \in Seq(Command) /\ Answers(rs, q)
      /\ Len(q) = Len(t) + Len(x) /\ Len(t) \in Nat /\ Len(x) \in Nat
      /\ \A i \in 1 .. Len(t) : q[i] = t[i]
      /\ \A i \in 1 .. Len(x) : q[Len(t) + i] = x[i]
  <2>1. q = t \o x
    OBVIOUS
  <2>2. t \in Seq(Command) /\ rs \in Seq(Reply) /\ Answers(rs, t)
    BY <1>1
  <2>. HIDE DEF t
  <2>3. /\ t \o x \in Seq(Command) /\ Answers(rs, t \o x)
        /\ Len(t \o x) = Len(t) + Len(x) /\ Len(t) \in Nat /\ Len(x) \in Nat
        /\ \A i \in 1 .. Len(t) : (t \o x)[i] = t[i]
        /\ \A i \in 1 .. Len(x) : (t \o x)[Len(t) + i] = x[i]
    BY <2>2, ConcatAnswers
  <2>. QED
    BY <2>1, <2>3, Zenon
<1>3. Tells(link[w], q0, "idle") /\ (status[w] = "run" => link[w].timer)
  BY <1>1, WorkerFacts
<1>. HIDE DEF t, q0
<1>4. ASSUME NEW i \in 1 .. Len(q)
      PROVE  \/ i \in 1 .. Len(t) /\ i + 1 \in 1 .. Len(q0) /\ q[i] = q0[i + 1]
             \/ i - Len(t) \in 1 .. Len(x) /\ q[i] = x[i - Len(t)]
  <2>1. CASE i \in 1 .. Len(t)
    BY <1>1, <1>2, <2>1
  <2>2. CASE i \notin 1 .. Len(t)
    <3>1. i - Len(t) \in 1 .. Len(x) /\ Len(t) + (i - Len(t)) = i
      BY <1>2, <2>2
    <3>. QED
      BY <1>2, <3>1
  <2>. QED
    BY <2>1, <2>2
<1>5. Tells(l, q, "idle")
  <2>1. \A i \in 1 .. Len(q0) : q0[i].op = "auth" => i = 1
    BY <1>3 DEF Tells, Some
  <2>2. \A i \in 1 .. Len(q) : q[i].op # "auth"
    <3>. SUFFICES ASSUME NEW i \in 1 .. Len(q) PROVE q[i].op # "auth"
      OBVIOUS
    <3>1. CASE i + 1 \in 1 .. Len(q0) /\ q[i] = q0[i + 1]
      BY <2>1, <3>1
    <3>2. CASE i - Len(t) \in 1 .. Len(x) /\ q[i] = x[i - Len(t)]
      BY <3>2
    <3>. QED
      BY <1>4, <3>1, <3>2
  <2>3. \A i, j \in 1 .. Len(q0) : q0[i].op = "scan" /\ q0[j].op = "scan" => i = j
    BY <1>3 DEF Tells, NotTwo
  <2>4. CASE op = "scan"
    <3>1. \A i \in 1 .. Len(t) : t[i].op # "scan"
      BY <1>1, <2>3, <2>4
    <3>2. ASSUME NEW i \in 1 .. Len(q), q[i].op = "scan"
          PROVE  i - Len(t) \in 1 .. Len(x) /\ x[i - Len(t)].op = "scan"
      BY <1>2, <1>4, <3>1, <3>2
    <3>3. Some(q, "scan") <=> Some(x, "scan")
      <4>1. Some(q, "scan") => Some(x, "scan")
        BY <3>2 DEF Some
      <4>2. ASSUME NEW j \in 1 .. Len(x), x[j].op = "scan"
            PROVE  Some(q, "scan")
        <5>1. Len(t) + j \in 1 .. Len(q)
          BY <1>2
        <5>2. q[Len(t) + j] = x[j]
          BY <1>2
        <5>. QED
          BY <4>2, <5>1, <5>2 DEF Some
      <4>. QED
        BY <4>1, <4>2 DEF Some
    <3>4. NotTwo(q, "scan")
      <4>1. ASSUME NEW i \in 1 .. Len(q), NEW j \in 1 .. Len(q),
                   q[i].op = "scan", q[j].op = "scan"
            PROVE  i = j
        <5>1. i - Len(t) = j - Len(t)
          BY <3>2, <4>1 DEF NotTwo
        <5>. QED
          BY <5>1, <1>2
      <4>. QED
        BY <4>1 DEF NotTwo
    <3>5. link[w].state # "down"
      BY <1>1, <1>3 DEF Tells
    <3>. QED
      BY <2>2, <2>4, <3>3, <3>4, <3>5 DEF Tells, Some
  <2>5. CASE op # "scan"
    <3>1. \A i \in 1 .. Len(x) : x[i].op = "get"
      BY <2>5 DEF Some
    <3>2. ASSUME NEW i \in 1 .. Len(q), q[i].op = "scan"
          PROVE  i + 1 \in 1 .. Len(q0) /\ q0[i + 1].op = "scan"
      <4>1. ~(i - Len(t) \in 1 .. Len(x) /\ q[i] = x[i - Len(t)])
        BY <3>1, <3>2
      <4>. QED
        BY <1>4, <3>2, <4>1
    <3>3. ASSUME NEW j \in 1 .. Len(q0), q0[j].op = "scan"
          PROVE  j - 1 \in 1 .. Len(q) /\ q[j - 1].op = "scan"
      <4>1. j # 1
        BY <1>1, <2>5, <3>3
      <4>2. j - 1 \in 1 .. Len(t) /\ (j - 1) + 1 = j
        BY <1>1, <4>1
      <4>3. q[j - 1] = t[j - 1] /\ t[j - 1] = q0[j]
        BY <1>1, <1>2, <4>2
      <4>4. j - 1 \in 1 .. Len(q)
        BY <1>2, <4>2
      <4>. QED
        BY <3>3, <4>3, <4>4
    <3>4. Some(q, "scan") <=> Some(q0, "scan")
      BY <3>2, <3>3 DEF Some
    <3>5. NotTwo(q, "scan")
      <4>1. ASSUME NEW i \in 1 .. Len(q), NEW j \in 1 .. Len(q),
                   q[i].op = "scan", q[j].op = "scan"
            PROVE  i = j
        <5>1. i + 1 = j + 1
          BY <2>3, <3>2, <4>1
        <5>. QED
          BY <5>1
      <4>. QED
        BY <4>1 DEF NotTwo
    <3>6. link[w].state # "down"
      BY <1>1, <1>3 DEF Tells
    <3>7. l.pull_inflight <=> Some(q, "scan")
      BY <1>3, <2>5, <3>1, <3>4 DEF Tells, q0
    <3>. QED
      BY <2>2, <3>5, <3>6, <3>7 DEF Tells, Some
  <2>. QED
    BY <2>4, <2>5
<1>6. Thins(pending[w], q)
  <2>1. ASSUME NEW n \in 1 .. Len(q), q[n].op = "set"
        PROVE  n + 1 \in 1 .. Len(q0) /\ q[n] = q0[n + 1]
    BY <1>4, <2>1
  <2>. QED
    BY <2>1 DEF Thins, q0
<1>7. PICK p : p = pc[w]
  OBVIOUS
<1>8. /\ p = "idle" /\ pc' = [pc EXCEPT ![w] = p]
      /\ status' \in [Workers -> {"run", "exiting", "gone"}]
      /\ \A v \in Workers \ {w} : status'[v] = status[v]
      /\ status'[w] = "run" => l.timer
      /\ DOMAIN store' \subseteq Keys
      /\ store' \in [DOMAIN store' -> [expiry : Nat, ends : Nat]]
      /\ UNCHANGED <<clock, ring>>
  BY <1>1, <1>3, <1>7, WorkerFacts
<1>9. /\ p \in {"idle", "flush"} /\ Tells(l, q, p)
      /\ status'[w] = "run" /\ p = "idle" => l.timer
  BY <1>5, <1>8
<1>. QED
  BY <1>1, <1>2, <1>6, <1>8, <1>9, QuietStep

\* Callbacks that only take their command off the queue.
LEMMA PlainReplyInv ==
  ASSUME Inv, NEW w \in Workers,
         AuthReply(w) \/ SetReply(w) \/ GetReply(w) \/ GetReplyLost(w)
  PROVE  Inv'
<1>0. PICK op \in {"auth", "set", "get"} :
        /\ Arrives(w, op)
        /\ op = "auth" => link' = [link EXCEPT ![w].auth_pending = FALSE]
        /\ op # "auth" => link' = link
        /\ op # "get" => table' = table
        /\ op = "get" => GetReply(w) \/ UNCHANGED table
  BY DEF AuthReply, SetReply, GetReply, GetReplyLost
<1>1. /\ UNCHANGED <<clock, ring, store, pc, status>>
      /\ pending' = [pending EXCEPT ![w] = Tail(@)]
      /\ replies' = [replies EXCEPT ![w] = Tail(@)]
      /\ GetReplyLost(w) \/ UNCHANGED env
  BY DEF AuthReply, SetReply, GetReply, GetReplyLost, Answered
<1>2. /\ link[w] \in Link /\ link \in [Workers -> Link]
      /\ pending \in [Workers -> Seq(Command)]
      /\ replies \in [Workers -> Seq(Reply)]
      /\ Tells(link[w], pending[w], pc[w])
      /\ env \in [bans : 0 .. MaxBans, faults : 0 .. MaxFaults]
      /\ DOMAIN table \subseteq Keys /\ table \in [DOMAIN table -> Nat]
      /\ clock \in Nat
  BY WorkerFacts, RedisAssumption
<1>3. /\ pending[w][1] \in Command /\ Head(pending[w]) = pending[w][1]
      /\ pending[w][1].op = op /\ 1 \in 1 .. Len(pending[w])
      /\ Suits(Head(replies[w]), pending[w][1])
      /\ Tail(pending[w]) \in Seq(Command)
  BY <1>0, ArrivesFacts
<1>4. PICK l, q, rs : /\ l = [link[w] EXCEPT !.auth_pending = FALSE]
                      /\ q = Tail(pending[w]) \o << >> /\ rs = Tail(replies[w])
  OBVIOUS
<1>5. l \in Link /\ ~l.auth_pending /\ l.pull_inflight = link[w].pull_inflight
      /\ l.state = link[w].state /\ l.timer = link[w].timer
  BY <1>2, <1>4 DEF Link
<1>6. link' = [link EXCEPT ![w] = l]
  <2>1. CASE op = "auth"
    BY <1>0, <1>2, <1>4, <2>1
  <2>2. CASE op # "auth"
    <3>1. ~link[w].auth_pending
      <4>1. Auth.op = "auth" /\ <<Auth>>[1] = Auth
        BY DEF Auth
      <4>. QED
        BY <1>2, <1>3, <2>2, <4>1 DEF Tells
    <3>2. l = link[w]
      BY <1>2, <1>4, <3>1 DEF Link
    <3>. QED
      BY <1>0, <1>2, <2>2, <3>2
  <2>. QED
    BY <2>1, <2>2
<1>7. q = Tail(pending[w]) /\ << >> \in Seq(Command) /\ Len(<< >>) = 0
  BY <1>3, <1>4, ConcatEmptySeq, EmptySeq
<1>8. pending' = [pending EXCEPT ![w] = q] /\ replies' = [replies EXCEPT ![w] = rs]
  BY <1>1, <1>4, <1>7
<1>9. DOMAIN table' \subseteq Keys /\ table' \in [DOMAIN table' -> Nat]
  <2>1. CASE table' = table
    BY <1>2, <2>1
  <2>2. CASE op = "get" /\ table' # table
    <3>. DEFINE k == Head(pending[w]).ip
                e == Head(replies[w]).expiry
    <3>1. k \in Keys
      BY <1>3, <2>2 DEF Command
    <3>2. e \in Nat
      BY <1>3, <2>2 DEF Suits
    <3>3. table' = [x \in {k} \cup DOMAIN table |-> IF x = k THEN e ELSE table[x]]
      BY <1>0, <2>2 DEF GetReply
    <3>. HIDE DEF k, e
    <3>. QED
      BY <1>2, <3>1, <3>2, <3>3
  <2>. QED
    BY <1>0, <2>1, <2>2
<1>10. /\ \A i \in 1 .. Len(<< >>) : << >>[i].op \in {"get", "scan"}
       /\ NotTwo(<< >>, "scan") /\ ~Some(<< >>, "scan")
  BY <1>7 DEF NotTwo, Some
<1>11. /\ op # "scan"
       /\ l.pull_inflight <=> (op # "scan" /\ link[w].pull_inflight) \/ Some(<< >>, "scan")
  BY <1>5, <1>10, <1>2 DEF Link
<1>12. /\ env' \in [bans : 0 .. MaxBans, faults : 0 .. MaxFaults]
       /\ env'.bans = env.bans
       /\ UNCHANGED <<clock, ring, store, pc, status>>
  BY <1>1, <1>2, FaultType DEF GetReplyLost, Inv
<1>. QED
  BY <1>0, <1>4, <1>5, <1>6, <1>7, <1>8, <1>9, <1>10, <1>11, <1>12, CallbackStep

\* sentinel_redis_scan_reply, with all, some or none of the commands it means
\* to issue.
LEMMA ScanReplyInv ==
  ASSUME Inv, NEW w \in Workers,
         ScanReply(w) \/ ScanReplyError(w) \/ ScanReplyShort(w)
  PROVE  Inv'
<1>. DEFINE gets(ks) == SetToSeq({Get(k) : k \in ks})
<1>0. /\ Arrives(w, "scan")
      /\ UNCHANGED <<clock, ring, store, table, pc, status>>
      /\ env' \in [bans : 0 .. MaxBans, faults : 0 .. MaxFaults]
      /\ env'.bans = env.bans
      /\ replies' = [replies EXCEPT ![w] = Tail(@)]
  BY FaultType DEF ScanReply, ScanReplyError, ScanReplyShort, Answered, Inv, TypeOK
<1>1. /\ link[w] \in Link /\ link \in [Workers -> Link]
      /\ pending \in [Workers -> Seq(Command)]
      /\ replies \in [Workers -> Seq(Reply)]
      /\ Tells(link[w], pending[w], pc[w])
      /\ DOMAIN table' \subseteq Keys /\ table' \in [DOMAIN table' -> Nat]
  BY <1>0, WorkerFacts
<1>2. /\ pending[w][1].op = "scan" /\ 1 \in 1 .. Len(pending[w])
      /\ Head(replies[w]) \in ScanResult
      /\ Tail(pending[w]) \in Seq(Command)
  BY <1>0, ArrivesFacts DEF Suits
<1>3. ~link[w].auth_pending
  <2>1. Auth.op = "auth" /\ <<Auth>>[1] = Auth
    BY DEF Auth
  <2>. QED
    BY <1>1, <1>2, <2>1 DEF Tells
<1>4. PICK r \in ScanResult : r = Head(replies[w])
  BY <1>2
<1>5. r.keys \in SUBSET Keys /\ r.cursor \in 0 .. Pages - 1
  BY DEF ScanResult
<1>6. Scan(r.cursor) \in Command /\ Scan(r.cursor).op = "scan"
  BY <1>5 DEF Scan, Command
<1>7. ASSUME NEW ks \in SUBSET Keys, NEW more \in {<< >>, <<Scan(r.cursor)>>}
      PROVE  LET x == gets(ks) \o more
             IN  /\ x \in Seq(Command)
                 /\ (Tail(pending[w]) \o gets(ks)) \o more = Tail(pending[w]) \o x
                 /\ \A i \in 1 .. Len(x) : x[i].op \in {"get", "scan"}
                 /\ NotTwo(x, "scan")
                 /\ Some(x, "scan") <=> more # << >>
  <2>. DEFINE g == gets(ks)
              x == g \o more
  <2>1. g \in Seq(Command) /\ Len(g) \in Nat /\ \A i \in 1 .. Len(g) : g[i].op = "get"
    BY GetsProps, LenProperties
  <2>2. /\ more \in Seq(Command)
        /\ Len(more) = IF more = << >> THEN 0 ELSE 1
        /\ more # << >> => more[1].op = "scan"
    <3>1. CASE more = << >>
      BY <3>1, EmptySeq
    <3>2. CASE more = <<Scan(r.cursor)>>
      BY <1>6, <3>2
    <3>. QED
      BY <3>1, <3>2
  <2>. HIDE DEF gets, g
  <2>3. /\ x \in Seq(Command) /\ Len(x) = Len(g) + Len(more)
        /\ \A i \in 1 .. Len(g) + Len(more) :
             x[i] = IF i <= Len(g) THEN g[i] ELSE more[i - Len(g)]
        /\ (Tail(pending[w]) \o g) \o more = Tail(pending[w]) \o x
    <3>1. (Tail(pending[w]) \o g) \o more = Tail(pending[w]) \o x
      <4>1. PICK t \in Seq(Command) : t = Tail(pending[w])
        BY <1>2
      <4>2. (t \o g) \o more = t \o (g \o more)
        BY <2>1, <2>2, ConcatAssociative, SMTT(60)
      <4>. QED
        BY <4>1, <4>2
    <3>. QED
      BY <2>1, <2>2, <3>1, ConcatProperties, ZenonT(60)
  <2>. HIDE DEF x
  <2>4. \A i \in 1 .. Len(x) :
          /\ i <= Len(g) => x[i].op = "get"
          /\ i > Len(g) => i = Len(g) + 1 /\ more # << >> /\ x[i].op = "scan"
    <3>. SUFFICES ASSUME NEW i \in 1 .. Len(x)
                  PROVE  /\ i <= Len(g) => x[i].op = "get"
                         /\ i > Len(g) => i = Len(g) + 1 /\ more # << >> /\ x[i].op = "scan"
      OBVIOUS
    <3>1. CASE i <= Len(g)
      BY <2>1, <2>3, <3>1
    <3>2. CASE i > Len(g)
      <4>1. i = Len(g) + 1 /\ more # << >> /\ i - Len(g) = 1
        BY <2>1, <2>2, <2>3, <3>2
      <4>. QED
        BY <2>1, <2>2, <2>3, <3>2, <4>1
    <3>. QED
      BY <2>1, <3>1, <3>2
  <2>5. Some(x, "scan") <=> more # << >>
    <3>1. more # << >> => Len(g) + 1 \in 1 .. Len(x)
      BY <2>1, <2>2, <2>3
    <3>2. \A i \in 1 .. Len(x) : x[i].op = "scan" => more # << >>
      BY <2>1, <2>4
    <3>. QED
      BY <2>1, <2>4, <3>1, <3>2 DEF Some
  <2>6. NotTwo(x, "scan") /\ \A i \in 1 .. Len(x) : x[i].op \in {"get", "scan"}
    BY <2>1, <2>4 DEF NotTwo
  <2>. QED
    BY <2>3, <2>5, <2>6 DEF x, g
<1>8. ASSUME NEW l \in Link, NEW x \in Seq(Command),
             link' = [link EXCEPT ![w] = l],
             pending' = [pending EXCEPT ![w] = Tail(@) \o x],
             \A i \in 1 .. Len(x) : x[i].op \in {"get", "scan"},
             NotTwo(x, "scan"), l.pull_inflight <=> Some(x, "scan"),
             ~l.auth_pending, l.state = link[w].state, l.timer = link[w].timer
      PROVE  Inv'
  <2>1. PICK q, rs, op : /\ q = Tail(pending[w]) \o x /\ rs = Tail(replies[w])
                         /\ op = "scan"
    OBVIOUS
  <2>2. pending' = [pending EXCEPT ![w] = q] /\ replies' = [replies EXCEPT ![w] = rs]
    BY <1>0, <1>8, <2>1
  <2>3. /\ UNCHANGED <<clock, ring, store, pc, status>>
        /\ l.pull_inflight <=>
             (op # "scan" /\ link[w].pull_inflight) \/ Some(x, "scan")
        /\ Some(x, "scan") => op = "scan"
        /\ op = "auth" \/ op = "set" \/ op = "get" => x = << >>
        /\ Arrives(w, op)
        /\ env' \in [bans : 0 .. MaxBans, faults : 0 .. MaxFaults]
        /\ env'.bans = env.bans
    BY <1>0, <1>8, <2>1
  <2>. QED
    BY <1>1, <1>8, <2>1, <2>2, <2>3, CallbackStep
<1>9. CASE ScanReplyError(w)
  <2>1. PICK l : l = [link[w] EXCEPT !.pull_inflight = FALSE]
    OBVIOUS
  <2>2. /\ l \in Link /\ ~l.pull_inflight /\ ~l.auth_pending
        /\ l.state = link[w].state /\ l.timer = link[w].timer
    BY <1>1, <1>3, <2>1 DEF Link
  <2>3. /\ << >> \in Seq(Command) /\ Len(<< >>) = 0
        /\ Tail(pending[w]) \o << >> = Tail(pending[w])
    BY <1>2, EmptySeq, ConcatEmptySeq
  <2>4. /\ link' = [link EXCEPT ![w] = l]
        /\ pending' = [pending EXCEPT ![w] = Tail(@) \o << >>]
    BY <1>1, <1>9, <2>1, <2>3 DEF ScanReplyError
  <2>5. /\ NotTwo(<< >>, "scan") /\ ~Some(<< >>, "scan")
        /\ \A i \in 1 .. Len(<< >>) : << >>[i].op \in {"get", "scan"}
    BY <2>3 DEF Some, NotTwo
  <2>. QED
    BY <1>8, <2>2, <2>3, <2>4, <2>5
<1>10. ASSUME NEW ks \in SUBSET Keys, NEW more \in {<< >>, <<Scan(r.cursor)>>},
              pending' = [pending EXCEPT ![w] = (Tail(@) \o gets(ks)) \o more],
              link' = [link EXCEPT ![w].scan_cursor = r.cursor,
                                   ![w].pull_inflight = more # << >>]
       PROVE  Inv'
  <2>1. PICK l, x, b : /\ b = (more # << >>) /\ x = gets(ks) \o more
                       /\ l = [link[w] EXCEPT !.scan_cursor = r.cursor,
                                              !.pull_inflight = b]
    OBVIOUS
  <2>2. /\ x \in Seq(Command)
        /\ (Tail(pending[w]) \o gets(ks)) \o more = Tail(pending[w]) \o x
        /\ \A i \in 1 .. Len(x) : x[i].op \in {"get", "scan"}
        /\ NotTwo(x, "scan")
        /\ Some(x, "scan") <=> b
    BY <1>7, <2>1
  <2>. HIDE DEF gets
  <2>3. /\ l \in Link /\ l.pull_inflight = b /\ ~l.auth_pending
        /\ l.state = link[w].state /\ l.timer = link[w].timer
    BY <1>1, <1>3, <1>5, <2>1 DEF Link
  <2>4. link' = [link EXCEPT ![w] = l]
    BY <1>1, <1>10, <2>1 DEF Link
  <2>5. pending' = [pending EXCEPT ![w] = Tail(@) \o x]
    BY <1>1, <1>10, <2>2
  <2>. QED
    BY <1>8, <2>2, <2>3, <2>4, <2>5
<1>11. CASE ScanReply(w)
  <2>1. PICK more : more = IF r.cursor = 0 THEN << >> ELSE <<Scan(r.cursor)>>
    OBVIOUS
  <2>2. more \in {<< >>, <<Scan(r.cursor)>>} /\ (more # << >> <=> r.cursor # 0)
    BY <2>1
  <2>3. pending' = [pending EXCEPT ![w] = (Tail(@) \o gets(r.keys)) \o more]
    BY <1>4, <1>11, <2>1 DEF ScanReply
  <2>4. link' = [link EXCEPT ![w].scan_cursor = r.cursor,
                             ![w].pull_inflight = r.cursor # 0]
    BY <1>4, <1>11 DEF ScanReply
  <2>5. (r.cursor # 0) = (more # << >>)
    BY <2>2
  <2>. QED
    BY <1>5, <1>10, <2>2, <2>3, <2>4, <2>5
<1>12. CASE ScanReplyShort(w)
  <2>1. PICK ks \in SUBSET r.keys, next \in BOOLEAN :
          LET more == IF next /\ r.cursor # 0 THEN <<Scan(r.cursor)>> ELSE << >>
          IN  /\ pending' = [pending EXCEPT ![w] = (Tail(@) \o gets(ks)) \o more]
              /\ link' = [link EXCEPT ![w].scan_cursor = r.cursor,
                                      ![w].pull_inflight = more # << >>]
    BY <1>4, <1>12 DEF ScanReplyShort
  <2>2. PICK more : more = IF next /\ r.cursor # 0 THEN <<Scan(r.cursor)>> ELSE << >>
    OBVIOUS
  <2>3. more \in {<< >>, <<Scan(r.cursor)>>} /\ ks \in SUBSET Keys
    BY <1>5, <2>2
  <2>4. /\ pending' = [pending EXCEPT ![w] = (Tail(@) \o gets(ks)) \o more]
        /\ link' = [link EXCEPT ![w].scan_cursor = r.cursor,
                                ![w].pull_inflight = more # << >>]
    BY <2>1, <2>2
  <2>. QED
    BY <1>10, <2>3, <2>4
<1>. QED
  BY <1>9, <1>11, <1>12

-----------------------------------------------------------------------------
(* The environment, and the theorems. *)

\* The workers' part of Inv, when no worker does anything.
LEMMA Untouched ==
  ASSUME Inv, UNCHANGED <<link, pending, replies, pc>>,
         \A v \in Workers : status'[v] = "run" => status[v] = "run"
  PROVE  Queues' /\ LinksTell' /\ TimerAlive'
<1>1. Queues'
  BY DEF Inv, Queues, Answers, Suits
<1>2. LinksTell'
  <2>1. \A v \in Workers : Tells(link'[v], pending'[v], pc'[v])
    BY DEF Inv, LinksTell
  <2>. QED
    BY <2>1 DEF LinksTell, Tells, Some, NotTwo
<1>3. TimerAlive'
  BY DEF Inv, TimerAlive
<1>. QED
  BY <1>1, <1>2, <1>3

\* A new ban has an id of its own.
LEMMA EnqueueInv ==
  ASSUME Inv, NEW w \in Workers, NEW k \in Keys, Enqueue(w, k)
  PROVE  Inv'
<1>. DEFINE e == [id |-> env.bans, ip |-> k, expiry |-> clock + Ttl]
<1>0. /\ UNCHANGED <<clock, store, table, link, pending, replies, pc, status>>
      /\ env.bans < MaxBans /\ env' = [env EXCEPT !.bans = @ + 1]
      /\ ring' = IF Len(ring) < RingSize THEN Append(ring, e) ELSE ring
      /\ TypeOK
  BY DEF Enqueue, Inv
<1>1. /\ env.bans \in Nat /\ env'.bans = env.bans + 1
      /\ env' \in [bans : 0 .. MaxBans, faults : 0 .. MaxFaults]
      /\ clock \in Nat /\ ring \in Seq(Entry) /\ Len(ring) <= RingSize
      /\ Len(ring) \in Nat
  <2>1. /\ env \in [bans : 0 .. MaxBans, faults : 0 .. MaxFaults]
        /\ clock \in 0 .. MaxTime /\ ring \in Seq(Entry) /\ Len(ring) <= RingSize
    BY <1>0 DEF TypeOK
  <2>2. env.bans \in Nat /\ env.bans + 1 \in 0 .. MaxBans
    BY <1>0, <2>1, RedisAssumption, SMTT(60)
  <2>3. clock \in Nat /\ Len(ring) \in Nat
    BY <2>1, RedisAssumption, LenProperties
  <2>. QED
    BY <1>0, <2>1, <2>2, <2>3
<1>2. e \in Entry /\ e.id = env.bans
  BY <1>1, RedisAssumption DEF Entry
<1>. HIDE DEF e
<1>3. /\ ring' \in Seq(Entry) /\ Len(ring') <= RingSize
      /\ \/ ring' = ring
         \/ /\ Len(ring') = Len(ring) + 1
            /\ \A n \in 1 .. Len(ring) : ring'[n] = ring[n]
            /\ ring'[Len(ring) + 1] = e
  <2>1. CASE Len(ring) < RingSize
    BY <1>0, <1>1, <1>2, <2>1, AppendProperties, RedisAssumption
  <2>2. CASE ~(Len(ring) < RingSize)
    BY <1>0, <1>1, <2>2
  <2>. QED
    BY <2>1, <2>2
<1>4. ASSUME NEW n \in 1 .. Len(ring')
      PROVE  \/ n \in 1 .. Len(ring) /\ ring'[n] = ring[n]
             \/ n = Len(ring) + 1 /\ ring'[n] = e
  BY <1>1, <1>3
<1>5. BansApart'
  <2>1. /\ \A n \in 1 .. Len(ring) : ring[n].id < env.bans /\ ring[n].id \in Nat
        /\ \A m, n \in 1 .. Len(ring) : ring[m].id = ring[n].id => m = n
    <3>1. \A n \in 1 .. Len(ring) : ring[n] \in Entry
      BY <1>1, ElementOfSeq
    <3>. QED
      BY <3>1 DEF Inv, BansApart, Entry
  <2>2. \A n \in 1 .. Len(ring') : ring'[n].id < env'.bans
    BY <1>1, <1>2, <1>4, <2>1
  <2>3. ASSUME NEW m \in 1 .. Len(ring'), NEW n \in 1 .. Len(ring'),
               ring'[m].id = ring'[n].id
        PROVE  m = n
    <3>1. CASE m \in 1 .. Len(ring) /\ ring'[m] = ring[m]
      <4>1. ring[m].id # e.id
        BY <1>1, <1>2, <2>1, <3>1
      <4>2. n \in 1 .. Len(ring) /\ ring'[n] = ring[n]
        BY <1>4, <2>3, <3>1, <4>1
      <4>. QED
        BY <2>1, <2>3, <3>1, <4>2
    <3>2. CASE m = Len(ring) + 1 /\ ring'[m] = e
      <4>1. \A j \in 1 .. Len(ring) : ring[j].id # e.id
        BY <1>1, <1>2, <2>1
      <4>2. n = Len(ring) + 1
        BY <1>4, <2>3, <3>2, <4>1
      <4>. QED
        BY <3>2, <4>2
    <3>. QED
      BY <1>4, <3>1, <3>2
  <2>4. ASSUME NEW v \in Workers, NEW n \in Nat, NEW i \in Nat,
               Carries(pending[v], n, i)
        PROVE  /\ i < env'.bans
               /\ \A m \in 1 .. Len(ring') : ring'[m].id # i
               /\ \A u \in Workers, m \in Nat :
                    Carries(pending[u], m, i) => u = v /\ m = n
    <3>1. /\ i < env.bans
          /\ \A m \in 1 .. Len(ring) : ring[m].id # i
          /\ \A u \in Workers, m \in Nat :
               Carries(pending[u], m, i) => u = v /\ m = n
      BY <2>4 DEF Inv, BansApart
    <3>2. \A m \in 1 .. Len(ring') : ring'[m].id # i
      <4> SUFFICES ASSUME NEW m \in 1 .. Len(ring') PROVE ring'[m].id # i
        OBVIOUS
      <4>1. CASE m \in 1 .. Len(ring) /\ ring'[m] = ring[m]
        BY <3>1, <4>1
      <4>2. CASE ring'[m] = e
        BY <1>1, <1>2, <3>1, <4>2
      <4>. QED
        BY <1>4, <4>1, <4>2
    <3>. QED
      BY <1>1, <3>1, <3>2
  <2>5. pending' = pending
    BY <1>0
  <2>. QED
    BY <2>2, <2>3, <2>4, <2>5 DEF BansApart, Carries
<1>6. Queues' /\ LinksTell' /\ TimerAlive'
  BY <1>0, Untouched
<1>7. TypeOK'
  BY <1>0, <1>1, <1>3 DEF TypeOK
<1>. QED
  BY <1>5, <1>6, <1>7 DEF Inv

\* The clock moves on, or a worker is told to exit, or nothing happens.
LEMMA EnvironmentInv ==
  ASSUME Inv, Tick \/ (\E w \in Workers : ToldToExit(w)) \/ UNCHANGED vars
  PROVE  Inv'
<1>0. /\ UNCHANGED <<ring, store, table, link, pending, replies, pc, env>>
      /\ clock' = clock \/ (clock < MaxTime /\ clock' = clock + 1)
      /\ status' \in [Workers -> {"run", "exiting", "gone"}]
      /\ \A v \in Workers : status'[v] = "run" => status[v] = "run"
  BY DEF Tick, ToldToExit, vars, Inv, TypeOK
<1>1. TypeOK'
  <2>1. clock' \in 0 .. MaxTime
    BY <1>0, RedisAssumption DEF Inv, TypeOK
  <2>. QED
    BY <1>0, <2>1 DEF Inv, TypeOK
<1>2. Queues' /\ LinksTell' /\ TimerAlive'
  BY <1>0, Untouched
<1>3. BansApart'
  BY <1>0 DEF Inv, BansApart, Carries
<1>. QED
  BY <1>1, <1>2, <1>3 DEF Inv

\* Initially no worker is connected, and there are no bans.
LEMMA InitInv == Init => Inv
<1>. SUFFICES ASSUME Init PROVE Inv
  OBVIOUS
<1>1. Down \in Link /\ Down.timer /\ Down.state = "down"
      /\ ~Down.auth_pending /\ ~Down.pull_inflight
  BY RedisAssumption DEF Down, Link
<1>2. Tells(Down, << >>, "idle") /\ Answers(<< >>, << >>)
  BY <1>1, DownTells
<1>3. << >> \in Seq(Command) /\ << >> \in Seq(Reply) /\ << >> \in Seq(Entry)
      /\ Len(<< >>) = 0 /\ DOMAIN << >> = {}
  BY EmptySeq
<1>4. Queues /\ LinksTell /\ TimerAlive
  BY <1>1, <1>2, <1>3 DEF Init, Queues, LinksTell, TimerAlive
<1>5. BansApart
  BY <1>3 DEF Init, BansApart, Carries
<1>6. TypeOK
  <2>1. \A w \in Workers : pending[w] = << >> /\ replies[w] = << >>
    BY DEF Init
  <2>2. link \in [Workers -> Link]
    BY <1>1 DEF Init
  <2>. QED
    BY <1>3, <2>1, <2>2, RedisAssumption DEF Init, TypeOK, Link
<1>. QED
  BY <1>4, <1>5, <1>6 DEF Inv

\* Inv is inductive.
LEMMA NextInv == Inv /\ [Next]_vars => Inv'
<1>. SUFFICES ASSUME Inv, [Next]_vars PROVE Inv'
  OBVIOUS
<1>1. CASE Tick \/ UNCHANGED vars
  BY <1>1, EnvironmentInv
<1>2. ASSUME NEW w \in Workers, Timer(w) PROVE Inv'
  BY <1>2, LinkOnlyInv, ConnectInv DEF Timer
<1>3. ASSUME NEW w \in Workers, Flush(w) PROVE Inv'
  BY <1>3, FlushOneInv, FlushEndInv DEF Flush
<1>4. ASSUME NEW w \in Workers, Callback(w) PROVE Inv'
  BY <1>4, LinkOnlyInv, LoseInv, PlainReplyInv, ScanReplyInv DEF Callback
<1>5. ASSUME NEW w \in Workers,
             \/ Execute(w) \/ Disconnect(w) \/ Crash(w) \/ ToldToExit(w) \/ Leave(w)
             \/ \E k \in Keys : Enqueue(w, k)
      PROVE  Inv'
  BY <1>5, ExecuteInv, LoseInv, EnvironmentInv, EnqueueInv
<1>. QED
  BY <1>1, <1>2, <1>3, <1>4, <1>5 DEF Next

\* Inv holds throughout.
LEMMA SyncInvariant == Spec => []Inv
  BY InitInv, NextInv, PTL DEF Spec

\* A set without two different elements has at most one.
LEMMA AtMostOneElement ==
  ASSUME NEW S, \A x, y \in S : x = y
  PROVE  /\ Cardinality(S) = IF S = {} THEN 0 ELSE 1
         /\ Cardinality(S) <= 1
<1>1. CASE S = {}
  BY <1>1, FS_EmptySet
<1>2. CASE S # {}
  <2>1. PICK x : S = {x}
    BY <1>2
  <2>2. Cardinality({x}) = 1
    BY FS_Singleton
  <2>. QED
    BY <1>2, <2>1, <2>2
<1>. QED
  BY <1>1, <1>2

\* The number of AUTHs and of SCANs is what the flags say.
LEMMA InvLinkSound == Inv => LinkSound
<1>. SUFFICES ASSUME Inv PROVE LinkSound
  OBVIOUS
<1>1. ASSUME NEW w \in Workers
      PROVE  /\ Cardinality(Outstanding(w, "auth")) =
                  IF link[w].auth_pending THEN 1 ELSE 0
             /\ Cardinality(Outstanding(w, "scan")) =
                  IF link[w].pull_inflight THEN 1 ELSE 0
             /\ link[w].state = "down" => pending[w] = << >>
             /\ link[w].auth_pending => pending[w] = <<Auth>>
  <2>1. Tells(link[w], pending[w], pc[w]) /\ DOMAIN pending[w] = 1 .. Len(pending[w])
    BY WorkerFacts, LenProperties
  <2>2. \A op : Outstanding(w, op) = {i \in 1 .. Len(pending[w]) : pending[w][i].op = op}
    BY <2>1 DEF Outstanding
  <2>3. /\ Outstanding(w, "auth") # {} <=> link[w].auth_pending
        /\ Outstanding(w, "scan") # {} <=> link[w].pull_inflight
    <3>1. \A op : Outstanding(w, op) # {} <=> Some(pending[w], op)
      BY <2>2 DEF Some
    <3>. QED
      BY <2>1, <3>1 DEF Tells
  <2>4. \A x, y \in Outstanding(w, "scan") : x = y
    BY <2>1, <2>2 DEF Tells, NotTwo
  <2>5. \A x, y \in Outstanding(w, "auth") : x = y
    <3>0. Len(<<Auth>>) = 1
      OBVIOUS
    <3>1. link[w].auth_pending => Len(pending[w]) = 1
      BY <2>1, <3>0 DEF Tells
    <3>. QED
      BY <2>2, <2>3, <3>1
  <2>. QED
    BY <2>1, <2>3, <2>4, <2>5, AtMostOneElement DEF Tells
<1>. QED
  BY <1>1 DEF Inv, LinkSound, FlagsTrue, AuthFirst, TimerAlive

\* A ban that is apart from the others is in one place.
LEMMA InvAtMostOnce == Inv => AtMostOnce
<1>. SUFFICES ASSUME Inv, NEW i \in 0 .. MaxBans - 1
              PROVE  Cardinality(Carried(i)) <= 1
  BY DEF AtMostOnce
<1>1. i \in Nat
  BY RedisAssumption
<1>2. DOMAIN ring = 1 .. Len(ring) /\ Len(ring) \in Nat
  BY LenProperties DEF Inv, TypeOK
<1>3. \A w \in Workers : \A n :
        n \in Outstanding(w, "set") /\ pending[w][n].entry.id = i
          <=> n \in Nat /\ Carries(pending[w], n, i)
  <2>1. \A w \in Workers : DOMAIN pending[w] = 1 .. Len(pending[w])
    BY WorkerFacts, LenProperties
  <2>. QED
    BY <2>1 DEF Outstanding, Carries
<1>4. ASSUME NEW x \in Carried(i)
      PROVE  \/ \E n \in 1 .. Len(ring) : ring[n].id = i /\ x = <<"ring", n>>
             \/ \E w \in Workers, n \in Nat : Carries(pending[w], n, i) /\ x = <<w, n>>
  BY <1>2, <1>3 DEF Carried
<1>5. \A x, y \in Carried(i) : x = y
  <2>. SUFFICES ASSUME NEW x \in Carried(i), NEW y \in Carried(i) PROVE x = y
    OBVIOUS
  <2>1. CASE \E n \in 1 .. Len(ring) : ring[n].id = i /\ x = <<"ring", n>>
    BY <1>1, <1>4, <2>1 DEF Inv, BansApart
  <2>2. CASE \E w \in Workers, n \in Nat : Carries(pending[w], n, i) /\ x = <<w, n>>
    BY <1>1, <1>4, <2>2 DEF Inv, BansApart
  <2>. QED
    BY <1>4, <2>1, <2>2
<1>. QED
  BY <1>5, AtMostOneElement

-----------------------------------------------------------------------------
(* How long bans live. *)

\* What the commands q and the replies rs carry at time t: bans of at most Ttl,
\* with a time to live that reaches their end.
QueueTimely(q, rs, t) ==
  /\ \A i \in 1 .. Len(q) :
       q[i].op = "set" => /\ q[i].entry.expiry <= t + q[i].ttl
                          /\ q[i].entry.expiry <= t + Ttl
  /\ \A i \in 1 .. Len(rs) : q[i].op = "get" => rs[i].expiry <= t + Ttl

\* The bans on the ring, likewise.
RingTimely == \A n \in 1 .. Len(ring) : ring[n].expiry <= clock + Ttl

\* With Inv, the inductive invariant: a flush's clock is never ahead.
Timely ==
  /\ RingTimely
  /\ \A w \in Workers : /\ link[w].now <= clock
                        /\ QueueTimely(pending[w], replies[w], clock)
  /\ BanLifetimes

\* A step of worker w in which time stands still.
LEMMA TimelyStep ==
  ASSUME Timely, clock' = clock, NEW w \in Workers,
         \A v \in Workers \ {w} : /\ link'[v] = link[v]
                                  /\ pending'[v] = pending[v]
                                  /\ replies'[v] = replies[v],
         link'[w].now <= clock, QueueTimely(pending'[w], replies'[w], clock),
         RingTimely', BanLifetimes'
  PROVE  Timely'
<1>1. ASSUME NEW v \in Workers
      PROVE  /\ link'[v].now <= clock'
             /\ QueueTimely(pending'[v], replies'[v], clock')
  <2>1. CASE v = w
    BY <2>1
  <2>2. CASE v # w
    <3>1. /\ link'[v] = link[v] /\ pending'[v] = pending[v]
          /\ replies'[v] = replies[v]
      BY <2>2
    <3>2. link[v].now <= clock /\ QueueTimely(pending[v], replies[v], clock)
      BY DEF Timely
    <3>. QED
      BY <3>1, <3>2
  <2>. QED
    BY <2>1, <2>2
<1>. QED
  BY <1>1 DEF Timely, QueueTimely

\* Bans that stay where they are.
LEMMA SameLifetimes ==
  ASSUME Timely, clock' = clock
  PROVE  /\ ring' = ring => RingTimely'
         /\ store' = store /\ table' = table => BanLifetimes'
  BY DEF Timely, RingTimely, BanLifetimes

\* The ring without its oldest entry.
LEMMA TailTimely ==
  ASSUME Inv, Timely, clock' = clock, ring # << >>, ring' = Tail(ring)
  PROVE  RingTimely'
<1>1. \A n \in 1 .. Len(Tail(ring)) :
        n + 1 \in 1 .. Len(ring) /\ Tail(ring)[n] = ring[n + 1]
  BY TailOfRing DEF Inv
<1>2. \A n \in 1 .. Len(ring) : ring[n].expiry <= clock + Ttl
  BY DEF Timely, RingTimely
<1>. QED
  BY <1>1, <1>2 DEF RingTimely

\* Commands behind the others: replies are to the first ones.
LEMMA MoreTimely ==
  ASSUME NEW q \in Seq(Command), NEW x \in Seq(Command), NEW rs \in Seq(Reply),
         Answers(rs, q), NEW t, QueueTimely(q, rs, t),
         \A i \in 1 .. Len(x) : x[i].op \in {"get", "scan"}
  PROVE  QueueTimely(q \o x, rs, t)
<1>1. /\ Len(q \o x) = Len(q) + Len(x)
      /\ Len(q) \in Nat /\ Len(x) \in Nat
      /\ \A i \in 1 .. Len(q) : (q \o x)[i] = q[i]
      /\ \A i \in 1 .. Len(x) : (q \o x)[Len(q) + i] = x[i]
  BY ConcatAnswers
<1>2. Len(rs) \in Nat /\ Len(rs) <= Len(q)
  BY LenProperties DEF Answers
<1>3. PICK y : y = q \o x
  OBVIOUS
<1>4. ASSUME NEW i \in 1 .. Len(y), y[i].op = "set"
      PROVE  i \in 1 .. Len(q) /\ y[i] = q[i]
  <2>1. CASE i \in 1 .. Len(q)
    BY <1>1, <1>3, <2>1
  <2>2. CASE i \notin 1 .. Len(q)
    <3>1. i - Len(q) \in 1 .. Len(x) /\ Len(q) + (i - Len(q)) = i
      BY <1>1, <1>3, <2>2
    <3>2. y[i].op \in {"get", "scan"}
      BY <1>1, <1>3, <3>1
    <3>. QED
      BY <1>4, <3>2
  <2>. QED
    BY <2>1, <2>2
<1>5. \A i \in 1 .. Len(rs) : y[i] = q[i]
  BY <1>1, <1>2, <1>3
<1>6. \A i \in 1 .. Len(y) :
        y[i].op = "set" => /\ y[i].entry.expiry <= t + y[i].ttl
                           /\ y[i].entry.expiry <= t + Ttl
  BY <1>4 DEF QueueTimely
<1>7. \A i \in 1 .. Len(rs) : y[i].op = "get" => rs[i].expiry <= t + Ttl
  BY <1>5 DEF QueueTimely
<1>. QED
  BY <1>3, <1>6, <1>7 DEF QueueTimely

\* The first command and its reply are done with.
LEMMA TailQueueTimely ==
  ASSUME NEW q \in Seq(Command), NEW rs \in Seq(Reply), Answers(rs, q),
         rs # << >>, NEW t, QueueTimely(q, rs, t)
  PROVE  QueueTimely(Tail(q), Tail(rs), t)
<1>1. /\ Len(q) \in Nat /\ Len(Tail(q)) = Len(q) - 1
      /\ \A i \in 1 .. Len(Tail(q)) : Tail(q)[i] = q[i + 1]
      /\ Len(Tail(rs)) <= Len(Tail(q))
  BY TailAnswers DEF Answers
<1>2. /\ Len(rs) \in Nat /\ Len(Tail(rs)) = Len(rs) - 1
      /\ \A i \in 1 .. Len(Tail(rs)) : Tail(rs)[i] = rs[i + 1]
  BY HeadTailProperties, LenProperties
<1>3. PICK y, z : y = Tail(q) /\ z = Tail(rs)
  OBVIOUS
<1>4. \A i \in 1 .. Len(y) : i + 1 \in 1 .. Len(q) /\ y[i] = q[i + 1]
  BY <1>1, <1>3
<1>5. \A i \in 1 .. Len(z) :
        i + 1 \in 1 .. Len(rs) /\ z[i] = rs[i + 1] /\ y[i] = q[i + 1]
  <2>1. \A i \in 1 .. Len(z) : i \in 1 .. Len(y)
    BY <1>1, <1>2, <1>3
  <2>2. \A i \in 1 .. Len(z) : i + 1 \in 1 .. Len(rs) /\ z[i] = rs[i + 1]
    BY <1>2, <1>3
  <2>. QED
    BY <1>4, <2>1, <2>2
<1>. QED
  BY <1>3, <1>4, <1>5 DEF QueueTimely

\* No commands, or AUTH alone.
LEMMA EmptyTimely ==
  ASSUME NEW t
  PROVE  QueueTimely(<< >>, << >>, t) /\ QueueTimely(<<Auth>>, << >>, t)
<1>1. Len(<< >>) = 0 /\ Len(<<Auth>>) = 1 /\ <<Auth>>[1] = Auth
  BY EmptySeq
<1>2. Auth.op = "auth"
  BY DEF Auth
<1>. QED
  BY <1>1, <1>2 DEF QueueTimely

\* What is known of worker w.
LEMMA TimelyFacts ==
  ASSUME Inv, Timely, NEW w \in Workers
  PROVE  /\ clock \in Nat /\ Ttl \in Nat
         /\ link[w].now \in Nat /\ link[w].now <= clock
         /\ QueueTimely(pending[w], replies[w], clock)
  BY WorkerFacts, RedisAssumption DEF Timely, Link

\* Steps that change only the context.
LEMMA LinkOnlyTimely ==
  ASSUME Inv, Timely, NEW w \in Workers,
         OnConnect(w) \/ ConnectError(w) \/ TimerWaits(w) \/ TimerWorks(w)
  PROVE  Timely'
<1>1. UNCHANGED <<clock, ring, store, table, pending, replies>>
  BY DEF OnConnect, ConnectError, TimerWaits, TimerWorks
<1>2. link \in [Workers -> Link] /\ link[w] \in Link
  BY WorkerFacts
<1>3. /\ link'[w].now = link[w].now \/ link'[w].now = clock
      /\ \A v \in Workers \ {w} : link'[v] = link[v]
  <2>1. CASE OnConnect(w)
    BY <1>2, <2>1 DEF OnConnect, Link
  <2>2. CASE ConnectError(w)
    <3>1. PICK m : m = [link[w] EXCEPT !.timer = FALSE]
      OBVIOUS
    <3>2. m.now = link[w].now /\ m \in Link
      BY <1>2, <3>1 DEF Link
    <3>3. link' = [link EXCEPT ![w] = Reconnect(w, m, 1)]
      BY <1>2, <2>2, <3>1 DEF ConnectError
    <3>4. Reconnect(w, m, 1).now = m.now
      BY <3>2 DEF Reconnect, Link
    <3>. QED
      BY <1>2, <3>2, <3>3, <3>4
  <2>3. CASE TimerWaits(w)
    BY <1>2, <2>3 DEF TimerWaits, Link
  <2>4. CASE TimerWorks(w)
    BY <1>2, <2>4 DEF TimerWorks, Link
  <2>. QED
    BY <2>1, <2>2, <2>3, <2>4
<1>4. link'[w].now <= clock
  BY <1>3, TimelyFacts
<1>5. QueueTimely(pending'[w], replies'[w], clock)
  BY <1>1, TimelyFacts
<1>6. RingTimely' /\ BanLifetimes'
  BY <1>1, SameLifetimes
<1>. QED
  BY <1>1, <1>3, <1>4, <1>5, <1>6, TimelyStep

\* The connection goes, or the worker.
LEMMA LoseTimely ==
  ASSUME Inv, Timely, NEW w \in Workers,
         Disconnect(w) \/ AuthRefused(w) \/ Crash(w) \/ Leave(w)
  PROVE  Timely'
<1>1. UNCHANGED <<clock, ring, store, table>> /\ Detached(w)
  BY DEF Disconnect, AuthRefused, Crash, Leave, Lose
<1>2. /\ link \in [Workers -> Link] /\ link[w] \in Link
      /\ pending \in [Workers -> Seq(Command)] /\ replies \in [Workers -> Seq(Reply)]
  BY WorkerFacts
<1>3. /\ pending'[w] = << >> /\ replies'[w] = << >>
      /\ \A v \in Workers \ {w} : pending'[v] = pending[v] /\ replies'[v] = replies[v]
  BY <1>1, <1>2 DEF Detached
<1>4. Down.now = 0
  BY DEF Down
<1>5. Torn(link[w]) \in Link /\ Torn(link[w]).now = 0
  <2>1. Torn(link[w]) = [Down EXCEPT !.timer = link[w].timer,
                                     !.backoff = link[w].backoff]
    BY DEF Torn
  <2>2. [Down EXCEPT !.timer = link[w].timer, !.backoff = link[w].backoff].now
          = Down.now
    BY DEF Down
  <2>. QED
    BY <1>2, <1>4, <2>1, <2>2, TornProps
<1>6. link'[w].now = 0 /\ \A v \in Workers \ {w} : link'[v] = link[v]
  <2>1. CASE Disconnect(w) \/ AuthRefused(w)
    <3>1. PICK m \in Link : m = Torn(link[w])
      BY <1>5
    <3>2. PICK n : n = IF link[w].auth_pending THEN 2 ELSE 1
      OBVIOUS
    <3>3. link' = [link EXCEPT ![w] = Reconnect(w, m, n)]
      BY <2>1, <3>1, <3>2 DEF Disconnect, AuthRefused, Lose
    <3>4. Reconnect(w, m, n).now = m.now
      BY DEF Reconnect, Link
    <3>. QED
      BY <1>2, <1>5, <3>1, <3>3, <3>4
  <2>2. CASE Crash(w)
    BY <1>2, <1>4, <2>2 DEF Crash
  <2>3. CASE Leave(w)
    <3>1. link' = [link EXCEPT ![w] = Torn(link[w])]
      BY <2>3 DEF Leave
    <3>. QED
      BY <1>2, <1>5, <3>1
  <2>. QED
    BY <2>1, <2>2, <2>3
<1>7. link'[w].now <= clock /\ QueueTimely(pending'[w], replies'[w], clock)
  BY <1>3, <1>6, TimelyFacts, EmptyTimely
<1>8. RingTimely' /\ BanLifetimes'
  BY <1>1, SameLifetimes
<1>. QED
  BY <1>1, <1>3, <1>6, <1>7, <1>8, TimelyStep

\* Connecting: at most AUTH is queued.
LEMMA ConnectTimely ==
  ASSUME Inv, Timely, NEW w \in Workers, Connect(w)
  PROVE  Timely'
<1>1. UNCHANGED <<clock, ring, store, table, replies>> /\ link[w].state = "down"
  BY DEF Connect, Fires
<1>2. /\ link \in [Workers -> Link] /\ link[w] \in Link
      /\ pending \in [Workers -> Seq(Command)] /\ replies[w] \in Seq(Reply)
      /\ Answers(replies[w], pending[w]) /\ Tells(link[w], pending[w], pc[w])
  BY WorkerFacts
<1>3. replies[w] = << >>
  <2>1. pending[w] = << >> /\ Len(<< >>) = 0
    BY <1>1, <1>2, EmptySeq DEF Tells
  <2>2. Len(replies[w]) \in Nat /\ Len(replies[w]) <= 0
    BY <1>2, <2>1, LenProperties DEF Answers
  <2>. QED
    BY <1>2, <2>2, EmptySeq
<1>4. /\ pending'[w] \in {<<Auth>>, << >>}
      /\ \A v \in Workers \ {w} : pending'[v] = pending[v]
  BY <1>2 DEF Connect
<1>5. link'[w].now = link[w].now /\ \A v \in Workers \ {w} : link'[v] = link[v]
  BY <1>2 DEF Connect, Link
<1>6. link'[w].now <= clock /\ QueueTimely(pending'[w], replies'[w], clock)
  BY <1>1, <1>3, <1>4, <1>5, TimelyFacts, EmptyTimely
<1>7. RingTimely' /\ BanLifetimes'
  BY <1>1, SameLifetimes
<1>. QED
  BY <1>1, <1>4, <1>5, <1>6, <1>7, TimelyStep

\* The handler returns, perhaps with a SCAN under way.
LEMMA FlushEndTimely ==
  ASSUME Inv, Timely, NEW w \in Workers,
         FlushEnd(w) \/ FlushEndFails(w) \/ FlushOneFails(w)
  PROVE  Timely'
<1>1. /\ UNCHANGED <<clock, store, table, replies>>
      /\ ring' = ring \/ (ring # << >> /\ ring' = Tail(ring))
  BY DEF FlushEnd, FlushEndFails, FlushOneFails, Draining
<1>2. PICK ok \in BOOLEAN : FinishTick(w, ok)
  BY DEF FlushEnd, FlushEndFails, FlushOneFails
<1>3. /\ link \in [Workers -> Link] /\ link[w] \in Link
      /\ pending \in [Workers -> Seq(Command)] /\ pending[w] \in Seq(Command)
      /\ replies[w] \in Seq(Reply) /\ Answers(replies[w], pending[w])
  BY WorkerFacts
<1>4. /\ link'[w].now = 0
      /\ \A v \in Workers \ {w} : link'[v] = link[v] /\ pending'[v] = pending[v]
  BY <1>2, <1>3 DEF FinishTick, Link
<1>5. pending'[w] = pending[w] \/ pending'[w] = pending[w] \o <<Scan(0)>>
  <2>1. PICK pull : pull = (ok /\ ~link[w].pull_inflight)
    OBVIOUS
  <2>2. PICK q \in Seq(Command) : q = pending[w]
    BY <1>3
  <2>3. pending'[w] = IF pull THEN Append(q, Scan(0)) ELSE q
    BY <1>2, <1>3, <2>1, <2>2 DEF FinishTick
  <2>4. Scan(0) \in Command
    BY RedisAssumption DEF Scan, Command
  <2>5. Append(q, Scan(0)) = q \o <<Scan(0)>>
    BY <2>4, AppendIsConcat
  <2>. QED
    BY <2>2, <2>3, <2>5
<1>6. QueueTimely(pending'[w], replies[w], clock)
  <2>1. /\ <<Scan(0)>> \in Seq(Command) /\ Len(<<Scan(0)>>) = 1
        /\ <<Scan(0)>>[1].op = "scan"
    BY RedisAssumption DEF Scan, Command
  <2>2. PICK x \in Seq(Command) : x = <<Scan(0)>>
    BY <2>1
  <2>3. \A i \in 1 .. Len(x) : x[i].op \in {"get", "scan"}
    BY <2>1, <2>2
  <2>4. QueueTimely(pending[w] \o x, replies[w], clock)
    BY <1>3, <2>3, TimelyFacts, MoreTimely
  <2>. QED
    BY <1>5, <2>2, <2>4, TimelyFacts
<1>7. RingTimely' /\ BanLifetimes'
  BY <1>1, SameLifetimes, TailTimely
<1>8. link'[w].now <= clock
  BY <1>4, TimelyFacts
<1>. QED
  BY <1>1, <1>4, <1>6, <1>7, <1>8, TimelyStep

\* A ban goes from the ring to the queue: its time to live, counted from the
\* flush's clock, reaches its end whenever Redis gets to it.
LEMMA FlushOneTimely ==
  ASSUME Inv, Timely, NEW w \in Workers, FlushOne(w)
  PROVE  Timely'
<1>1. /\ UNCHANGED <<clock, store, table, replies>>
      /\ ring # << >> /\ ring' = Tail(ring)
  BY DEF FlushOne, Draining
<1>2. /\ link \in [Workers -> Link] /\ link[w] \in Link
      /\ pending \in [Workers -> Seq(Command)] /\ pending[w] \in Seq(Command)
      /\ replies[w] \in Seq(Reply) /\ Answers(replies[w], pending[w])
  BY WorkerFacts
<1>3. RingTimely' /\ BanLifetimes'
  BY <1>1, SameLifetimes, TailTimely
<1>4. CASE UNCHANGED <<pending, link>>
  BY <1>1, <1>3, <1>4, TimelyFacts, TimelyStep
<1>5. CASE Head(ring).expiry > link[w].now /\ Publish(w, Head(ring))
  <2>1. PICK e \in Entry : e = Head(ring) /\ e.expiry <= clock + Ttl
    BY <1>1, TailOfRing DEF Inv, Timely, RingTimely
  <2>2. PICK ttl : ttl = e.expiry - link[w].now
    OBVIOUS
  <2>3. ttl \in Nat /\ e.expiry <= clock + ttl
    <3>1. e.expiry \in Nat
      BY DEF Entry
    <3>. QED
      BY <1>5, <2>1, <2>2, <3>1, TimelyFacts
  <2>4. PICK c : c = Set(e, ttl)
    OBVIOUS
  <2>5. c \in Command /\ c.op = "set" /\ c.entry = e /\ c.ttl = ttl
    BY <2>3, <2>4 DEF Set, Command
  <2>6. PICK q, rs : q = pending[w] /\ rs = replies[w]
    OBVIOUS
  <2>7. /\ pending'[w] = Append(q, c) /\ link'[w].now = link[w].now
        /\ \A v \in Workers \ {w} : pending'[v] = pending[v] /\ link'[v] = link[v]
    <3>1. /\ pending' = [pending EXCEPT ![w] = Append(q, c)]
          /\ link' = [link EXCEPT ![w].drained = @ + 1]
      BY <1>5, <2>1, <2>2, <2>4, <2>6 DEF Publish
    <3>2. pending'[w] = Append(q, c)
          /\ \A v \in Workers \ {w} : pending'[v] = pending[v]
      BY <1>2, <3>1
    <3>. QED
      BY <1>2, <3>1, <3>2 DEF Link
  <2>8. /\ q \in Seq(Command) /\ rs \in Seq(Reply)
        /\ Answers(rs, q) /\ QueueTimely(q, rs, clock)
    BY <1>2, <2>6, TimelyFacts
  <2>9. QueueTimely(Append(q, c), rs, clock)
    <3>1. PICK y : y = Append(q, c)
      OBVIOUS
    <3>2. /\ Len(y) = Len(q) + 1 /\ Len(q) \in Nat /\ Len(rs) \in Nat
          /\ Len(rs) <= Len(q)
          /\ \A i \in 1 .. Len(q) : y[i] = q[i]
          /\ y[Len(q) + 1] = c
      BY <2>5, <2>8, <3>1, AppendAnswers, LenProperties DEF Answers
    <3>3. \A i \in 1 .. Len(y) : (i \in 1 .. Len(q) /\ y[i] = q[i]) \/ y[i] = c
      BY <3>2
    <3>4. \A i \in 1 .. Len(y) :
            y[i].op = "set" => /\ y[i].entry.expiry <= clock + y[i].ttl
                               /\ y[i].entry.expiry <= clock + Ttl
      BY <2>1, <2>3, <2>5, <2>8, <3>3, Zenon DEF QueueTimely
    <3>5. \A i \in 1 .. Len(rs) : y[i] = q[i]
      BY <3>2
    <3>. QED
      BY <2>8, <3>1, <3>4, <3>5 DEF QueueTimely
  <2>10. link'[w].now <= clock
    BY <2>7, TimelyFacts
  <2>11. QueueTimely(pending'[w], replies'[w], clock)
    BY <1>1, <2>6, <2>7, <2>9
  <2>. QED
    BY <1>1, <1>3, <2>7, <2>10, <2>11, TimelyStep
<1>. QED
  BY <1>4, <1>5 DEF FlushOne

\* Redis executes the next command.
LEMMA ExecuteTimely ==
  ASSUME Inv, Timely, NEW w \in Workers, Execute(w)
  PROVE  Timely'
<1>1. /\ UNCHANGED <<clock, ring, table, link, pending>>
      /\ Len(replies[w]) < Len(pending[w])
  BY DEF Execute, Executed
<1>2. /\ pending[w] \in Seq(Command) /\ replies[w] \in Seq(Reply)
      /\ replies \in [Workers -> Seq(Reply)]
      /\ Len(pending[w]) \in Nat /\ Len(replies[w]) \in Nat
      /\ store \in [DOMAIN store -> [expiry : Nat, ends : Nat]]
  BY WorkerFacts, LenProperties
<1>3. PICK n \in Nat : n = Len(replies[w]) + 1
  BY <1>2
<1>4. PICK c, q, rs0 : c = pending[w][n] /\ q = pending[w] /\ rs0 = replies[w]
  OBVIOUS
<1>5. n \in 1 .. Len(q) /\ c \in Command /\ c = q[n]
  BY <1>1, <1>2, <1>3, <1>4, ElementOfSeq
<1>6. PICK a : a = Answer(c)
  OBVIOUS
<1>7. a \in Reply
  BY <1>5, <1>6, AnswerSuits DEF Inv
<1>8. replies' = [replies EXCEPT ![w] = Append(rs0, a)]
  BY <1>3, <1>4, <1>6 DEF Execute, Executed
<1>9. /\ replies'[w] = Append(rs0, a)
      /\ \A v \in Workers \ {w} : replies'[v] = replies[v]
  BY <1>2, <1>8
<1>10. QueueTimely(q, rs0, clock)
  BY <1>4, TimelyFacts
<1>11. c.op = "get" => a.expiry <= clock + Ttl
  <2>. SUFFICES ASSUME c.op = "get" PROVE a.expiry <= clock + Ttl
    OBVIOUS
  <2>1. a = [expiry |-> IF Held(c.ip) THEN store[c.ip].expiry ELSE 0]
    BY <1>6 DEF Answer
  <2>2. Held(c.ip) => store[c.ip].expiry <= clock + Ttl
    BY DEF Held, Timely, BanLifetimes
  <2>3. 0 <= clock + Ttl
    BY TimelyFacts
  <2>. QED
    BY <2>1, <2>2, <2>3
<1>12. QueueTimely(q, Append(rs0, a), clock)
  <2>1. PICK y : y = Append(rs0, a)
    OBVIOUS
  <2>2. /\ Len(y) = n
        /\ \A i \in 1 .. Len(rs0) : y[i] = rs0[i]
        /\ y[n] = a
    BY <1>2, <1>3, <1>4, <1>7, <2>1, AppendProperties
  <2>3. \A i \in 1 .. Len(y) : (i \in 1 .. Len(rs0) /\ y[i] = rs0[i]) \/ (i = n /\ y[i] = a)
    BY <1>2, <1>3, <1>4, <2>2
  <2>4. \A i \in 1 .. Len(y) : q[i].op = "get" => y[i].expiry <= clock + Ttl
    BY <1>5, <1>10, <1>11, <2>3, Zenon DEF QueueTimely
  <2>. QED
    BY <1>10, <2>1, <2>4 DEF QueueTimely
<1>13. BanLifetimes'
  <2>1. CASE UNCHANGED store
    BY <1>1, <2>1, SameLifetimes
  <2>2. CASE c.op = "set"
    <3>1. store' = [k \in {c.entry.ip} \cup DOMAIN store |->
                      IF k = c.entry.ip
                      THEN [expiry |-> c.entry.expiry, ends |-> clock + c.ttl]
                      ELSE store[k]]
      BY <1>3, <1>4, <2>2 DEF Execute, Executed
    <3>2. /\ c.entry.expiry <= clock + c.ttl
          /\ c.entry.expiry <= clock + Ttl
      BY <1>5, <1>10, <2>2 DEF QueueTimely
    <3>3. \A k \in DOMAIN store : /\ store[k].expiry <= store[k].ends
                                  /\ store[k].expiry <= clock + Ttl
      BY DEF Timely, BanLifetimes
    <3>4. ASSUME NEW k \in DOMAIN store'
          PROVE  /\ store'[k].expiry <= store'[k].ends
                 /\ store'[k].expiry <= clock + Ttl
      <4>1. CASE k = c.entry.ip
        BY <3>1, <3>2, <4>1
      <4>2. CASE k # c.entry.ip
        <5>1. k \in DOMAIN store /\ store'[k] = store[k]
          BY <3>1, <4>2
        <5>. QED
          BY <3>3, <5>1
      <4>. QED
        BY <4>1, <4>2
    <3>. QED
      BY <1>1, <3>4 DEF BanLifetimes, Timely
  <2>. QED
    BY <1>3, <1>4, <2>1, <2>2 DEF Execute, Executed
<1>14. RingTimely'
  BY <1>1, SameLifetimes
<1>15. link'[w].now <= clock /\ QueueTimely(pending'[w], replies'[w], clock)
  BY <1>1, <1>4, <1>9, <1>12, TimelyFacts
<1>. QED
  BY <1>1, <1>9, <1>13, <1>14, <1>15, TimelyStep

\* A callback: the first command is gone, GETs and a SCAN may follow.
LEMMA CallbackTimely ==
  ASSUME Inv, Timely, NEW w \in Workers, NEW op, Arrives(w, op),
         NEW x \in Seq(Command),
         \A i \in 1 .. Len(x) : x[i].op \in {"get", "scan"},
         pending' = [pending EXCEPT ![w] = Tail(@) \o x], Answered(w),
         link'[w].now = link[w].now,
         \A v \in Workers \ {w} : link'[v] = link[v],
         UNCHANGED <<clock, ring>>, BanLifetimes'
  PROVE  Timely'
<1>1. /\ pending \in [Workers -> Seq(Command)] /\ pending[w] \in Seq(Command)
      /\ replies \in [Workers -> Seq(Reply)] /\ replies[w] \in Seq(Reply)
      /\ Answers(replies[w], pending[w]) /\ replies[w] # << >>
  BY WorkerFacts DEF Arrives
<1>2. PICK t, rs : t = Tail(pending[w]) /\ rs = Tail(replies[w])
  OBVIOUS
<1>3. t \in Seq(Command) /\ rs \in Seq(Reply) /\ Answers(rs, t)
  BY <1>2, ArrivesFacts
<1>4. QueueTimely(t, rs, clock)
  BY <1>1, <1>2, TimelyFacts, TailQueueTimely
<1>5. QueueTimely(t \o x, rs, clock)
  BY <1>3, <1>4, MoreTimely
<1>6. /\ pending'[w] = t \o x /\ replies'[w] = rs
      /\ \A v \in Workers \ {w} : pending'[v] = pending[v] /\ replies'[v] = replies[v]
  BY <1>1, <1>2 DEF Answered
<1>7. link'[w].now <= clock /\ QueueTimely(pending'[w], replies'[w], clock)
  BY <1>5, <1>6, TimelyFacts
<1>8. RingTimely'
  BY SameLifetimes
<1>. QED
  BY <1>6, <1>7, <1>8, TimelyStep

\* Callbacks that issue nothing.
LEMMA PlainReplyTimely ==
  ASSUME Inv, Timely, NEW w \in Workers,
         \/ AuthReply(w) \/ SetReply(w) \/ GetReply(w) \/ GetReplyLost(w)
         \/ ScanReplyError(w)
  PROVE  Timely'
<1>1. /\ UNCHANGED <<clock, ring, store>> /\ Answered(w)
      /\ pending' = [pending EXCEPT ![w] = Tail(@)]
  BY DEF AuthReply, SetReply, GetReply, GetReplyLost, ScanReplyError
<1>2. PICK op : Arrives(w, op)
  BY DEF AuthReply, SetReply, GetReply, GetReplyLost, ScanReplyError
<1>3. /\ link \in [Workers -> Link] /\ link[w] \in Link
      /\ pending \in [Workers -> Seq(Command)]
  BY WorkerFacts
<1>4. link'[w].now = link[w].now /\ \A v \in Workers \ {w} : link'[v] = link[v]
  <2>1. CASE AuthReply(w)
    BY <1>3, <2>1 DEF AuthReply, Link
  <2>2. CASE SetReply(w) \/ GetReply(w) \/ GetReplyLost(w)
    BY <2>2 DEF SetReply, GetReply, GetReplyLost
  <2>3. CASE ScanReplyError(w)
    BY <1>3, <2>3 DEF ScanReplyError, Link
  <2>. QED
    BY <2>1, <2>2, <2>3
<1>5. PICK x \in Seq(Command) : x = << >>
  BY EmptySeq
<1>6. \A i \in 1 .. Len(x) : x[i].op \in {"get", "scan"}
  BY <1>5, EmptySeq
<1>7. pending' = [pending EXCEPT ![w] = Tail(@) \o x]
  <2>1. PICK t \in Seq(Command) : t = Tail(pending[w])
    BY <1>2, ArrivesFacts
  <2>2. t \o x = t
    BY <1>5, ConcatEmptySeq
  <2>. QED
    BY <1>1, <2>1, <2>2
<1>8. BanLifetimes'
  <2>1. CASE UNCHANGED table
    BY <1>1, <2>1, SameLifetimes
  <2>2. CASE GetReply(w)
    <3>1. PICK k, e : k = Head(pending[w]).ip /\ e = Head(replies[w]).expiry
      OBVIOUS
    <3>2. e <= clock + Ttl
      <4>1. /\ pending[w] \in Seq(Command) /\ replies[w] \in Seq(Reply)
            /\ replies[w] # << >> /\ Head(pending[w]).op = "get"
        BY <2>2, WorkerFacts DEF GetReply, Arrives
      <4>2. Len(replies[w]) \in Nat /\ Len(replies[w]) # 0 /\ Head(replies[w]) = replies[w][1]
        BY <4>1, EmptySeq, LenProperties
      <4>3. Head(pending[w]) = pending[w][1]
        BY <1>2, ArrivesFacts
      <4>. QED
        BY <3>1, <4>1, <4>2, <4>3, TimelyFacts DEF QueueTimely
    <3>3. \/ UNCHANGED table
          \/ table' = [y \in {k} \cup DOMAIN table |-> IF y = k THEN e ELSE table[y]]
      BY <2>2, <3>1 DEF GetReply
    <3>4. \A y \in DOMAIN table : table[y] <= clock + Ttl
      BY DEF Timely, BanLifetimes
    <3>5. \A y \in DOMAIN table' : table'[y] <= clock + Ttl
      BY <3>2, <3>3, <3>4
    <3>6. BanLifetimes
      BY DEF Timely
    <3>. QED
      BY <1>1, <3>5, <3>6 DEF BanLifetimes
  <2>. QED
    BY <2>1, <2>2 DEF AuthReply, SetReply, GetReplyLost, ScanReplyError
<1>. QED
  BY <1>1, <1>2, <1>4, <1>6, <1>7, <1>8, CallbackTimely

\* The commands behind a SCAN's reply.
LEMMA ScanCommands ==
  ASSUME Inv, NEW w \in Workers, Arrives(w, "scan"), NEW ks \in SUBSET Keys,
         NEW cursor \in 0 .. Pages - 1, NEW more \in {<< >>, <<Scan(cursor)>>},
         NEW gets, gets = SetToSeq({Get(k) : k \in ks})
  PROVE  /\ gets \o more \in Seq(Command)
         /\ (Tail(pending[w]) \o gets) \o more = Tail(pending[w]) \o (gets \o more)
         /\ \A i \in 1 .. Len(gets \o more) : (gets \o more)[i].op \in {"get", "scan"}
<1>1. gets \in Seq(Command) /\ Len(gets) \in Nat
      /\ \A i \in 1 .. Len(gets) : gets[i].op = "get"
  BY GetsProps, LenProperties
<1>2. more \in Seq(Command) /\ Len(more) \in Nat
      /\ \A i \in 1 .. Len(more) : more[i].op = "scan"
  <2>1. CASE more = << >>
    BY <2>1, EmptySeq
  <2>2. CASE more = <<Scan(cursor)>>
    <3>1. Scan(cursor) \in Command /\ Scan(cursor).op = "scan"
      BY DEF Scan, Command
    <3>. QED
      BY <2>2, <3>1
  <2>. QED
    BY <2>1, <2>2
<1>3. PICK t \in Seq(Command) : t = Tail(pending[w])
  BY ArrivesFacts
<1>4. (t \o gets) \o more = t \o (gets \o more)
  BY <1>1, <1>2, ConcatAssociative, SMTT(60)
<1>5. PICK x : x = gets \o more
  OBVIOUS
<1>6. /\ x \in Seq(Command) /\ Len(x) = Len(gets) + Len(more)
      /\ \A i \in 1 .. Len(gets) : x[i] = gets[i]
      /\ \A i \in 1 .. Len(more) : x[Len(gets) + i] = more[i]
  BY <1>1, <1>2, <1>5, ConcatProperties
<1>7. ASSUME NEW i \in 1 .. Len(x) PROVE x[i].op \in {"get", "scan"}
  <2>1. CASE i \in 1 .. Len(gets)
    BY <1>1, <1>6, <2>1
  <2>2. CASE i \notin 1 .. Len(gets)
    <3>1. PICK j \in 1 .. Len(more) : Len(gets) + j = i
      <4>1. i - Len(gets) \in 1 .. Len(more) /\ Len(gets) + (i - Len(gets)) = i
        BY <1>1, <1>2, <1>6, <2>2
      <4>. QED
        BY <4>1
    <3>2. x[i] = more[j]
      BY <1>6, <3>1
    <3>. QED
      BY <1>2, <3>2
  <2>. QED
    BY <2>1, <2>2
<1>. QED
  BY <1>3, <1>4, <1>5, <1>6, <1>7

\* The callback of SCAN.
LEMMA ScanReplyTimely ==
  ASSUME Inv, Timely, NEW w \in Workers, ScanReply(w) \/ ScanReplyShort(w)
  PROVE  Timely'
<1>1. /\ UNCHANGED <<clock, ring, store, table>> /\ Answered(w) /\ Arrives(w, "scan")
  BY DEF ScanReply, ScanReplyShort
<1>2. /\ link \in [Workers -> Link] /\ link[w] \in Link
      /\ pending \in [Workers -> Seq(Command)]
  BY WorkerFacts
<1>3. PICK r \in ScanResult : r = Head(replies[w])
  BY <1>1, ArrivesFacts DEF Suits
<1>4. r.keys \in SUBSET Keys /\ r.cursor \in 0 .. Pages - 1
  BY DEF ScanResult
<1>5. /\ link'[w].now = link[w].now
      /\ \A v \in Workers \ {w} : link'[v] = link[v]
  <2>1. CASE ScanReply(w)
    BY <1>2, <2>1 DEF ScanReply, Link
  <2>2. CASE ScanReplyShort(w)
    <3>1. PICK c, p : link' = [link EXCEPT ![w].scan_cursor = c,
                                           ![w].pull_inflight = p]
      BY <2>2, Zenon DEF ScanReplyShort
    <3>. QED
      BY <1>2, <3>1 DEF Link
  <2>. QED
    BY <2>1, <2>2
<1>6. PICK ks \in SUBSET Keys, more \in {<< >>, <<Scan(r.cursor)>>} :
        pending' = [pending EXCEPT ![w] =
                      (Tail(@) \o SetToSeq({Get(k) : k \in ks})) \o more]
  <2>1. CASE ScanReply(w)
    BY <1>3, <1>4, <2>1 DEF ScanReply
  <2>2. CASE ScanReplyShort(w)
    <3>1. PICK ks \in SUBSET r.keys, next \in BOOLEAN :
            pending' = [pending EXCEPT ![w] =
                          (Tail(@) \o SetToSeq({Get(k) : k \in ks}))
                          \o (IF next /\ r.cursor # 0 THEN <<Scan(r.cursor)>>
                              ELSE << >>)]
      BY <1>3, <2>2, Zenon DEF ScanReplyShort
    <3>2. PICK more \in {<< >>, <<Scan(r.cursor)>>} :
            more = IF next /\ r.cursor # 0 THEN <<Scan(r.cursor)>> ELSE << >>
      OBVIOUS
    <3>3. ks \in SUBSET Keys
      BY <1>4
    <3>. QED
      BY <3>1, <3>2, <3>3, Zenon
  <2>. QED
    BY <2>1, <2>2
<1>7. PICK gets : gets = SetToSeq({Get(k) : k \in ks})
  OBVIOUS
<1>8. PICK x \in Seq(Command) :
        /\ x = gets \o more
        /\ (Tail(pending[w]) \o gets) \o more = Tail(pending[w]) \o x
        /\ \A i \in 1 .. Len(x) : x[i].op \in {"get", "scan"}
  <2>1. PICK c \in 0 .. Pages - 1 : c = r.cursor
    BY <1>4
  <2>2. more \in {<< >>, <<Scan(c)>>}
    BY <2>1
  <2>3. /\ gets \o more \in Seq(Command)
        /\ (Tail(pending[w]) \o gets) \o more = Tail(pending[w]) \o (gets \o more)
        /\ \A i \in 1 .. Len(gets \o more) :
             (gets \o more)[i].op \in {"get", "scan"}
    BY <1>1, <1>7, <2>2, ScanCommands, Zenon
  <2>. QED
    BY <2>3, Zenon
<1>9. pending' = [pending EXCEPT ![w] = Tail(@) \o x]
  BY <1>2, <1>6, <1>7, <1>8
<1>10. BanLifetimes'
  BY <1>1, SameLifetimes
<1>. QED
  BY <1>1, <1>5, <1>8, <1>9, <1>10, CallbackTimely

\* A new ban lasts Ttl.
LEMMA EnqueueTimely ==
  ASSUME Inv, Timely, NEW w \in Workers, NEW k \in Keys, Enqueue(w, k)
  PROVE  Timely'
<1>1. UNCHANGED <<clock, store, table, link, pending, replies>>
  BY DEF Enqueue
<1>2. PICK e : e = [id |-> env.bans, ip |-> k, expiry |-> clock + Ttl]
  OBVIOUS
<1>3. ring' = IF Len(ring) < RingSize THEN Append(ring, e) ELSE ring
  BY <1>2 DEF Enqueue
<1>4. clock + Ttl \in Nat /\ clock + Ttl <= clock + Ttl
  BY TimelyFacts
<1>5. e \in Entry /\ e.expiry = clock + Ttl
  BY <1>2, <1>4 DEF Entry, Inv, TypeOK
<1>6. RingTimely'
  <2>1. CASE ring' = ring
    BY <1>1, <2>1, SameLifetimes
  <2>2. CASE ring' = Append(ring, e)
    <3>1. /\ Len(ring) \in Nat /\ Len(ring') = Len(ring) + 1
          /\ \A n \in 1 .. Len(ring) : ring'[n] = ring[n]
          /\ ring'[Len(ring) + 1] = e
      BY <1>5, <2>2, AppendProperties, LenProperties DEF Inv, TypeOK
    <3>2. \A n \in 1 .. Len(ring) : ring[n].expiry <= clock + Ttl
      BY DEF Timely, RingTimely
    <3>3. \A n \in 1 .. Len(ring') : n \in 1 .. Len(ring) \/ n = Len(ring) + 1
      BY <3>1
    <3>4. \A n \in 1 .. Len(ring') : ring'[n].expiry <= clock + Ttl
      BY <1>4, <1>5, <3>1, <3>2, <3>3
    <3>. QED
      BY <1>1, <3>4 DEF RingTimely
  <2>. QED
    BY <1>3, <2>1, <2>2
<1>7. BanLifetimes'
  BY <1>1, SameLifetimes
<1>8. link'[w].now <= clock /\ QueueTimely(pending'[w], replies'[w], clock)
  BY <1>1, TimelyFacts
<1>. QED
  BY <1>1, <1>6, <1>7, <1>8, TimelyStep

\* Time passes: every bound only gets looser.
LEMMA TickTimely ==
  ASSUME Inv, Timely, Tick
  PROVE  Timely'
<1>1. /\ UNCHANGED <<ring, store, table, link, pending, replies>>
      /\ clock' = clock + 1 /\ clock \in Nat /\ Ttl \in Nat
  BY RedisAssumption DEF Tick, Inv, TypeOK
<1>2. /\ \A n \in 1 .. Len(ring) : ring[n].expiry \in Nat
      /\ \A k \in DOMAIN store : store[k].expiry \in Nat
      /\ \A k \in DOMAIN table : table[k] \in Nat
  <2>1. \A n \in 1 .. Len(ring) : ring[n] \in Entry
    BY ElementOfSeq DEF Inv, TypeOK
  <2>2. \A k \in DOMAIN store : store[k] \in [expiry : Nat, ends : Nat]
    BY DEF Inv, TypeOK
  <2>. QED
    BY <2>1, <2>2 DEF Entry, Inv, TypeOK
<1>3. RingTimely'
  BY <1>1, <1>2 DEF Timely, RingTimely
<1>4. BanLifetimes'
  BY <1>1, <1>2 DEF Timely, BanLifetimes
<1>5. ASSUME NEW w \in Workers
      PROVE  link[w].now <= clock + 1 /\ QueueTimely(pending[w], replies[w], clock + 1)
  <2>1. /\ link[w].now \in Nat /\ link[w].now <= clock
        /\ QueueTimely(pending[w], replies[w], clock)
    BY TimelyFacts
  <2>2. PICK q \in Seq(Command) : q = pending[w]
    BY WorkerFacts
  <2>3. PICK rs \in Seq(Reply) : rs = replies[w] /\ Answers(rs, q)
    BY <2>2, WorkerFacts
  <2>4. ASSUME NEW i \in 1 .. Len(q), q[i].op = "set"
        PROVE  /\ q[i].entry.expiry <= (clock + 1) + q[i].ttl
               /\ q[i].entry.expiry <= (clock + 1) + Ttl
    <3>1. q[i] \in Command
      BY ElementOfSeq
    <3>2. q[i].entry \in Entry /\ q[i].ttl \in Nat
      BY <2>4, <3>1 DEF Command
    <3>3. q[i].entry.expiry \in Nat
      BY <3>2 DEF Entry
    <3>4. q[i].entry.expiry <= clock + q[i].ttl /\ q[i].entry.expiry <= clock + Ttl
      BY <2>1, <2>2, <2>4 DEF QueueTimely
    <3>5. PICK x \in Nat, d \in Nat : x = q[i].entry.expiry /\ d = q[i].ttl
      BY <3>2, <3>3
    <3>6. x <= clock + d /\ x <= clock + Ttl
      BY <3>4, <3>5, Zenon
    <3>7. clock \in Nat /\ Ttl \in Nat
      BY <1>1
    <3>8. x <= (clock + 1) + d /\ x <= (clock + 1) + Ttl
      BY <3>6, <3>7
    <3>. QED
      BY <3>5, <3>8, Zenon
  <2>5. ASSUME NEW i \in 1 .. Len(rs), q[i].op = "get"
        PROVE  rs[i].expiry <= (clock + 1) + Ttl
    <3>1. rs[i].expiry \in Nat
      BY <2>3, <2>5 DEF Answers, Suits
    <3>2. rs[i].expiry <= clock + Ttl
      BY <2>1, <2>2, <2>3, <2>5 DEF QueueTimely
    <3>. QED
      BY <1>1, <3>1, <3>2
  <2>6. link[w].now <= clock + 1
    BY <1>1, <2>1
  <2>. QED
    BY <2>2, <2>3, <2>4, <2>5, <2>6 DEF QueueTimely
<1>6. \A w \in Workers : /\ link'[w].now <= clock'
                         /\ QueueTimely(pending'[w], replies'[w], clock')
  BY <1>1, <1>5
<1>. QED
  BY <1>3, <1>4, <1>6 DEF Timely, QueueTimely

\* Nothing happens, or a worker is told to exit.
LEMMA StandstillTimely ==
  ASSUME Timely, (\E w \in Workers : ToldToExit(w)) \/ UNCHANGED vars
  PROVE  Timely'
<1>1. UNCHANGED <<clock, ring, store, table, link, pending, replies>>
  BY DEF ToldToExit, vars
<1>. QED
  BY <1>1 DEF Timely, RingTimely, QueueTimely, BanLifetimes

\* Initially there are no bans.
LEMMA InitTimely == Init => Timely
<1>. SUFFICES ASSUME Init PROVE Timely
  OBVIOUS
<1>1. Len(<< >>) = 0 /\ DOMAIN << >> = {} /\ Down.now = 0
  BY EmptySeq DEF Down
<1>2. \A w \in Workers : link[w].now <= clock /\ QueueTimely(pending[w], replies[w], clock)
  BY <1>1, EmptyTimely DEF Init
<1>3. RingTimely /\ BanLifetimes
  BY <1>1 DEF Init, RingTimely, BanLifetimes
<1>. QED
  BY <1>2, <1>3 DEF Timely

\* Timely is inductive, given Inv.
LEMMA NextTimely == Inv /\ Timely /\ [Next]_vars => Timely'
<1>. SUFFICES ASSUME Inv, Timely, [Next]_vars PROVE Timely'
  OBVIOUS
<1>1. CASE Tick \/ UNCHANGED vars
  BY <1>1, TickTimely, StandstillTimely
<1>2. ASSUME NEW w \in Workers, Timer(w) PROVE Timely'
  BY <1>2, LinkOnlyTimely, ConnectTimely DEF Timer
<1>3. ASSUME NEW w \in Workers, Flush(w) PROVE Timely'
  BY <1>3, FlushOneTimely, FlushEndTimely DEF Flush
<1>4. ASSUME NEW w \in Workers, Callback(w) PROVE Timely'
  BY <1>4, LinkOnlyTimely, LoseTimely, PlainReplyTimely, ScanReplyTimely DEF Callback
<1>5. ASSUME NEW w \in Workers,
             \/ Execute(w) \/ Disconnect(w) \/ Crash(w) \/ ToldToExit(w) \/ Leave(w)
             \/ \E k \in Keys : Enqueue(w, k)
      PROVE  Timely'
  BY <1>5, ExecuteTimely, LoseTimely, StandstillTimely, EnqueueTimely
<1>. QED
  BY <1>1, <1>2, <1>3, <1>4, <1>5 DEF Next

\* The ring stays within NGX_SENTINEL_REDIS_PUSH_RING, the backoff within its
\* limits and the cursor within the pages, and a reply always finds the
\* callback of its own command.
THEOREM SyncTypeCorrect == Spec => []TypeOK
<1>1. Inv => TypeOK
  BY DEF Inv
<1>. QED
  BY <1>1, SyncInvariant, PTL

\* Whatever fails, in whichever callback and at whichever moment, auth_pending
\* and pull_inflight are set exactly while the command that clears them is
\* under way, nothing overtakes AUTH, and a worker that is not shutting down
\* keeps its timer: it cannot get stuck.
THEOREM LinksStaySound == Spec => []LinkSound
  BY InvLinkSound, SyncInvariant, PTL

\* However the workers' flushes interleave, die or fail, a ban is never on its
\* way to Redis twice.
THEOREM BansCarriedOnce == Spec => []AtMostOnce
  BY InvAtMostOnce, SyncInvariant, PTL

\* Between a ban and the end of its key lie the flush's clock, read before the
\* ban may have been queued, and any delay of Redis, and yet no key goes before
\* its ban has ended, and no shared ban is longer than sentinel_redis_ttl.
THEOREM BansLiveTheirTime == Spec => []BanLifetimes
<1>1. Timely => BanLifetimes
  BY DEF Timely
<1>. QED
  BY <1>1, InitTimely, NextTimely, SyncInvariant, PTL DEF Spec
=============================================================================
