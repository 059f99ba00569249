---------------------------- MODULE CsSinkProofs ----------------------------
(***************************************************************************)
(* Proofs about the decision sink, for any number of clients, bans, faults *)
(* and reloads and any size of the ring: the types, and that an importer   *)
(* only ever sees whole files.  A file is whole because the table behind   *)
(* it holds each client once (TableSound) and because the temporary file   *)
(* is, at every line, what the slots passed so far amount to (Rewriting).  *)
(***************************************************************************)
EXTENDS CsSink, FiniteSetTheorems, SequenceTheorems, WellFoundedInduction, TLAPS

\* The owner's table: set_count is the number of slots in use, and no client
\* has two of them.
TableSound ==
  /\ count = Cardinality(Used)
  /\ \A i, j \in Used : slot[i].ip = slot[j].ip => i = j

\* The lines of the slots before the n-th.
LinesBefore(n) == {Format(slot[i], tick.now) : i \in {j \in Used : j < n}}

\* While sentinel_cssink_rewrite runs, no slot has expired, the temporary file
\* was opened for all of the slots and holds the lines of those passed.
Rewriting ==
  /\ tick.at # "write" => tick.next = 1
  /\ tick.at = "write" =>
       /\ \A i \in Used : slot[i].expiry > tick.now
       /\ tmp.want = LinesBefore(Cap + 1)
       /\ tmp.lines = LinesBefore(tick.next)

Inv == TypeOK /\ TableSound /\ Rewriting /\ FileWhole

-----------------------------------------------------------------------------
\* A set of slots that is not empty has a first one.
LEMMA LeastSlot ==
  ASSUME NEW S \in SUBSET Slots, S # {}
  PROVE  \E i \in S : \A j \in S : i <= j
<1>1. S \subseteq Nat
  BY SinkAssumption DEF Slots
<1>2. PICK i \in S : \A j \in S : ~(<<j, i>> \in OpToRel(<, Nat))
  BY <1>1, WFMin, NatLessThanWellFounded
<1>3. \A j \in S : ~(j < i)
  BY <1>1, <1>2 DEF OpToRel
<1>. QED
  BY <1>1, <1>3

\* The linear scan of sentinel_cssink_set_upsert finds a free slot.
LEMMA FirstFreeIsFree ==
  ASSUME Used # Slots
  PROVE  FirstFree \in Slots \ Used
<1>1. Slots \ Used \in SUBSET Slots /\ Slots \ Used # {}
  BY DEF Used
<1>2. \E i \in Slots \ Used : \A j \in Slots \ Used : i <= j
  BY <1>1, LeastSlot
<1>. QED
  BY <1>2 DEF FirstFree

\* A set of slots is finite and no larger than the table.
LEMMA SlotSets ==
  ASSUME NEW S \in SUBSET Slots
  PROVE  /\ IsFiniteSet(S)
         /\ Cardinality(S) \in 0 .. Cap
<1>1. IsFiniteSet(Slots) /\ Cardinality(Slots) = Cap
  BY FS_Interval, SinkAssumption DEF Slots
<1>2. IsFiniteSet(S) /\ Cardinality(S) <= Cap
  BY <1>1, FS_Subset
<1>. QED
  BY <1>2, FS_CardinalityType

\* What is in a used slot is a ban, and a ban is not the empty slot.
LEMMA UsedSlots ==
  ASSUME TypeOK
  PROVE  /\ Used \in SUBSET Slots
         /\ \A i \in Used : slot[i] \in Ban
         /\ Free \notin Ban
<1>1. Free \notin Ban
  BY SinkAssumption DEF Ban
<1>. QED
  BY <1>1 DEF TypeOK, Used

\* Draining a ban into the table keeps it sound: sentinel_cssink_set_upsert.
LEMMA UpsertTable ==
  ASSUME TypeOK, TableSound, NEW e \in Ban, Upsert(e)
  PROVE  /\ slot' \in [Slots -> Ban \cup {Free}]
         /\ count' \in 0 .. Cap
         /\ TableSound'
<1>. USE UsedSlots
<1>1. CASE SlotsOf(e.ip) # {}
  <2>1. /\ slot' = [i \in Slots |-> IF i \in SlotsOf(e.ip) THEN e ELSE slot[i]]
        /\ count' = count
    BY <1>1 DEF Upsert
  <2>2. Used' = Used
    BY <2>1 DEF Used, SlotsOf
  <2>3. \A i \in Used : slot'[i].ip = slot[i].ip
    BY <2>1 DEF SlotsOf
  <2>4. slot' \in [Slots -> Ban \cup {Free}]
    BY <2>1 DEF TypeOK
  <2>5. TableSound'
    BY <2>1, <2>2, <2>3 DEF TableSound
  <2>. QED
    BY <2>1, <2>4, <2>5 DEF TypeOK
<1>2. CASE SlotsOf(e.ip) = {} /\ Used = Slots
  <2>1. UNCHANGED <<slot, count>>
    BY <1>2 DEF Upsert
  <2>2. Used' = Used
    BY <2>1 DEF Used
  <2>. QED
    BY <2>1, <2>2 DEF TableSound, TypeOK
<1>3. CASE SlotsOf(e.ip) = {} /\ Used # Slots
  <2>. DEFINE f == FirstFree
  <2>1. f \in Slots \ Used
    BY <1>3, FirstFreeIsFree
  <2>2. slot' = [slot EXCEPT ![f] = e] /\ count' = count + 1
    BY <1>3 DEF Upsert
  <2>. HIDE DEF f
  <2>3. slot' \in [Slots -> Ban \cup {Free}]
    BY <2>1, <2>2 DEF TypeOK
  <2>4. Used' = Used \cup {f}
    BY <2>1, <2>2, SinkAssumption DEF Used, TypeOK
  <2>5. Cardinality(Used)' = Cardinality(Used) + 1
    BY <2>1, <2>4, SlotSets, FS_AddElement
  <2>6. Used' \in SUBSET Slots
    BY DEF Used
  <2>7. Cardinality(Used') \in 0 .. Cap
    BY <2>6, SlotSets
  <2>8. \A i \in Used : slot'[i] = slot[i] /\ slot[i].ip # e.ip
    BY <1>3, <2>1, <2>2 DEF SlotsOf, TypeOK
  <2>9. slot'[f] = e
    BY <2>1, <2>2 DEF TypeOK
  <2>10. \A i, j \in Used' : slot'[i].ip = slot'[j].ip => i = j
    BY <2>4, <2>8, <2>9 DEF TableSound
  <2>. QED
    BY <2>2, <2>3, <2>5, <2>7, <2>10 DEF TableSound
<1>. QED
  BY <1>1, <1>2, <1>3

\* Dropping the expired decisions keeps the table sound, and what remains has
\* not expired: sentinel_cssink_set_expire.
LEMMA ExpireTable ==
  ASSUME TypeOK, TableSound, NEW now, ExpireSet(now)
  PROVE  /\ slot' \in [Slots -> Ban \cup {Free}]
         /\ count' \in 0 .. Cap
         /\ TableSound'
         /\ Used' = Used \ Expired(now)
         /\ \A i \in Used' : slot'[i] = slot[i]
<1>. USE UsedSlots
<1>1. /\ slot' = [i \in Slots |-> IF i \in Expired(now) THEN Free ELSE slot[i]]
      /\ count' = count - Cardinality(Expired(now))
  BY DEF ExpireSet
<1>2. Expired(now) \in SUBSET Used
  BY DEF Expired
<1>3. slot' \in [Slots -> Ban \cup {Free}]
  BY <1>1 DEF TypeOK
<1>4. Used' = Used \ Expired(now)
  BY <1>1, <1>2 DEF Used
<1>5. \A i \in Used' : slot'[i] = slot[i]
  BY <1>1, <1>4 DEF Used
<1>6. Used \cap Expired(now) = Expired(now)
  BY <1>2
<1>7. Cardinality(Used') = Cardinality(Used) - Cardinality(Expired(now))
  BY <1>4, <1>6, SlotSets, FS_Difference
<1>8. Used' \in SUBSET Slots
  BY DEF Used
<1>9. Cardinality(Used') \in 0 .. Cap
  BY <1>8, SlotSets
<1>. QED
  BY <1>1, <1>3, <1>4, <1>5, <1>7, <1>9 DEF TableSound

\* A line of an unexpired slot says how long the ban still has to run.
LEMMA LineOfBan ==
  ASSUME NEW e \in Ban, NEW now \in 0 .. MaxTime, e.expiry > now
  PROVE  /\ Format(e, now) \in Line
         /\ Format(e, now).ip = e.ip
  BY SinkAssumption DEF Format, Line, Ban, Times

-----------------------------------------------------------------------------
\* Initially the table, the ring and both files are empty.
LEMMA InitInv == Init => Inv
<1>. SUFFICES ASSUME Init PROVE Inv
  OBVIOUS
<1>1. TypeOK
  BY SinkAssumption, EmptySeq DEF Init, TypeOK, Idle, Empty
<1>2. Used = {}
  BY DEF Init, Used
<1>3. TableSound
  BY <1>2, FS_EmptySet DEF Init, TableSound
<1>4. Rewriting /\ FileWhole
  BY DEF Init, Rewriting, FileWhole, Idle, Empty
<1>. QED
  BY <1>1, <1>3, <1>4 DEF Inv

\* Steps that leave the table, the files and the handler alone: the requests'
\* and the clock's.
LEMMA OutsideInv ==
  ASSUME Inv, Tick \/ \E c \in Clients : Enqueue(c)
  PROVE  Inv'
<1>. USE DEF Inv
<1>0. UNCHANGED <<slot, count, tick, tmp, file>>
  BY DEF Tick, Enqueue
<1>1. TableSound'
  BY <1>0 DEF TableSound, Used
<1>2. Rewriting'
  BY <1>0 DEF Rewriting, LinesBefore, Used, Format
<1>3. FileWhole'
  BY <1>0 DEF FileWhole
<1>4. CASE Tick
  BY <1>0, <1>1, <1>2, <1>3, <1>4, SinkAssumption DEF Tick, TypeOK
<1>5. ASSUME NEW c \in Clients, Enqueue(c) PROVE Inv'
  <2>1. [ip |-> c, expiry |-> clock + Ttl] \in Ban
    BY SinkAssumption DEF TypeOK, Ban, Times
  <2>2. ring' \in Seq(Ban) /\ Len(ring') <= Cap
    BY <1>5, <2>1, AppendProperties, SinkAssumption DEF Enqueue, TypeOK
  <2>3. clock' = clock /\ env' = [env EXCEPT !.bans = @ + 1] /\ env.bans < MaxBans
    BY <1>5 DEF Enqueue
  <2>4. env' \in [bans : 0 .. MaxBans, faults : 0 .. MaxFaults,
                  reloads : 0 .. MaxReloads]
    <3>1. env \in [bans : 0 .. MaxBans, faults : 0 .. MaxFaults,
                   reloads : 0 .. MaxReloads]
      BY DEF TypeOK
    <3>2. env.bans + 1 \in 0 .. MaxBans
      BY <2>3, <3>1, SinkAssumption
    <3>. QED
      BY <2>3, <3>1, <3>2
  <2>. QED
    BY <1>0, <1>1, <1>2, <1>3, <2>2, <2>3, <2>4 DEF TypeOK
<1>. QED
  BY <1>4, <1>5

\* What a fault of the file system or of the owner does to the record of them.
LEMMA FaultType ==
  ASSUME TypeOK, Fault
  PROVE  env' \in [bans : 0 .. MaxBans, faults : 0 .. MaxFaults,
                   reloads : 0 .. MaxReloads]
<1>1. env \in [bans : 0 .. MaxBans, faults : 0 .. MaxFaults,
               reloads : 0 .. MaxReloads]
  BY DEF TypeOK
<1>2. env' = [env EXCEPT !.faults = @ + 1] /\ env.faults < MaxFaults
  BY DEF Fault
<1>3. env.faults + 1 \in 0 .. MaxFaults
  BY <1>1, <1>2, SinkAssumption
<1>. QED
  BY <1>1, <1>2, <1>3

\* The handler starts.
LEMMA BeginInv ==
  ASSUME Inv, Begin
  PROVE  Inv'
<1>. USE DEF Inv
<1>0. /\ UNCHANGED <<clock, ring, slot, count, tmp, file, env>>
      /\ tick' = [at |-> "drain", now |-> clock, drained |-> 0, next |-> 1]
  BY DEF Begin, Idle
<1>1. TypeOK'
  BY <1>0, SinkAssumption DEF TypeOK
<1>2. TableSound'
  BY <1>0 DEF TableSound, Used
<1>3. Rewriting' /\ FileWhole'
  BY <1>0 DEF Rewriting, FileWhole
<1>. QED
  BY <1>1, <1>2, <1>3

\* One ban is drained.
LEMMA DrainInv ==
  ASSUME Inv, DrainOne
  PROVE  Inv'
<1>. USE DEF Inv
<1>. DEFINE e == Head(ring)
<1>0. /\ UNCHANGED <<clock, tmp, file, env>>
      /\ tick' = [tick EXCEPT !.drained = @ + 1]
      /\ tick.at = "drain" /\ tick.drained < Cap
      /\ ring # << >> /\ ring' = Tail(ring)
  BY DEF DrainOne, Draining
<1>1. e \in Ban /\ ring' \in Seq(Ban) /\ Len(ring') <= Cap
  BY <1>0, HeadTailProperties, SinkAssumption DEF TypeOK
<1>2. \/ Upsert(e)
      \/ UNCHANGED <<slot, count>>
  BY DEF DrainOne
<1>. HIDE DEF e
<1>3. /\ slot' \in [Slots -> Ban \cup {Free}]
      /\ count' \in 0 .. Cap
      /\ TableSound'
  <2>1. CASE Upsert(e)
    BY <1>1, <2>1, UpsertTable
  <2>2. CASE UNCHANGED <<slot, count>>
    BY <2>2 DEF TypeOK, TableSound, Used
  <2>. QED
    BY <1>2, <2>1, <2>2
<1>4. tick' \in [at : {"idle", "drain", "write", "off"}, now : 0 .. MaxTime,
                 drained : 0 .. Cap, next : 1 .. Cap + 1]
  <2>1. tick \in [at : {"idle", "drain", "write", "off"}, now : 0 .. MaxTime,
                  drained : 0 .. Cap, next : 1 .. Cap + 1]
    BY DEF TypeOK
  <2>2. tick.drained + 1 \in 0 .. Cap
    BY <1>0, <2>1, SinkAssumption
  <2>. QED
    BY <1>0, <2>1, <2>2
<1>5. TypeOK'
  BY <1>0, <1>1, <1>3, <1>4 DEF TypeOK
<1>6. Rewriting' /\ FileWhole'
  BY <1>0 DEF Rewriting, FileWhole, TypeOK
<1>. QED
  BY <1>3, <1>5, <1>6

\* The temporary file is opened for the slots that expiry leaves.
LEMMA OpenInv ==
  ASSUME Inv, Open
  PROVE  Inv'
<1>. USE DEF Inv
<1>. DEFINE now == tick.now
<1>0. /\ UNCHANGED <<clock, ring, file, env>>
      /\ tick' = [tick EXCEPT !.at = "write"]
      /\ tick.at = "drain" /\ tick.next = 1
      /\ tmp' = [lines |-> {}, want |-> Wanted(now)]
      /\ ExpireSet(now)
  BY DEF Open, Rewriting
<1>1. /\ slot' \in [Slots -> Ban \cup {Free}]
      /\ count' \in 0 .. Cap
      /\ TableSound'
      /\ Used' = Used \ Expired(now)
      /\ \A i \in Used' : slot'[i] = slot[i]
  BY <1>0, ExpireTable
<1>2. now \in 0 .. MaxTime /\ tick'.now = now /\ tick'.at = "write" /\ tick'.next = 1
  BY <1>0 DEF TypeOK
<1>3. \A i \in Used' : slot[i] \in Ban /\ slot[i].expiry > now /\ i \in 1 .. Cap
  <2>1. \A i \in Used' : i \in Used /\ ~(slot[i].expiry <= now)
    BY <1>1 DEF Expired
  <2>2. \A i \in Used' : slot[i] \in Ban /\ i \in Slots
    BY <2>1, UsedSlots
  <2>3. \A b \in Ban : b.expiry \in Nat
    BY SinkAssumption DEF Ban, Times
  <2>. QED
    BY <1>2, <2>1, <2>2, <2>3 DEF Slots
<1>4. \A i \in Used' : Format(slot[i], now) \in Line
  BY <1>2, <1>3, LineOfBan
<1>5. Wanted(now) = {Format(slot[i], now) : i \in Used'}
  BY <1>1 DEF Wanted
<1>6. TypeOK'
  <2>1. Wanted(now) \in SUBSET Line
    BY <1>4, <1>5
  <2>2. tick' \in [at : {"idle", "drain", "write", "off"}, now : 0 .. MaxTime,
                   drained : 0 .. Cap, next : 1 .. Cap + 1]
    BY <1>0 DEF TypeOK
  <2>3. tmp' \in [lines : SUBSET Line, want : SUBSET Line]
    BY <1>0, <2>1
  <2>. QED
    BY <1>0, <1>1, <2>2, <2>3 DEF TypeOK
<1>7. Rewriting'
  <2>1. {j \in Used' : j < 1} = {} /\ {j \in Used' : j < Cap + 1} = Used'
    BY <1>3, SinkAssumption
  <2>2. LinesBefore(Cap + 1)' = {Format(slot'[i], now) : i \in Used'}
    BY <1>2, <2>1 DEF LinesBefore, Format
  <2>3. \A i \in Used' : Format(slot'[i], now) = Format(slot[i], now)
    BY <1>1
  <2>4. LinesBefore(Cap + 1)' = Wanted(now)
    BY <1>5, <2>2, <2>3
  <2>5. LinesBefore(1)' = {}
    BY <2>1 DEF LinesBefore
  <2>6. tmp'.lines = {} /\ tmp'.want = Wanted(now)
    BY <1>0
  <2>. QED
    BY <1>1, <1>2, <1>3, <2>4, <2>5, <2>6 DEF Rewriting
<1>8. FileWhole'
  BY <1>0 DEF FileWhole
<1>. QED
  BY <1>1, <1>6, <1>7, <1>8

\* The handler gives up: nothing but the expiry has happened to the table.
LEMMA OpenFailsInv ==
  ASSUME Inv, OpenFails
  PROVE  Inv'
<1>. USE DEF Inv
<1>0. /\ UNCHANGED <<clock, ring, tmp, file>>
      /\ tick' = Idle
      /\ ExpireSet(tick.now)
      /\ Fault
  BY DEF OpenFails
<1>1. /\ slot' \in [Slots -> Ban \cup {Free}]
      /\ count' \in 0 .. Cap
      /\ TableSound'
  BY <1>0, ExpireTable
<1>2. TypeOK'
  BY <1>0, <1>1, FaultType, SinkAssumption, SMTT(60) DEF TypeOK, Idle
<1>3. Rewriting' /\ FileWhole'
  BY <1>0 DEF Rewriting, FileWhole, Idle
<1>. QED
  BY <1>1, <1>2, <1>3

\* One more slot is behind the writer.
LEMMA WriteInv ==
  ASSUME Inv, WriteLine
  PROVE  Inv'
<1>. USE DEF Inv
<1>. PICK n, now : n = tick.next /\ now = tick.now
  OBVIOUS
<1>0. /\ UNCHANGED <<clock, ring, slot, count, file, env>>
      /\ tick' = [tick EXCEPT !.next = @ + 1]
      /\ tick.at = "write" /\ n \in 1 .. Cap /\ now \in 0 .. MaxTime
      /\ \A i \in Used : slot[i].expiry > now
      /\ tmp.want = LinesBefore(Cap + 1)
      /\ tmp.lines = LinesBefore(n)
  BY SinkAssumption DEF WriteLine, Writing, Rewriting, TypeOK
<1>1. Used' = Used
  BY <1>0 DEF Used
<1>2. /\ tick'.now = now /\ tick'.at = "write" /\ tick'.next = n + 1
      /\ tick' \in [at : {"idle", "drain", "write", "off"}, now : 0 .. MaxTime,
                    drained : 0 .. Cap, next : 1 .. Cap + 1]
  <2>1. tick \in [at : {"idle", "drain", "write", "off"}, now : 0 .. MaxTime,
                  drained : 0 .. Cap, next : 1 .. Cap + 1]
    BY DEF TypeOK
  <2>2. n + 1 \in 1 .. Cap + 1
    BY <1>0, SinkAssumption
  <2>. QED
    BY <1>0, <2>1, <2>2
<1>. DEFINE lines == LinesBefore(n + 1)
<1>3. /\ tmp' = [tmp EXCEPT !.lines = lines]
      /\ tmp.lines \cup lines = lines
  <2>1. CASE n \in Used
    <3>1. {j \in Used : j < n + 1} = {j \in Used : j < n} \cup {n}
      BY <1>0, <2>1, SinkAssumption DEF Used, Slots
    <3>2. lines = LinesBefore(n) \cup {Format(slot[n], now)}
      BY <3>1 DEF LinesBefore
    <3>. HIDE DEF lines
    <3>. QED
      BY <1>0, <2>1, <3>2 DEF WriteLine
  <2>2. CASE n \notin Used
    <3>1. {j \in Used : j < n + 1} = {j \in Used : j < n}
      BY <1>0, <2>2, SinkAssumption DEF Used, Slots
    <3>2. lines = LinesBefore(n)
      BY <3>1 DEF LinesBefore
    <3>3. tmp' = tmp /\ tmp.lines = lines
      BY <1>0, <2>2, <3>2 DEF WriteLine
    <3>. HIDE DEF lines
    <3>. QED
      BY <3>3 DEF TypeOK
  <2>. QED
    BY <2>1, <2>2
<1>4. lines \in SUBSET Line
  BY <1>0, UsedSlots, LineOfBan DEF LinesBefore
<1>5. \A m : LinesBefore(m)' = LinesBefore(m)
  BY <1>0, <1>1, <1>2 DEF LinesBefore, Format
<1>. HIDE DEF lines
<1>6. TypeOK'
  <2>1. tmp' \in [lines : SUBSET Line, want : SUBSET Line]
    BY <1>3, <1>4 DEF TypeOK
  <2>. QED
    BY <1>0, <1>2, <2>1 DEF TypeOK
<1>7. Rewriting'
  <2>1. tmp'.lines = lines /\ tmp'.want = tmp.want
    BY <1>3 DEF TypeOK
  <2>2. tmp'.lines = LinesBefore(n + 1)' /\ tmp'.want = LinesBefore(Cap + 1)'
    BY <1>0, <1>5, <2>1 DEF lines
  <2>. QED
    BY <1>0, <1>1, <1>2, <2>2 DEF Rewriting
<1>8. TableSound' /\ FileWhole'
  BY <1>0, <1>1 DEF TableSound, FileWhole
<1>. QED
  BY <1>6, <1>7, <1>8

\* A failed rewrite leaves the decisions file as it was.
LEMMA RewriteFailsInv ==
  ASSUME Inv, RewriteFails
  PROVE  Inv'
<1>. USE DEF Inv
<1>0. /\ UNCHANGED <<clock, ring, slot, count, file>>
      /\ tick' = Idle /\ tmp' = Empty
      /\ Fault
  BY DEF RewriteFails
<1>1. TypeOK'
  BY <1>0, FaultType, SinkAssumption DEF TypeOK, Idle, Empty
<1>2. TableSound'
  BY <1>0 DEF TableSound, Used
<1>3. Rewriting' /\ FileWhole'
  BY <1>0 DEF Rewriting, FileWhole, Idle
<1>. QED
  BY <1>1, <1>2, <1>3

\* The file that is renamed over the old one is complete.
LEMMA RenameInv ==
  ASSUME Inv, Rename
  PROVE  Inv'
<1>. USE DEF Inv
<1>0. /\ UNCHANGED <<clock, ring, slot, count, env>>
      /\ tick' = Idle /\ tmp' = Empty /\ file' = tmp
      /\ tick.at = "write" /\ tick.next = Cap + 1
      /\ tmp.want = LinesBefore(Cap + 1)
      /\ tmp.lines = LinesBefore(tick.next)
      /\ tick.now \in 0 .. MaxTime
      /\ \A i \in Used : slot[i].expiry > tick.now
  BY SinkAssumption DEF Rename, Writing, Rewriting, TypeOK
<1>1. TypeOK'
  BY <1>0, SinkAssumption DEF TypeOK, Idle, Empty
<1>2. TableSound'
  BY <1>0 DEF TableSound, Used
<1>3. Rewriting'
  BY <1>0 DEF Rewriting, Idle
<1>4. \A x, y \in LinesBefore(Cap + 1) : x.ip = y.ip => x = y
  <2>. SUFFICES ASSUME NEW x \in LinesBefore(Cap + 1),
                       NEW y \in LinesBefore(Cap + 1), x.ip = y.ip
                PROVE  x = y
    OBVIOUS
  <2>1. PICK i \in Used : x = Format(slot[i], tick.now)
    BY DEF LinesBefore
  <2>2. PICK j \in Used : y = Format(slot[j], tick.now)
    BY DEF LinesBefore
  <2>3. slot[i].ip = slot[j].ip
    BY <1>0, <2>1, <2>2, UsedSlots, LineOfBan
  <2>. QED
    BY <2>1, <2>2, <2>3 DEF TableSound
<1>5. FileWhole'
  BY <1>0, <1>4 DEF FileWhole
<1>. QED
  BY <1>1, <1>2, <1>3, <1>5

\* A new owner starts with an empty table; a half-written temporary file stays
\* behind, and is not the decisions file.
LEMMA StartInv ==
  ASSUME Inv, Crash \/ Reload \/ ReloadFails
  PROVE  Inv'
<1>. USE DEF Inv
<1>0. /\ UNCHANGED <<clock, ring, tmp, file>>
      /\ tick' \in {Idle, Off} /\ slot' = [i \in Slots |-> Free] /\ count' = 0
  BY DEF Crash, Reload, ReloadFails, StartOwner
<1>1. env' \in [bans : 0 .. MaxBans, faults : 0 .. MaxFaults,
                reloads : 0 .. MaxReloads]
  <2>1. CASE Crash
    BY <2>1, FaultType DEF Crash
  <2>2. CASE Reload \/ ReloadFails
    <3>1. PICK b \in 0 .. MaxBans, f \in 0 .. MaxFaults, r \in 0 .. MaxReloads :
            env = [bans |-> b, faults |-> f, reloads |-> r]
      BY DEF TypeOK
    <3>2. PICK g, s : /\ env' = [bans |-> b, faults |-> g, reloads |-> s]
                      /\ s = r + 1 /\ r < MaxReloads
                      /\ g = f \/ (g = f + 1 /\ f < MaxFaults)
      BY <2>2, <3>1 DEF Reload, ReloadFails
    <3> QED
      BY <3>1, <3>2, SinkAssumption
  <2> QED
    BY <2>1, <2>2
<1>2. /\ tick' \in [at : {"idle", "drain", "write", "off"}, now : 0 .. MaxTime,
                    drained : 0 .. Cap, next : 1 .. Cap + 1]
      /\ tick'.at \in {"idle", "off"} /\ tick'.next = 1
  BY <1>0, SinkAssumption DEF Idle, Off
<1>3. TypeOK'
  BY <1>0, <1>1, <1>2, SinkAssumption, SMTT(30) DEF TypeOK
<1>4. Used' = {}
  BY <1>0 DEF Used
<1>5. TableSound'
  BY <1>0, <1>4, FS_EmptySet DEF TableSound
<1>6. Rewriting' /\ FileWhole'
  BY <1>0, <1>2 DEF Rewriting, FileWhole
<1>. QED
  BY <1>3, <1>5, <1>6

\* Inv is inductive.
LEMMA NextInv == Inv /\ [Next]_vars => Inv'
<1>. SUFFICES ASSUME Inv, [Next]_vars PROVE Inv'
  OBVIOUS
<1>1. CASE Handler
  BY <1>1, BeginInv, DrainInv, OpenInv, OpenFailsInv, WriteInv, RewriteFailsInv,
     RenameInv DEF Handler
<1>2. CASE Crash \/ Reload \/ ReloadFails
  BY <1>2, StartInv
<1>3. CASE Tick \/ \E c \in Clients : Enqueue(c)
  BY <1>3, OutsideInv
<1>4. CASE UNCHANGED vars
  <2>1. UNCHANGED <<clock, ring, slot, count, tick, tmp, file, env>>
    BY <1>4 DEF vars
  <2>. QED
    BY <2>1 DEF Inv, TypeOK, TableSound, Rewriting, LinesBefore, FileWhole, Used,
                Format
<1>. QED
  BY <1>1, <1>2, <1>3, <1>4 DEF Next

\* Inv holds throughout.
LEMMA SinkInvariant == Spec => []Inv
  BY InitInv, NextInv, PTL DEF Spec

\* The ring and the table stay within NGX_SENTINEL_CSSINK_RING, and every line
\* of a file says how long a ban still has to run, never a time gone by.
THEOREM SinkTypeCorrect == Spec => []TypeOK
<1>1. Inv => TypeOK
  BY DEF Inv
<1>. QED
  BY <1>1, SinkInvariant, PTL

\* set_count is the number of decisions and no client has two, whatever the
\* order of sentinel_cssink_set_upsert and sentinel_cssink_set_expire.
THEOREM OneDecisionPerClient == Spec => []TableSound
<1>1. Inv => TableSound
  BY DEF Inv
<1>. QED
  BY <1>1, SinkInvariant, PTL

\* The decisions file is whole whenever it is read: over any interleaving of
\* bans, expiries, failures in sentinel_cssink_rewrite, deaths of the owner
\* and reloads.
THEOREM FileAlwaysWhole == Spec => []FileWhole
<1>1. Inv => FileWhole
  BY DEF Inv
<1>. QED
  BY <1>1, SinkInvariant, PTL
=============================================================================
