-------------------------- MODULE Transport_proofs --------------------------
(***************************************************************************)
(* Proofs about what stands between the program and the venues, one after  *)
(* the other: VenuePacing (the turns of requests), RequestControl (their   *)
(* deadlines) and MarketStream (connections that are kept).                *)
(***************************************************************************)
EXTENDS VenuePacing, RequestControl, FiniteSetTheorems, MarketStream, TLAPS

-----------------------------------------------------------------------------
(***************************************************************************)
(* Proofs about VenuePacing for any adapters, venues, limiters, intervals  *)
(* and registry size.  The argument: a live adapter's limiter is the one   *)
(* in the registry, so a venue has one lock and one reservation; what is   *)
(* reserved covers the strictest interval, and an entry is dropped only    *)
(* when its reservation is over.                                           *)
(***************************************************************************)

InSlot == {"pacing", "dispatching"}

\* What an adapter's thread holds.
Calls ==
    \A a \in Adapters :
        /\ Live(a) => adapter[a].venue \in Venues
        /\ adapter[a].pc \in {"constructing", "acquiring"} \cup InSlot => adapter[a].lim # Absent
        /\ adapter[a].pc \in InSlot => limiter[adapter[a].lim].holder = a

\* Venues do not share a limiter.
Apart ==
    \A v, w \in Venues : registry[v] = registry[w] /\ registry[v] # Absent => v = w

\* A limiter's interval is that of its strictest adapter, and the slot it reserved keeps it.
Strict ==
    \A a \in Adapters :
        Usable(a) /\ adapter[a].lim # Absent => adapter[a].interval <= limiter[adapter[a].lim].interval

Reserved ==
    \A v \in Venues :
        LET l == limiter[registry[v]]
        IN  registry[v] # Absent /\ l.last > 0 => l.next >= l.last + l.interval

\* Whoever is owed a distance gets it from the schedule in the registry, or from the clock.
Waited ==
    \A v \in Venues : \A i \in gap[v].heard :
        \/ gap[v].at + i <= now
        \/ registry[v] # Absent /\ gap[v].at + i <= limiter[registry[v]].next

PacingInv == PacingTypeOK /\ Calls /\ Apart /\ OneSchedule /\ Strict /\ Reserved /\ Waited

-----------------------------------------------------------------------------
USE PacingAssumption DEF PacingAssumption

\* The initial state has no adapter and no schedule.
LEMMA InitPacingInv == PacingInit => PacingInv
  BY DEF PacingInit, PacingInv, PacingTypeOK, Calls, Apart, OneSchedule, Strict, Reserved, Waited, Live, Usable,
         NoAdapter, NoLimiter, AdapterRecs, LimiterRecs, AdapterPCs, InSlot

\* A step that leaves limiters, registry and ghost alone and does not move an adapter into
\* use keeps what relates them.
LEMMA QuietAdapterStep ==
  ASSUME PacingInv, adapter' \in [Adapters -> AdapterRecs], UNCHANGED <<now, registry, limiter, gap>>,
         \A a \in Adapters :
            \/ adapter'[a] = adapter[a]
            \/ adapter'[a] = NoAdapter
            \/ /\ adapter'[a] = [adapter[a] EXCEPT !.pc = adapter'[a].pc]
               /\ Live(a)
               /\ Usable(a)' => Usable(a) \/ adapter[a].interval <= limiter[adapter[a].lim].interval
               /\ adapter'[a].pc \in InSlot => adapter[a].pc \in InSlot
               /\ adapter'[a].pc \in {"constructing", "acquiring"} => adapter[a].lim # Absent
  PROVE  PacingInv'
<1>1. PacingTypeOK'
    BY DEF PacingInv, PacingTypeOK
<1>2. Calls'
    BY DEF PacingInv, PacingTypeOK, Calls, Live, NoAdapter, AdapterRecs, InSlot
<1>3. Apart' /\ Reserved' /\ Waited'
    BY DEF PacingInv, Apart, Reserved, Waited
<1>4. OneSchedule'
    BY DEF PacingInv, PacingTypeOK, OneSchedule, Live, NoAdapter, AdapterRecs
<1>5. Strict'
    BY DEF PacingInv, PacingTypeOK, Strict, Usable, NoAdapter, AdapterRecs
<1> QED
    BY <1>1, <1>2, <1>3, <1>4, <1>5 DEF PacingInv

\* What pruning keeps: the schedule of every live adapter, and every distance owed.
LEMMA PruneKeeps ==
  ASSUME PacingInv
  PROVE  /\ Pruned \in [Venues -> Limiters \cup {Absent}]
         /\ Kept \in [Limiters -> LimiterRecs]
         /\ \A v \in Venues : Pruned[v] # Absent => Pruned[v] = registry[v] /\ Kept[Pruned[v]] = limiter[registry[v]]
         /\ \A a \in Adapters : Live(a) /\ adapter[a].lim # Absent =>
                Pruned[adapter[a].venue] = adapter[a].lim /\ Kept[adapter[a].lim] = limiter[adapter[a].lim]
         /\ \A v \in Venues : Pruned[v] = Absent /\ registry[v] # Absent => limiter[registry[v]].next <= now
<1>1. Pruned \in [Venues -> Limiters \cup {Absent}] /\ Kept \in [Limiters -> LimiterRecs]
    BY DEF PacingInv, PacingTypeOK, Pruned, Kept, NoLimiter, LimiterRecs
<1>2. ASSUME NEW v \in Venues, Pruned[v] # Absent
      PROVE  Pruned[v] = registry[v] /\ Kept[Pruned[v]] = limiter[registry[v]]
  <2>1. v \notin Removable /\ Pruned[v] = registry[v]
    BY <1>2 DEF Pruned
  <2>2. ~ \E w \in Removable : registry[w] = registry[v]
    BY <1>2, <2>1 DEF PacingInv, Apart, Removable
  <2>3. registry[v] \in Limiters
    BY <1>2, <2>1 DEF PacingInv, PacingTypeOK
  <2> QED
    BY <2>1, <2>2, <2>3 DEF Kept
<1>3. ASSUME NEW a \in Adapters, Live(a), adapter[a].lim # Absent
      PROVE  Pruned[adapter[a].venue] = adapter[a].lim /\ Kept[adapter[a].lim] = limiter[adapter[a].lim]
  <2>1. adapter[a].venue \in Venues /\ registry[adapter[a].venue] = adapter[a].lim
    BY <1>3 DEF PacingInv, Calls, OneSchedule
  <2>2. adapter[a].venue \notin Removable
    BY <1>3, <2>1 DEF Removable, Owners
  <2>3. Pruned[adapter[a].venue] = adapter[a].lim
    BY <2>1, <2>2 DEF Pruned
  <2> QED
    BY <1>2, <1>3, <2>1, <2>3
<1>4. ASSUME NEW v \in Venues, Pruned[v] = Absent, registry[v] # Absent
      PROVE  limiter[registry[v]].next <= now
    BY <1>4 DEF Pruned, Removable
<1> QED
    BY <1>1, <1>2, <1>3, <1>4

\* Looking the venue up keeps the invariant, whichever entries it drops.
LEMMA LookupStep ==
  ASSUME PacingInv, NEW a \in Adapters, NEW v \in Venues, NEW i \in Intervals, Lookup(a, v, i)
  PROVE  PacingInv'
<1> DEFINE Become(to, l) ==
        adapter' = [adapter EXCEPT ![a] = [pc |-> to, venue |-> v, interval |-> i, lim |-> l]]
<1>0. i \in Nat /\ ~Live(a) /\ UNCHANGED <<now, gap>>
    BY DEF Lookup
<1>1. CASE Become("ready", Absent) /\ UNCHANGED <<registry, limiter>>
  <2>1. PacingTypeOK'
    BY <1>0, <1>1 DEF PacingInv, PacingTypeOK, AdapterRecs, AdapterPCs
  <2>2. Calls' /\ Apart' /\ OneSchedule' /\ Strict' /\ Reserved' /\ Waited'
    BY <1>0, <1>1 DEF PacingInv, PacingTypeOK, Calls, Apart, OneSchedule, Strict, Reserved, Waited, Live, Usable, InSlot, AdapterRecs
  <2> QED
    BY <2>1, <2>2 DEF PacingInv
<1>2. CASE registry' = Pruned /\ limiter' = Kept /\ UNCHANGED adapter
  <2>1. PacingTypeOK'
    BY <1>0, <1>2, PruneKeeps DEF PacingInv, PacingTypeOK
  <2>2. Calls' /\ OneSchedule' /\ Strict'
    BY <1>0, <1>2, PruneKeeps DEF PacingInv, Calls, OneSchedule, Strict, Live, Usable, InSlot
  <2>3. Apart' /\ Reserved'
    BY <1>0, <1>2, PruneKeeps DEF PacingInv, Apart, Reserved
  <2>4. Waited'
    <3> SUFFICES ASSUME NEW w \in Venues, NEW j \in gap[w].heard
                 PROVE  \/ gap[w].at + j <= now
                        \/ Pruned[w] # Absent /\ gap[w].at + j <= Kept[Pruned[w]].next
        BY <1>0, <1>2 DEF Waited
    <3>1. gap[w].at \in Nat /\ j \in Nat /\ now \in Nat
        BY DEF PacingInv, PacingTypeOK
    <3>2. registry[w] # Absent => limiter[registry[w]].next \in Nat
        BY DEF PacingInv, PacingTypeOK, LimiterRecs
    <3> QED
        BY <3>1, <3>2, PruneKeeps DEF PacingInv, Waited
  <2> QED
    BY <2>1, <2>2, <2>3, <2>4 DEF PacingInv
<1>3. ASSUME registry[v] = Absent, NEW l \in Limiters, Fresh(l), registry' = [Pruned EXCEPT ![v] = l],
             limiter' = [Kept EXCEPT ![l] = [NoLimiter EXCEPT !.interval = i]],
             Become("constructing", l)
      PROVE  PacingInv'
  <2>0. limiter'[l] = [interval |-> i, next |-> 0, holder |-> Absent, last |-> 0]
    BY <1>3, PruneKeeps DEF NoLimiter
  <2>1. PacingTypeOK'
    BY <1>0, <1>3, <2>0, PruneKeeps DEF PacingInv, PacingTypeOK, AdapterRecs, LimiterRecs, AdapterPCs
  <2>2. \A b \in Adapters : Live(b) /\ adapter[b].lim # Absent => adapter[b].lim # l /\ adapter[b].venue # v
    BY <1>3, PruneKeeps DEF PacingInv, OneSchedule, Fresh
  <2>3. \A w \in Venues : Pruned[w] # l
    BY <1>3 DEF Fresh
  <2>4. /\ \A b \in Adapters \ {a} : adapter'[b] = adapter[b]
        /\ adapter'[a] = [pc |-> "constructing", venue |-> v, interval |-> i, lim |-> l]
    BY <1>3 DEF PacingInv, PacingTypeOK
  <2>5. \A k \in Limiters \ {l} : limiter'[k] = Kept[k]
    BY <1>3, PruneKeeps
  <2>6. /\ \A w \in Venues \ {v} : registry'[w] = Pruned[w]
        /\ registry'[v] = l
    BY <1>3, PruneKeeps
  <2>7. \A b \in Adapters \ {a} : Live(b) /\ adapter[b].lim # Absent =>
            /\ limiter'[adapter[b].lim] = limiter[adapter[b].lim]
            /\ registry'[adapter[b].venue] = registry[adapter[b].venue]
    BY <2>2, <2>5, <2>6, PruneKeeps DEF PacingInv, PacingTypeOK, AdapterRecs, Calls, OneSchedule
  <2>8. Calls'
    BY <2>4, <2>7 DEF PacingInv, Calls, Live, InSlot
  <2>9. OneSchedule'
    BY <2>4, <2>6, <2>7 DEF PacingInv, OneSchedule, Live
  <2>10. Strict'
    BY <2>4, <2>7 DEF PacingInv, Strict, Live, Usable
  <2>11. Apart'
    BY <2>3, <2>6, PruneKeeps DEF PacingInv, Apart
  <2>12. Reserved'
    <3> SUFFICES ASSUME NEW w \in Venues, w # v, Pruned[w] # Absent
                 PROVE  limiter'[Pruned[w]] = limiter[registry[w]] /\ Pruned[w] = registry[w]
        BY <1>0, <2>0, <2>6 DEF PacingInv, Reserved
    <3> QED
        BY <2>3, <2>5, PruneKeeps
  <2>13. Waited'
    <3> SUFFICES ASSUME NEW w \in Venues, NEW j \in gap[w].heard
                 PROVE  \/ gap[w].at + j <= now
                        \/ registry'[w] # Absent /\ gap[w].at + j <= limiter'[registry'[w]].next
        BY <1>0 DEF Waited
    <3>1. gap[w].at \in Nat /\ j \in Nat /\ now \in Nat
        BY DEF PacingInv, PacingTypeOK
    <3>2. registry[w] # Absent => limiter[registry[w]].next \in Nat
        BY DEF PacingInv, PacingTypeOK, LimiterRecs
    <3>3. CASE w = v
        BY <1>3, <3>3 DEF PacingInv, Waited
    <3>4. CASE w # v /\ Pruned[w] # Absent
        BY <2>3, <2>5, <2>6, <3>4, PruneKeeps DEF PacingInv, Waited
    <3>5. CASE w # v /\ Pruned[w] = Absent
        BY <3>1, <3>2, <3>5, PruneKeeps DEF PacingInv, Waited
    <3> QED
        BY <3>3, <3>4, <3>5
  <2> QED
    BY <2>1, <2>8, <2>9, <2>10, <2>11, <2>12, <2>13 DEF PacingInv
<1>4. CASE registry[v] # Absent /\ Become("constructing", registry[v]) /\ UNCHANGED <<registry, limiter>>
  <2>1. PacingTypeOK'
    BY <1>0, <1>4 DEF PacingInv, PacingTypeOK, AdapterRecs, AdapterPCs
  <2>2. Calls' /\ OneSchedule' /\ Strict'
    BY <1>0, <1>4 DEF PacingInv, PacingTypeOK, Calls, OneSchedule, Strict, Live, Usable, InSlot, AdapterRecs
  <2>3. Apart' /\ Reserved' /\ Waited'
    BY <1>0, <1>4 DEF PacingInv, Apart, Reserved, Waited
  <2> QED
    BY <2>1, <2>2, <2>3 DEF PacingInv
<1> QED
    BY <1>1, <1>2, <1>3, <1>4 DEF Lookup

\* A reservation that only moves away keeps every distance owed.
LEMMA WaitedKept ==
  ASSUME PacingInv, UNCHANGED <<now, registry, gap>>, limiter' \in [Limiters -> LimiterRecs],
         \A l \in Limiters : limiter'[l].next >= limiter[l].next
  PROVE  Waited'
<1> SUFFICES ASSUME NEW w \in Venues, NEW j \in gap[w].heard
             PROVE  \/ gap[w].at + j <= now
                    \/ registry[w] # Absent /\ gap[w].at + j <= limiter'[registry[w]].next
    BY DEF Waited
<1>1. gap[w].at \in Nat /\ j \in Nat /\ now \in Nat
    BY DEF PacingInv, PacingTypeOK
<1>2. registry[w] # Absent =>
        /\ registry[w] \in Limiters
        /\ limiter[registry[w]].next \in Nat /\ limiter'[registry[w]].next \in Nat
    BY DEF PacingInv, PacingTypeOK, LimiterRecs
<1> QED
    BY <1>1, <1>2 DEF PacingInv, Waited

\* Strengthening moves the slot as far as the interval grows.
LEMMA StrengthenGrows ==
  ASSUME NEW r \in LimiterRecs, NEW i \in Nat
  PROVE  LET s == Strengthen(r, i)
         IN  /\ s \in LimiterRecs /\ s.interval >= r.interval /\ s.interval >= i
             /\ s.next >= r.next /\ s.last = r.last /\ s.holder = r.holder
             /\ r.last > 0 /\ r.next >= r.last + r.interval => s.next >= s.last + s.interval
<1> DEFINE s == Strengthen(r, i)
<1>1. r.interval \in Nat /\ r.next \in Nat /\ r.last \in Nat /\ r.holder \in Adapters \cup {Absent}
    BY DEF LimiterRecs
<1> DEFINE n == IF r.next > 0 THEN r.next + Later(0, i - r.interval) ELSE r.next
           k == Later(r.interval, i)
<1>s. s = [r EXCEPT !.next = n, !.interval = k]
    BY DEF Strengthen
<1>2. s.interval = k /\ s.next = n /\ s.holder = r.holder /\ s.last = r.last
  <2> HIDE DEF n, k, s
  <2> QED
    BY <1>s DEF LimiterRecs
<1>3. /\ Later(r.interval, i) \in Nat /\ Later(r.interval, i) >= r.interval /\ Later(r.interval, i) >= i
      /\ Later(0, i - r.interval) \in Nat
      /\ Later(r.interval, i) = r.interval + Later(0, i - r.interval)
    BY <1>1 DEF Later
<1>4. s.next \in Nat /\ s.next >= r.next
    BY <1>1, <1>2, <1>3
<1>5. s \in LimiterRecs
  <2>1. n \in Nat /\ k \in Nat
    BY <1>2, <1>3, <1>4
  <2> HIDE DEF n, k, s
  <2> QED
    BY <1>s, <2>1 DEF LimiterRecs
<1>6. ASSUME r.last > 0, r.next >= r.last + r.interval PROVE s.next >= s.last + s.interval
  <2>1. r.next > 0
    BY <1>1, <1>6
  <2>2. s.next = r.next + Later(0, i - r.interval)
    BY <1>2, <2>1
  <2>3. s.last = r.last /\ s.interval = r.interval + Later(0, i - r.interval)
    BY <1>2, <1>3
  <2> QED
    BY <1>1, <1>3, <1>6, <2>2, <2>3
<1> QED
    BY <1>2, <1>3, <1>4, <1>5, <1>6

\* Strengthening, under the lock or found unnecessary, keeps the invariant.
LEMMA ConstructStep ==
  ASSUME PacingInv, NEW a \in Adapters, Construct(a)
  PROVE  PacingInv'
<1> DEFINE l == adapter[a].lim
           i == adapter[a].interval
<1>0. /\ l \in Limiters /\ i \in Nat /\ limiter[l] \in LimiterRecs
      /\ adapter[a].pc = "constructing" /\ Live(a)
      /\ adapter' = [adapter EXCEPT ![a].pc = "ready"] /\ UNCHANGED <<now, registry, gap>>
    BY DEF PacingInv, PacingTypeOK, Calls, AdapterRecs, Construct, Live
<1>1. CASE i <= limiter[l].interval /\ UNCHANGED limiter
  <2>1. adapter' \in [Adapters -> AdapterRecs]
    BY <1>0 DEF PacingInv, PacingTypeOK, AdapterRecs, AdapterPCs
  <2> QED
    BY <1>0, <1>1, <2>1, QuietAdapterStep DEF PacingInv, PacingTypeOK, AdapterRecs, InSlot, Usable
<1>2. CASE limiter[l].holder = Absent /\ limiter' = [limiter EXCEPT ![l] = Strengthen(@, i)]
  <2> DEFINE s == Strengthen(limiter[l], i)
  <2>1. /\ s \in LimiterRecs /\ s.interval >= limiter[l].interval /\ s.interval >= i
        /\ s.next >= limiter[l].next /\ s.last = limiter[l].last /\ s.holder = limiter[l].holder
        /\ limiter[l].last > 0 /\ limiter[l].next >= limiter[l].last + limiter[l].interval
              => s.next >= s.last + s.interval
    BY <1>0, StrengthenGrows
  <2>2. limiter'[l] = s /\ \A k \in Limiters \ {l} : limiter'[k] = limiter[k]
    BY <1>0, <1>2 DEF PacingInv, PacingTypeOK
  <2>3. limiter' \in [Limiters -> LimiterRecs]
    BY <1>2, <2>1 DEF PacingInv, PacingTypeOK
  <2>4. PacingTypeOK'
    BY <1>0, <2>3 DEF PacingInv, PacingTypeOK, AdapterRecs, AdapterPCs
  <2>5. \A b \in Adapters \ {a} : adapter'[b] = adapter[b]
    BY <1>0 DEF PacingInv, PacingTypeOK
  <2>6. adapter'[a] = [adapter[a] EXCEPT !.pc = "ready"]
    BY <1>0 DEF PacingInv, PacingTypeOK
  <2>7. Calls'
    <3>1. \A k \in Limiters : limiter'[k].holder = limiter[k].holder
      BY <2>1, <2>2
    <3> QED
      BY <1>0, <2>5, <2>6, <3>1 DEF PacingInv, PacingTypeOK, Calls, AdapterRecs, Live, InSlot
  <2>8. OneSchedule' /\ Apart'
    BY <1>0, <2>5, <2>6 DEF PacingInv, PacingTypeOK, OneSchedule, Apart, AdapterRecs, Live
  <2>9. Strict'
    <3> SUFFICES ASSUME NEW b \in Adapters, Usable(b)', adapter'[b].lim # Absent
                 PROVE  adapter'[b].interval <= limiter'[adapter'[b].lim].interval
      BY DEF Strict
    <3>1. adapter[b].lim \in Limiters /\ adapter[b].interval \in Nat
          /\ adapter'[b].lim = adapter[b].lim /\ adapter'[b].interval = adapter[b].interval
      BY <1>0, <2>5, <2>6 DEF PacingInv, PacingTypeOK, AdapterRecs
    <3>2. limiter'[adapter[b].lim].interval >= limiter[adapter[b].lim].interval
      BY <2>1, <2>2, <3>1 DEF PacingInv, PacingTypeOK, LimiterRecs
    <3>3. limiter[adapter[b].lim].interval \in Nat /\ limiter'[adapter[b].lim].interval \in Nat
      BY <2>3, <3>1 DEF PacingInv, PacingTypeOK, LimiterRecs
    <3>4. CASE b = a
      BY <2>1, <2>2, <3>1, <3>4
    <3>5. CASE b # a
      BY <2>5, <3>1, <3>2, <3>3, <3>5 DEF PacingInv, Strict, Usable
    <3> QED
      BY <3>4, <3>5
  <2>10. Reserved'
    BY <1>0, <2>1, <2>2 DEF PacingInv, PacingTypeOK, Reserved
  <2>11. Waited'
    <3>1. \A k \in Limiters : limiter'[k].next >= limiter[k].next
      BY <2>1, <2>2 DEF PacingInv, PacingTypeOK, LimiterRecs
    <3> QED
      BY <1>0, <2>3, <3>1, WaitedKept
  <2> QED
    BY <2>4, <2>7, <2>8, <2>9, <2>10, <2>11 DEF PacingInv
<1> QED
    BY <1>1, <1>2 DEF Construct

\* Taking the lock, or leaving it, changes only its holder.
LEMMA HolderStep ==
  ASSUME PacingInv, NEW a \in Adapters, adapter[a].pc \in {"acquiring", "pacing"},
         NEW p \in AdapterPCs, NEW h \in Adapters \cup {Absent},
         limiter[adapter[a].lim].holder \in {Absent, a}, p \in InSlot => h = a,
         p \in {"ready"} \cup InSlot,
         adapter' = [adapter EXCEPT ![a].pc = p],
         limiter' = [limiter EXCEPT ![adapter[a].lim].holder = h],
         UNCHANGED <<now, registry, gap>>
  PROVE  PacingInv'
<1> DEFINE l == adapter[a].lim
<1>0. l \in Limiters /\ Usable(a) /\ Live(a)
    BY DEF PacingInv, PacingTypeOK, Calls, AdapterRecs, Usable, Live, InSlot
<1>1. /\ \A k \in Limiters : limiter'[k] = [limiter[k] EXCEPT !.holder = limiter'[k].holder]
      /\ limiter'[l].holder = h
      /\ \A k \in Limiters \ {l} : limiter'[k] = limiter[k]
      /\ limiter' \in [Limiters -> LimiterRecs]
    BY <1>0 DEF PacingInv, PacingTypeOK, LimiterRecs
<1>2. /\ \A b \in Adapters \ {a} : adapter'[b] = adapter[b]
      /\ adapter'[a] = [adapter[a] EXCEPT !.pc = p]
      /\ adapter' \in [Adapters -> AdapterRecs]
    BY DEF PacingInv, PacingTypeOK, AdapterRecs
<1>3. PacingTypeOK'
    BY <1>1, <1>2 DEF PacingInv, PacingTypeOK
<1>4. Calls'
  <2> SUFFICES ASSUME NEW b \in Adapters
               PROVE  /\ Live(b)' => adapter'[b].venue \in Venues
                      /\ adapter'[b].pc \in {"constructing", "acquiring"} \cup InSlot => adapter'[b].lim # Absent
                      /\ adapter'[b].pc \in InSlot => limiter'[adapter'[b].lim].holder = b
    BY DEF Calls
  <2>1. CASE b = a
    BY <1>0, <1>1, <1>2, <2>1 DEF PacingInv, PacingTypeOK, Calls, AdapterRecs, Live, InSlot
  <2>2. CASE b # a
    <3>1. adapter'[b] = adapter[b]
      BY <1>2, <2>2
    <3>2. adapter[b].pc \in InSlot => adapter[b].lim \in Limiters \ {l}
      BY <2>2 DEF PacingInv, PacingTypeOK, Calls, AdapterRecs, InSlot
    <3> QED
      BY <1>1, <3>1, <3>2 DEF PacingInv, Calls, Live
  <2> QED
    BY <2>1, <2>2
<1>5. OneSchedule' /\ Apart'
    BY <1>0, <1>2 DEF PacingInv, PacingTypeOK, OneSchedule, Apart, AdapterRecs, Live
<1>6. Strict'
    BY <1>0, <1>1, <1>2 DEF PacingInv, PacingTypeOK, Strict, AdapterRecs, LimiterRecs, Usable
<1>7. Reserved'
    BY <1>1 DEF PacingInv, PacingTypeOK, Reserved, LimiterRecs
<1>8. Waited'
  <2>1. \A k \in Limiters : limiter'[k].next >= limiter[k].next
    BY <1>1 DEF PacingInv, PacingTypeOK, LimiterRecs
  <2> QED
    BY <1>1, <2>1, WaitedKept
<1> QED
    BY <1>3, <1>4, <1>5, <1>6, <1>7, <1>8 DEF PacingInv

\* A return reserves the next slot at the strictest interval.
LEMMA ReturnStep ==
  ASSUME PacingInv, NEW a \in Adapters, Return(a)
  PROVE  PacingInv'
<1> DEFINE l == adapter[a].lim
           v == adapter[a].venue
           r == Reservation(limiter[l])
<1>0. /\ adapter[a].pc = "dispatching" /\ Live(a) /\ Usable(a)
      /\ l \in Limiters /\ v \in Venues /\ registry[v] = l /\ limiter[l].holder = a
      /\ limiter[l] \in LimiterRecs /\ now \in Nat /\ UNCHANGED <<now, registry>>
    BY DEF PacingInv, PacingTypeOK, Calls, OneSchedule, AdapterRecs, InSlot, Live, Usable, Return
<1>1. r \in Nat /\ r >= now + limiter[l].interval /\ r >= limiter[l].next
    BY <1>0 DEF Reservation, Later, LimiterRecs
<1>2. /\ limiter'[l] = [limiter[l] EXCEPT !.next = r, !.last = now, !.holder = Absent]
      /\ \A k \in Limiters \ {l} : limiter'[k] = limiter[k]
      /\ limiter' \in [Limiters -> LimiterRecs]
    BY <1>0, <1>1 DEF PacingInv, PacingTypeOK, LimiterRecs, Return
<1>3. /\ \A b \in Adapters \ {a} : adapter'[b] = adapter[b]
      /\ adapter'[a] = [adapter[a] EXCEPT !.pc = "ready"]
      /\ adapter' \in [Adapters -> AdapterRecs]
    BY DEF PacingInv, PacingTypeOK, AdapterRecs, AdapterPCs, Return
<1>4. /\ \A w \in Venues \ {v} : gap'[w] = gap[w]
      /\ gap'[v].at = now
      /\ \A j \in gap'[v].heard : \E b \in Owners(v) : Usable(b) /\ j = adapter[b].interval
      /\ gap' \in [Venues -> [at : Nat, heard : SUBSET Nat]]
    BY <1>0 DEF PacingInv, PacingTypeOK, AdapterRecs, Owners, Return
<1>5. PacingTypeOK'
    BY <1>0, <1>2, <1>3, <1>4 DEF PacingInv, PacingTypeOK
<1>6. Calls'
  <2> SUFFICES ASSUME NEW b \in Adapters
               PROVE  /\ Live(b)' => adapter'[b].venue \in Venues
                      /\ adapter'[b].pc \in {"constructing", "acquiring"} \cup InSlot => adapter'[b].lim # Absent
                      /\ adapter'[b].pc \in InSlot => limiter'[adapter'[b].lim].holder = b
    BY DEF Calls
  <2>1. CASE b = a
    BY <1>0, <1>3, <2>1 DEF PacingInv, PacingTypeOK, AdapterRecs, InSlot
  <2>2. CASE b # a
    <3>1. adapter'[b] = adapter[b]
      BY <1>3, <2>2
    <3>2. adapter[b].pc \in InSlot => adapter[b].lim \in Limiters \ {l}
      BY <1>0, <2>2 DEF PacingInv, PacingTypeOK, Calls, AdapterRecs, InSlot
    <3> QED
      BY <1>2, <3>1, <3>2 DEF PacingInv, Calls, Live
  <2> QED
    BY <2>1, <2>2
<1>7. OneSchedule' /\ Apart'
    BY <1>0, <1>3 DEF PacingInv, PacingTypeOK, OneSchedule, Apart, AdapterRecs, Live
<1>s. \A k \in Limiters : limiter'[k].interval = limiter[k].interval
    BY <1>0, <1>2 DEF LimiterRecs
<1>8. Strict'
  <2> SUFFICES ASSUME NEW b \in Adapters, Usable(b)', adapter'[b].lim # Absent
               PROVE  adapter'[b].interval <= limiter'[adapter'[b].lim].interval
    BY DEF Strict
  <2>1. /\ adapter'[b].lim = adapter[b].lim /\ adapter'[b].interval = adapter[b].interval
        /\ adapter[b].lim \in Limiters /\ Usable(b)
    BY <1>0, <1>3 DEF PacingInv, PacingTypeOK, AdapterRecs, Usable
  <2> QED
    BY <1>s, <2>1 DEF PacingInv, Strict
<1>9. Reserved'
  <2> SUFFICES ASSUME NEW w \in Venues, registry[w] # Absent, limiter'[registry[w]].last > 0
               PROVE  limiter'[registry[w]].next >= limiter'[registry[w]].last + limiter'[registry[w]].interval
    BY <1>0 DEF Reserved
  <2>1. registry[w] \in Limiters
    BY DEF PacingInv, PacingTypeOK
  <2>2. CASE registry[w] = l
    <3>1. limiter'[l].next = r /\ limiter'[l].last = now
      BY <1>0, <1>2 DEF LimiterRecs
    <3> QED
      BY <1>s, <1>0, <1>1, <2>2, <3>1
  <2>3. CASE registry[w] # l
    BY <1>2, <2>1, <2>3 DEF PacingInv, Reserved
  <2> QED
    BY <2>2, <2>3
<1>10. Waited'
  <2> SUFFICES ASSUME NEW w \in Venues, NEW j \in gap'[w].heard
               PROVE  \/ gap'[w].at + j <= now
                      \/ registry[w] # Absent /\ gap'[w].at + j <= limiter'[registry[w]].next
    BY <1>0 DEF Waited
  <2>1. CASE w = v
    <3>1. PICK b \in Owners(v) : Usable(b) /\ j = adapter[b].interval
      BY <1>4, <2>1
    <3>2. b \in Adapters /\ adapter[b].lim = l
      BY <1>0, <3>1 DEF Owners, PacingInv, OneSchedule
    <3>3. j \in Nat /\ limiter[l].interval \in Nat /\ j <= limiter[l].interval
      BY <1>0, <3>1, <3>2 DEF PacingInv, PacingTypeOK, AdapterRecs, LimiterRecs, Strict
    <3>4. limiter'[l].next = r /\ gap'[w].at = now
      BY <1>0, <1>2, <1>4, <2>1 DEF LimiterRecs
    <3> QED
      BY <1>0, <1>1, <2>1, <3>3, <3>4
  <2>2. CASE w # v
    <3>1. gap'[w] = gap[w]
      BY <1>4, <2>2
    <3>2. registry[w] # Absent => registry[w] \in Limiters \ {l}
      BY <1>0, <2>2 DEF PacingInv, PacingTypeOK, Apart
    <3> QED
      BY <1>2, <3>1, <3>2 DEF PacingInv, Waited
  <2> QED
    BY <2>1, <2>2
<1> QED
    BY <1>5, <1>6, <1>7, <1>8, <1>9, <1>10 DEF PacingInv

\* The clock moves on.
LEMMA TickStep == PacingInv /\ Tick => PacingInv'
<1> SUFFICES ASSUME PacingInv, Tick PROVE PacingInv'
    OBVIOUS
<1>1. now \in Nat /\ now' = now + 1 /\ UNCHANGED <<adapter, registry, limiter, gap>>
    BY DEF PacingInv, PacingTypeOK, Tick
<1>2. PacingTypeOK' /\ Calls' /\ Apart' /\ OneSchedule' /\ Strict' /\ Reserved'
    BY <1>1 DEF PacingInv, PacingTypeOK, Calls, Apart, OneSchedule, Strict, Reserved, Live, Usable
<1>3. Waited'
  <2> SUFFICES ASSUME NEW w \in Venues, NEW j \in gap[w].heard
               PROVE  \/ gap[w].at + j <= now'
                      \/ registry[w] # Absent /\ gap[w].at + j <= limiter[registry[w]].next
    BY <1>1 DEF Waited
  <2>1. gap[w].at \in Nat /\ j \in Nat
    BY DEF PacingInv, PacingTypeOK
  <2> QED
    BY <1>1, <2>1 DEF PacingInv, Waited
<1> QED
    BY <1>2, <1>3 DEF PacingInv

\* The invariant is inductive.
LEMMA StepIInv == PacingInv /\ [PacingNext]_pacingVars => PacingInv'
<1> SUFFICES ASSUME PacingInv, [PacingNext]_pacingVars PROVE PacingInv'
    OBVIOUS
<1>1. ASSUME NEW a \in Adapters, Collect(a) PROVE PacingInv'
    BY <1>1, QuietAdapterStep DEF PacingInv, PacingTypeOK, Collect, NoAdapter, AdapterRecs, AdapterPCs
<1>2. ASSUME NEW a \in Adapters, Request(a) PROVE PacingInv'
  <2>1. adapter' = [adapter EXCEPT ![a].pc = "acquiring"] /\ adapter[a].pc = "ready" /\ adapter[a].lim # Absent
    BY <1>2 DEF Request
  <2>2. adapter' \in [Adapters -> AdapterRecs]
    BY <2>1 DEF PacingInv, PacingTypeOK, AdapterRecs, AdapterPCs
  <2> QED
    BY <1>2, <2>1, <2>2, QuietAdapterStep DEF PacingInv, PacingTypeOK, Request, AdapterRecs, InSlot, Usable, Live
<1>3. ASSUME NEW a \in Adapters, Dispatch(a) PROVE PacingInv'
  <2>1. adapter' = [adapter EXCEPT ![a].pc = "dispatching"] /\ adapter[a].pc = "pacing"
    BY <1>3 DEF Dispatch
  <2>2. adapter' \in [Adapters -> AdapterRecs]
    BY <2>1 DEF PacingInv, PacingTypeOK, AdapterRecs, AdapterPCs
  <2> QED
    BY <1>3, <2>1, <2>2, QuietAdapterStep DEF PacingInv, PacingTypeOK, Dispatch, AdapterRecs, InSlot, Usable, Live
<1>4. ASSUME NEW a \in Adapters, Acquire(a) PROVE PacingInv'
    BY <1>4, HolderStep DEF Acquire, AdapterPCs, InSlot
<1>5. ASSUME NEW a \in Adapters, GiveUp(a) PROVE PacingInv'
  <2>1. CASE limiter[adapter[a].lim].holder = a
    BY <1>5, <2>1, HolderStep DEF GiveUp, AdapterPCs, InSlot
  <2>2. CASE limiter[adapter[a].lim].holder # a
    <3>1. adapter[a].pc = "acquiring" /\ adapter' = [adapter EXCEPT ![a].pc = "ready"]
          /\ UNCHANGED <<now, registry, limiter, gap>>
      BY <1>5, <2>2 DEF PacingInv, Calls, InSlot, GiveUp
    <3>2. adapter' \in [Adapters -> AdapterRecs]
      BY <3>1 DEF PacingInv, PacingTypeOK, AdapterRecs, AdapterPCs
    <3> QED
      BY <3>1, <3>2, QuietAdapterStep DEF PacingInv, PacingTypeOK, AdapterRecs, InSlot, Usable, Live
  <2> QED
    BY <2>1, <2>2
<1>6. CASE UNCHANGED pacingVars
    BY <1>6 DEF pacingVars, PacingInv, PacingTypeOK, Calls, Apart, OneSchedule, Strict, Reserved, Waited, Live, Usable
<1> QED
    BY <1>1, <1>2, <1>3, <1>4, <1>5, <1>6, LookupStep, ConstructStep, ReturnStep, TickStep DEF PacingNext

\* The invariant holds for every instance.
LEMMA PacingInvariance == PacingSpec => []PacingInv
  BY InitPacingInv, StepIInv, PTL DEF PacingSpec

-----------------------------------------------------------------------------
\* Every variable keeps its type (RateLimiter, _shared_rate_limiters).
THEOREM PacingTypeCorrect == PacingSpec => []PacingTypeOK
<1>1. PacingInv => PacingTypeOK
    BY DEF PacingInv
<1> QED
    BY <1>1, PacingInvariance, PTL

\* All pacing adapters of a venue share the registry's schedule: no live owner is evicted
\* (_venue_rate_limiter).
THEOREM LiveOwnersKeepTheirSchedule == PacingSpec => []OneSchedule
<1>1. PacingInv => OneSchedule
    BY DEF PacingInv
<1> QED
    BY <1>1, PacingInvariance, PTL

\* Two paced requests of a venue never overlap (request_slot, _venue_rate_limiter).
THEOREM RequestsAreSerialized == PacingSpec => []OneInFlight
<1>1. PacingInv => OneInFlight
  <2> SUFFICES ASSUME PacingInv, NEW a \in Adapters, NEW b \in Adapters,
                      adapter[a].pc = "dispatching", adapter[b].pc = "dispatching",
                      adapter[a].venue = adapter[b].venue
               PROVE  a = b
    BY DEF OneInFlight
  <2>1. adapter[a].lim = adapter[b].lim
    BY DEF PacingInv, Calls, OneSchedule, Live, InSlot
  <2> QED
    BY <2>1 DEF PacingInv, Calls, InSlot
<1> QED
    BY <1>1, PacingInvariance, PTL

\* A constructed adapter is waited for as long as it asked, whatever was reserved before
\* (strengthen_interval).
THEOREM IntervalsAreHonoured == PacingSpec => []IntervalsHonoured
<1>1. PacingInv => IntervalsHonoured
  <2> SUFFICES ASSUME PacingInv, NEW a \in Adapters, Usable(a), adapter[a].lim # Absent
               PROVE  /\ adapter[a].interval <= limiter[adapter[a].lim].interval
                      /\ limiter[adapter[a].lim].last > 0 =>
                            limiter[adapter[a].lim].next >= limiter[adapter[a].lim].last + adapter[a].interval
    BY DEF IntervalsHonoured
  <2>1. /\ adapter[a].lim \in Limiters /\ adapter[a].interval \in Nat
        /\ limiter[adapter[a].lim] \in LimiterRecs
        /\ adapter[a].venue \in Venues /\ registry[adapter[a].venue] = adapter[a].lim
    BY DEF PacingInv, PacingTypeOK, AdapterRecs, Calls, OneSchedule, Usable, Live
  <2> QED
    BY <2>1 DEF PacingInv, Strict, Reserved, LimiterRecs
<1> QED
    BY <1>1, PacingInvariance, PTL

\* Paced requests of a venue are as far apart as any of its adapters relied on
\* (_wait_for_interval, request_slot).
THEOREM RequestsArePacedApart == PacingSpec => PacedApart
<1>1. PacingInv /\ [PacingNext]_pacingVars =>
        [\A a \in Adapters :
            adapter[a].pc = "pacing" /\ adapter'[a].pc = "dispatching"
                => LET g == gap[adapter[a].venue] IN \A i \in g.heard : g.at + i <= now]_pacingVars
  <2> SUFFICES ASSUME PacingInv, PacingNext, NEW a \in Adapters,
                      adapter[a].pc = "pacing", adapter'[a].pc = "dispatching",
                      NEW i \in gap[adapter[a].venue].heard
               PROVE  gap[adapter[a].venue].at + i <= now
    BY DEF pacingVars
  <2>1. Dispatch(a)
    <3>1. adapter \in [Adapters -> AdapterRecs]
      BY DEF PacingInv, PacingTypeOK
    <3>2. ASSUME NEW b \in Adapters, NEW v \in Venues, NEW k \in Intervals, Lookup(b, v, k)
          PROVE  FALSE
      <4>1. adapter[b].pc = "dead"
        BY <3>2 DEF Lookup, Live
      <4>2. adapter'[a] = adapter[a]
        BY <3>1, <3>2, <4>1 DEF Lookup
      <4> QED
        BY <4>2
    <3>3. ASSUME NEW b \in Adapters, b # a PROVE ~ (Construct(b) \/ Collect(b) \/ Request(b) \/ Acquire(b)
                                                  \/ Dispatch(b) \/ GiveUp(b) \/ Return(b))
      BY <3>1, <3>3 DEF Construct, Collect, Request, Acquire, Dispatch, GiveUp, Return
    <3>4. ~ (Construct(a) \/ Collect(a) \/ Request(a) \/ Acquire(a) \/ GiveUp(a) \/ Return(a))
      <4>1. adapter[a] \in AdapterRecs
        BY <3>1
      <4>2. ~ (Construct(a) \/ Request(a) \/ Acquire(a) \/ Return(a))
        BY DEF Construct, Request, Acquire, Return
      <4>3. ~ Collect(a)
        BY DEF Collect
      <4>4. ~ GiveUp(a)
        BY <3>1, <4>1 DEF GiveUp, AdapterRecs
      <4> QED
        BY <4>2, <4>3, <4>4
    <3> QED
      BY <3>2, <3>3, <3>4 DEF PacingNext, Tick
  <2>2. /\ adapter[a].venue \in Venues /\ adapter[a].lim \in Limiters
        /\ registry[adapter[a].venue] = adapter[a].lim
        /\ limiter[adapter[a].lim].next <= now
    BY <2>1 DEF PacingInv, PacingTypeOK, AdapterRecs, Calls, OneSchedule, Live, InSlot, Dispatch, MayDispatch
  <2>3. /\ gap[adapter[a].venue].at \in Nat /\ i \in Nat /\ now \in Nat
        /\ limiter[adapter[a].lim].next \in Nat
    BY <2>2 DEF PacingInv, PacingTypeOK, LimiterRecs
  <2> QED
    BY <2>2, <2>3 DEF PacingInv, Waited
<1> QED
    BY <1>1, PacingInvariance, PTL DEF PacingSpec, PacedApart

HIDE PacingAssumption DEF PacingAssumption

-----------------------------------------------------------------------------
(***************************************************************************)
(* Proofs about RequestControl for any requests, connections, lookup slots *)
(* and retries.  The argument: a connection a request watches is its own   *)
(* or closed (Guarded), so an abort cuts nobody else's; a request that may *)
(* block is watched from before it blocks until its connection is cut      *)
(* (Watched); and who is woken by a cut finds the reason recorded (Cuts).  *)
(***************************************************************************)

\* Where a caller has a connection; "failing" may have one.
Using == {"attaching", "arming", "starting", "exchanging", "releasing", "putting"}

\* A connection and the caller that uses it know each other.
Wires ==
    /\ \A r \in Requests : sock[r] # None => /\ socket[sock[r]] = r
                                             /\ pc[r] \in Using \cup {"failing"}
    /\ \A s \in Sockets, r \in Requests : socket[s] = r => sock[r] = s
    /\ \A r \in Requests : pc[r] \in Using => sock[r] # None

\* What a request watches is its own, or closed.
Guarded ==
    /\ \A r \in Requests : \A s \in guards[r] : socket[s] \in {r, "closed"}
    /\ \A r \in Requests : pc[r] = "putting" => sock[r] \notin guards[r]

\* From its arming on a connection is watched or cut.
Watched ==
    \A r \in Requests :
        /\ closed[r] <=> pc[r] \in {"joining", "done"}
        /\ watcher[r] = "ended" => Finished(r)
        /\ watcher[r] = "aborting" => due[r] # "none"
        /\ pc[r] \in {"starting", "exchanging"} =>
              (reason[r] = "none" /\ sock[r] \in guards[r]) \/ shut[sock[r]]
        /\ pc[r] = "exchanging" => watcher[r] # "none" \/ shut[sock[r]]

\* A cut exchange has its reason on record; callers are told last.
Cuts ==
    \A r \in Requests :
        /\ cut[r] => /\ reason[r] # "none" /\ pc[r] \in {"failing", "closing", "joining", "done"}
                     /\ outcome[r] \in Reasons
        /\ outcome[r] # "none" => pc[r] \in {"closing", "joining", "done"}

Core == Wires /\ Guarded /\ OnlyOwnCut /\ Watched /\ Cuts

Looking == {r \in Requests : lookup[r] = "running" \/ pc[r] = "spawning"}
Lookups == LookupsBounded /\ \A r \in Requests : pc[r] # "lookup" => lookup[r] = "none"

ControlInv == TypeOK /\ Core /\ Lookups

\* What check() and an abort of a request may do to what is watched.
Effects(r) ==
    /\ reason' \in [Requests -> Reasons] /\ guards' \in [Requests -> SUBSET Sockets]
    /\ shut' \in [Sockets -> BOOLEAN]
    /\ \A q \in Requests : q # r => guards'[q] = guards[q] /\ reason'[q] = reason[q]
    /\ guards'[r] \subseteq guards[r]
    /\ reason[r] # "none" => reason'[r] = reason[r]
    /\ \A s \in Sockets : shut[s] => shut'[s]
    /\ \A s \in Sockets : shut'[s] => shut[s] \/ (s \in guards[r] /\ reason'[r] # "none")
    /\ \A s \in guards[r] : (s \in guards'[r] /\ reason'[r] = reason[r]) \/ shut'[s]

-----------------------------------------------------------------------------
USE ControlAssumption DEF ControlAssumption

\* Nothing watched changes.
LEMMA NoEffects ==
  ASSUME ControlInv, NEW r \in Requests, UNCHANGED <<reason, guards, shut>>
  PROVE  Effects(r)
  BY DEF ControlInv, TypeOK, Effects

\* An abort: the first reason stays, and cuts what is watched.
LEMMA AbortEffects ==
  ASSUME ControlInv, NEW r \in Requests, Abort(r), Finished(r) \/ due[r] # "none"
  PROVE  Effects(r) /\ (reason'[r] # "none" \/ closed[r])
<1>1. CASE Finished(r)
    BY <1>1, NoEffects DEF Abort, Finished
<1>2. CASE ~Finished(r)
  <2>1. /\ reason' = [reason EXCEPT ![r] = due[r]]
        /\ shut' = [s \in Sockets |-> shut[s] \/ s \in guards[r]]
        /\ guards' = [guards EXCEPT ![r] = {}]
    BY <1>2 DEF Abort
  <2>2. due[r] # "none" /\ reason[r] = "none" /\ due[r] \in Reasons
    BY <1>2 DEF Finished, ControlInv, TypeOK
  <2>3. /\ reason' \in [Requests -> Reasons] /\ guards' \in [Requests -> SUBSET Sockets]
        /\ shut' \in [Sockets -> BOOLEAN] /\ reason'[r] = due[r] /\ guards'[r] = {}
        /\ \A q \in Requests : q # r => guards'[q] = guards[q] /\ reason'[q] = reason[q]
    BY <2>1, <2>2 DEF ControlInv, TypeOK
  <2>4. \A s \in Sockets : shut'[s] <=> shut[s] \/ s \in guards[r]
    BY <2>1
  <2>5. guards[r] \subseteq Sockets
    BY DEF ControlInv, TypeOK
  <2> QED
    BY <2>2, <2>3, <2>4, <2>5 DEF Effects
<1> QED
    BY <1>1, <1>2

\* check(): raise or go on.
LEMMA CheckEffects ==
  ASSUME ControlInv, NEW r \in Requests, Raise(r) \/ \E to \in PCs : Proceed(r, to)
  PROVE  Effects(r)
<1>1. CASE Raise(r)
  <2>1. Abort(r) /\ (Finished(r) \/ due[r] # "none")
    BY <1>1 DEF Raise, Over, Finished
  <2> QED
    BY <2>1, AbortEffects
<1>2. CASE \E to \in PCs : Proceed(r, to)
    BY <1>2, NoEffects DEF Proceed
<1> QED
    BY <1>1, <1>2

\* A caller moves between steps that hold no armed connection.
LEMMA QuietStep ==
  ASSUME ControlInv, NEW r \in Requests, NEW to \in PCs, Effects(r), pc' = [pc EXCEPT ![r] = to],
         UNCHANGED <<sock, cut, due, closed, socket>>,
         \A q \in Requests : \/ watcher'[q] = watcher[q]
                             \/ q = r /\ watcher'[q] = "waiting",
         \A q \in Requests : outcome'[q] = outcome[q] \/ (q = r /\ pc'[q] = "closing"),
         to \notin {"starting", "exchanging", "putting", "joining", "done"},
         pc[r] \notin {"failing", "closing", "joining", "done"},
         pc[r] \in Using => to \in Using \cup {"failing"},
         to \in Using => pc[r] \in Using
  PROVE  Core'
<1>1. /\ pc' \in [Requests -> PCs] /\ pc'[r] = to
      /\ \A q \in Requests : q # r => pc'[q] = pc[q]
    BY DEF ControlInv, TypeOK
<1>2. Wires'
    BY <1>1 DEF ControlInv, Core, Wires
<1>3. Guarded'
    BY <1>1 DEF ControlInv, Core, Guarded, Effects
<1>4. OnlyOwnCut'
    BY DEF ControlInv, Core, OnlyOwnCut, Guarded, Effects, TypeOK
<1>5. ASSUME NEW q \in Requests
      PROVE  /\ closed'[q] <=> pc'[q] \in {"joining", "done"}
             /\ watcher'[q] = "ended" => closed'[q] \/ reason'[q] # "none"
             /\ watcher'[q] = "aborting" => due'[q] # "none"
             /\ pc'[q] \in {"starting", "exchanging"} =>
                   (reason'[q] = "none" /\ sock'[q] \in guards'[q]) \/ shut'[sock'[q]]
             /\ pc'[q] = "exchanging" => watcher'[q] # "none" \/ shut'[sock'[q]]
  <2>1. CASE q = r
    BY <1>1, <2>1 DEF ControlInv, Core, Watched, Finished, Effects
  <2>2. CASE q # r
    <3>1. pc[q] \in {"starting", "exchanging"} => sock[q] \in Sockets
      BY DEF ControlInv, TypeOK, Core, Wires, Using
    <3> QED
      BY <1>1, <2>2, <3>1 DEF ControlInv, Core, Watched, Finished, Effects
  <2> QED
    BY <2>1, <2>2
<1>6. Watched'
    BY <1>5 DEF Watched, Finished
<1>7. Cuts'
    BY <1>1 DEF ControlInv, Core, Cuts, Effects
<1> QED
    BY <1>2, <1>3, <1>4, <1>6, <1>7 DEF Core

\* Lookups go on when nobody spawns, waits anew or stops waiting.
LEMMA LookupsKept ==
  ASSUME ControlInv, UNCHANGED names,
         \A q \in Requests : /\ pc'[q] = "spawning" <=> pc[q] = "spawning"
                             /\ pc'[q] # "lookup" => pc[q] # "lookup"
  PROVE  Lookups'
<1>1. Looking' = Looking
    BY DEF Looking, names
<1> QED
    BY <1>1 DEF ControlInv, Lookups, LookupsBounded, Looking, names

\* A caller's move that leaves the lookups alone.
LEMMA LookupsMove ==
  ASSUME ControlInv, NEW r \in Requests, NEW to \in PCs \ {"spawning", "lookup"}, UNCHANGED names,
         pc' = [pc EXCEPT ![r] = to], pc[r] \notin {"spawning", "lookup"}
  PROVE  Lookups'
<1>1. \A q \in Requests : pc'[q] = IF q = r THEN to ELSE pc[q]
    BY DEF ControlInv, TypeOK
<1> QED
    BY <1>1, LookupsKept

\* Counting the lookups.
LEMMA Count ==
  ASSUME NEW S \in SUBSET Requests, NEW r \in Requests
  PROVE  /\ Cardinality(S) \in Nat
         /\ r \notin S => Cardinality(S \cup {r}) = Cardinality(S) + 1
         /\ r \in S => Cardinality(S \ {r}) = Cardinality(S) - 1
<1>1. IsFiniteSet(S)
    BY FS_Subset
<1> QED
    BY <1>1, FS_AddElement, FS_RemoveElement, FS_CardinalityType

\* Lookups that balance.
LEMMA LookupsNext ==
  ASSUME ControlInv,
         orphans' + Cardinality(Looking') + free' = orphans + Cardinality(Looking) + free,
         \A q \in Requests : pc'[q] # "lookup" => lookup'[q] = "none"
  PROVE  Lookups'
<1>1. orphans + Cardinality(Looking) + free = MaxLookups
    BY DEF ControlInv, Lookups, LookupsBounded, Looking
<1> QED
    BY <1>1 DEF Lookups, LookupsBounded, Looking

\* Nothing has been asked for yet.
LEMMA InitControlInv == Init => ControlInv
<1> SUFFICES ASSUME Init
             PROVE  ControlInv
    OBVIOUS
<1>1. TypeOK
    BY DEF Init, TypeOK, PCs, Reasons
<1>2. Core
    BY DEF Init, Core, Wires, Guarded, OnlyOwnCut, Watched, Cuts, Finished, Using
<1>3. Lookups
  <2>1. Looking = {}
    BY DEF Init, Looking
  <2>2. Cardinality(Looking) = 0
    BY <2>1, FS_EmptySet
  <2> QED
    BY <2>2 DEF Init, Lookups, LookupsBounded, Looking
<1> QED
    BY <1>1, <1>2, <1>3 DEF ControlInv

-----------------------------------------------------------------------------
(* The name.                                                               *)

LEMMA TakeSlotStep ==
  ASSUME ControlInv, NEW r \in Requests, TakeSlot(r)
  PROVE  ControlInv'
<1>1. /\ pc[r] = "slot" /\ free > 0 /\ free' = free - 1 /\ pc' = [pc EXCEPT ![r] = "spawning"]
      /\ UNCHANGED <<count, sock, outcome, cut, due, reason, closed, guards, watcher, lookup,
                     orphans, socket, shut>>
    BY DEF TakeSlot, Goto, control, wires
<1>2. Core'
    BY <1>1, NoEffects, QuietStep DEF PCs, Using
<1>3. TypeOK'
    BY <1>1 DEF ControlInv, TypeOK, PCs
<1>4. Looking' = Looking \cup {r} /\ r \notin Looking
    BY <1>1 DEF Looking, ControlInv, TypeOK, Lookups
<1>5. Cardinality(Looking') = Cardinality(Looking) + 1 /\ Cardinality(Looking) \in Nat
    BY <1>4, Count DEF Looking
<1>6. Lookups'
    BY <1>1, <1>5 DEF ControlInv, TypeOK, Lookups, LookupsBounded, Looking
<1> QED
    BY <1>2, <1>3, <1>6 DEF ControlInv

LEMMA SpawnStep ==
  ASSUME ControlInv, NEW r \in Requests, Spawn(r)
  PROVE  ControlInv'
<1>1. /\ pc[r] = "spawning"
      /\ UNCHANGED <<count, sock, outcome, cut, due, closed, watcher, orphans, socket>>
    BY DEF Spawn
<1>2. /\ \/ pc' = [pc EXCEPT ![r] = "failing"] /\ free' = free + 1 /\ UNCHANGED lookup
         \/ /\ pc' = [pc EXCEPT ![r] = "lookup"] /\ UNCHANGED free
            /\ lookup' = [lookup EXCEPT ![r] = "running"]
    BY DEF Spawn, Raise, Proceed, Goto
<1>3. Effects(r)
    BY CheckEffects DEF Spawn, PCs
<1>4. Core'
    BY <1>1, <1>2, <1>3, QuietStep DEF PCs, Using
<1>5. TypeOK'
    BY <1>1, <1>2, <1>3 DEF ControlInv, TypeOK, Effects, PCs
<1>6. r \in Looking /\ lookup[r] = "none"
    BY <1>1 DEF Looking, ControlInv, Lookups
<1>7. ASSUME pc' = [pc EXCEPT ![r] = "failing"], free' = free + 1, UNCHANGED lookup
      PROVE  Lookups'
  <2>1. Looking' = Looking \ {r}
    BY <1>6, <1>7 DEF Looking, ControlInv, TypeOK
  <2>2. Cardinality(Looking') = Cardinality(Looking) - 1 /\ Cardinality(Looking) \in Nat
    BY <1>6, <2>1, Count DEF Looking
  <2>3. \A q \in Requests : pc'[q] # "lookup" => lookup'[q] = "none"
    BY <1>6, <1>7 DEF ControlInv, TypeOK, Lookups
  <2>4. orphans' + Cardinality(Looking') + free' = orphans + Cardinality(Looking) + free
    BY <1>1, <1>7, <2>2 DEF ControlInv, TypeOK
  <2> QED
    BY <2>3, <2>4, LookupsNext
<1>8. ASSUME pc' = [pc EXCEPT ![r] = "lookup"], UNCHANGED free,
             lookup' = [lookup EXCEPT ![r] = "running"]
      PROVE  Lookups'
  <2>1. Looking' = Looking
    BY <1>6, <1>8 DEF Looking, ControlInv, TypeOK
  <2>2. \A q \in Requests : pc'[q] # "lookup" => lookup'[q] = "none"
    BY <1>8 DEF ControlInv, TypeOK, Lookups
  <2> QED
    BY <1>1, <1>8, <2>1, <2>2, LookupsNext
<1>9. Lookups'
    BY <1>2, <1>7, <1>8
<1> QED
    BY <1>4, <1>5, <1>9 DEF ControlInv

LEMMA ResolveStep ==
  ASSUME ControlInv, NEW r \in Requests, Resolve(r)
  PROVE  ControlInv'
<1>1. /\ lookup[r] = "running" /\ lookup' = [lookup EXCEPT ![r] = "done"] /\ free' = free + 1
      /\ UNCHANGED <<pc, count, sock, outcome, cut, due, reason, closed, guards, watcher,
                     orphans, socket, shut>>
    BY DEF Resolve, caller, control, wires
<1>2. Core'
    BY <1>1 DEF ControlInv, Core, Wires, Guarded, OnlyOwnCut, Watched, Cuts, Finished
<1>3. TypeOK'
    BY <1>1 DEF ControlInv, TypeOK
<1>4. pc[r] = "lookup"
    BY <1>1 DEF ControlInv, Lookups
<1>5. Looking' = Looking \ {r} /\ r \in Looking
    BY <1>1, <1>4 DEF Looking, ControlInv, TypeOK
<1>6. Cardinality(Looking') = Cardinality(Looking) - 1 /\ Cardinality(Looking) \in Nat
    BY <1>5, Count DEF Looking
<1>7. Lookups'
    BY <1>1, <1>4, <1>6 DEF ControlInv, TypeOK, Lookups, LookupsBounded, Looking
<1> QED
    BY <1>2, <1>3, <1>7 DEF ControlInv

LEMMA ResolveOrphanStep ==
  ASSUME ControlInv, ResolveOrphan
  PROVE  ControlInv'
<1>1. /\ orphans > 0 /\ orphans' = orphans - 1 /\ free' = free + 1
      /\ UNCHANGED <<pc, count, sock, outcome, cut, due, reason, closed, guards, watcher,
                     lookup, socket, shut>>
    BY DEF ResolveOrphan, caller, control, wires
<1>2. Core'
    BY <1>1 DEF ControlInv, Core, Wires, Guarded, OnlyOwnCut, Watched, Cuts, Finished
<1>3. TypeOK'
    BY <1>1 DEF ControlInv, TypeOK
<1>4. Looking' = Looking
    BY <1>1 DEF Looking
<1>5. Cardinality(Looking) \in Nat
    BY FS_Subset, FS_CardinalityType DEF Looking
<1>6. Lookups'
    BY <1>1, <1>4, <1>5 DEF ControlInv, TypeOK, Lookups, LookupsBounded, Looking
<1> QED
    BY <1>2, <1>3, <1>6 DEF ControlInv

LEMMA ResolvedStep ==
  ASSUME ControlInv, NEW r \in Requests, Resolved(r)
  PROVE  ControlInv'
<1>1. /\ pc[r] = "lookup" /\ lookup[r] = "done" /\ lookup' = [lookup EXCEPT ![r] = "none"]
      /\ UNCHANGED <<count, sock, outcome, cut, due, closed, watcher, free, orphans, socket>>
    BY DEF Resolved
<1>2. PICK to \in {"connecting", "failing"} : pc' = [pc EXCEPT ![r] = to]
    BY DEF Resolved, Raise, Proceed, Goto
<1>3. Effects(r)
    BY CheckEffects DEF Resolved, PCs
<1>4. Core'
    BY <1>1, <1>2, <1>3, QuietStep DEF PCs, Using
<1>5. TypeOK'
    BY <1>1, <1>2, <1>3 DEF ControlInv, TypeOK, Effects, PCs
<1>6. Looking' = Looking
    BY <1>1, <1>2 DEF Looking, ControlInv, TypeOK
<1>7. LookupsBounded'
    BY <1>1, <1>6 DEF ControlInv, Lookups, LookupsBounded, Looking
<1>8. \A q \in Requests : pc'[q] # "lookup" => lookup'[q] = "none"
    BY <1>1, <1>2 DEF ControlInv, TypeOK, Lookups
<1> QED
    BY <1>4, <1>5, <1>7, <1>8 DEF ControlInv, Lookups

LEMMA AbandonStep ==
  ASSUME ControlInv, NEW r \in Requests, Abandon(r)
  PROVE  ControlInv'
<1>1. /\ pc[r] \in {"slot", "lookup"} /\ pc' = [pc EXCEPT ![r] = "failing"]
      /\ lookup' = [lookup EXCEPT ![r] = "none"]
      /\ orphans' = IF lookup[r] = "running" THEN orphans + 1 ELSE orphans
      /\ UNCHANGED <<count, sock, outcome, cut, due, closed, watcher, free, socket>>
    BY DEF Abandon, Raise, Goto
<1>2. Effects(r)
    BY CheckEffects DEF Abandon
<1>3. Core'
    BY <1>1, <1>2, QuietStep DEF PCs, Using
<1>4. TypeOK'
  <2>1. orphans' \in Nat
    BY <1>1 DEF ControlInv, TypeOK
  <2>2. /\ pc' \in [Requests -> PCs]
        /\ lookup' \in [Requests -> {"none", "running", "done"}]
    BY <1>1 DEF ControlInv, TypeOK, PCs
  <2> QED
    BY <1>1, <1>2, <2>1, <2>2 DEF ControlInv, TypeOK, Effects
<1>0. \A q \in Requests : pc'[q] # "lookup" => lookup'[q] = "none"
    BY <1>1 DEF ControlInv, TypeOK, Lookups
<1>5. ASSUME lookup[r] = "running"
      PROVE  Lookups'
  <2>1. Looking' = Looking \ {r} /\ r \in Looking
    BY <1>1, <1>5 DEF Looking, ControlInv, TypeOK
  <2>2. Cardinality(Looking') = Cardinality(Looking) - 1 /\ Cardinality(Looking) \in Nat
    BY <2>1, Count DEF Looking
  <2>3. orphans' + Cardinality(Looking') + free' = orphans + Cardinality(Looking) + free
    BY <1>1, <1>5, <2>2 DEF ControlInv, TypeOK
  <2> QED
    BY <1>0, <2>3, LookupsNext
<1>6. ASSUME lookup[r] # "running"
      PROVE  Lookups'
  <2>1. Looking' = Looking
    BY <1>1, <1>6 DEF Looking, ControlInv, TypeOK
  <2> QED
    BY <1>0, <1>1, <1>6, <2>1, LookupsNext
<1> QED
    BY <1>3, <1>4, <1>5, <1>6 DEF ControlInv

-----------------------------------------------------------------------------
(* The connection.                                                         *)

\* A caller that moves by check() alone, with or without an outcome.
LEMMA CheckStep ==
  ASSUME ControlInv, NEW r \in Requests, NEW to \in PCs \ {"spawning", "lookup"},
         Raise(r) \/ Proceed(r, to), pc' = [pc EXCEPT ![r] = to] \/ pc' = [pc EXCEPT ![r] = "failing"],
         UNCHANGED <<count, sock, cut, due, closed, names, socket>>,
         outcome' \in [Requests -> Reasons \cup {"ok", "error"}],
         \A q \in Requests : outcome'[q] = outcome[q] \/ (q = r /\ pc'[q] = "closing"),
         watcher' = watcher \/ watcher' = [watcher EXCEPT ![r] = "waiting"],
         to \notin {"starting", "exchanging", "putting", "joining", "done"},
         pc[r] \notin {"spawning", "lookup", "failing", "closing", "joining", "done"},
         pc[r] \in Using => to \in Using \cup {"failing"},
         to \in Using => pc[r] \in Using
  PROVE  ControlInv'
<1>1. PICK next \in {to, "failing"} : pc' = [pc EXCEPT ![r] = next]
    OBVIOUS
<1>2. Effects(r)
    BY CheckEffects
<1>3. /\ watcher' \in [Requests -> {"none", "waiting", "aborting", "ended"}]
      /\ \A q \in Requests : watcher'[q] = watcher[q] \/ (q = r /\ watcher'[q] = "waiting")
    BY DEF ControlInv, TypeOK
<1>4. next \in PCs \ {"spawning", "lookup"}
    BY DEF PCs
<1>5. Core'
    BY <1>1, <1>2, <1>3, <1>4, QuietStep DEF Using
<1>6. Lookups'
    BY <1>1, <1>4, LookupsMove
<1>7. TypeOK'
    BY <1>1, <1>2, <1>3, <1>4 DEF ControlInv, TypeOK, Effects, names
<1> QED
    BY <1>5, <1>6, <1>7 DEF ControlInv

LEMMA StartStep == ASSUME ControlInv, NEW r \in Requests, Start(r)
  PROVE  ControlInv'
<1>1. /\ Raise(r) \/ Proceed(r, "slot")
      /\ pc' = [pc EXCEPT ![r] = "slot"] \/ pc' = [pc EXCEPT ![r] = "failing"]
    BY DEF Start, Raise, Proceed, Goto
<1>2. /\ pc[r] = "idle"
      /\ UNCHANGED <<count, sock, outcome, cut, due, closed, watcher, names, socket>>
    BY DEF Start
<1> QED
    BY <1>1, <1>2, CheckStep DEF PCs, Using, ControlInv, TypeOK

LEMMA AttachStep == ASSUME ControlInv, NEW r \in Requests, Attach(r)
  PROVE  ControlInv'
<1>1. PICK to \in {"arming", "failing"} :
        /\ Raise(r) \/ Proceed(r, to)
        /\ pc' = [pc EXCEPT ![r] = to] \/ pc' = [pc EXCEPT ![r] = "failing"]
    BY DEF Attach, Raise, Proceed, Goto
<1>2. /\ pc[r] = "attaching"
      /\ UNCHANGED <<count, sock, outcome, cut, due, closed, watcher, names, socket>>
    BY DEF Attach
<1> QED
    BY <1>1, <1>2, CheckStep DEF PCs, Using, ControlInv, TypeOK

LEMMA CheckingStep == ASSUME ControlInv, NEW r \in Requests, Check(r)
  PROVE  ControlInv'
<1>1. PICK to \in {"closing", "sleeping"} :
        /\ Raise(r) \/ Proceed(r, to)
        /\ pc' = [pc EXCEPT ![r] = to] \/ pc' = [pc EXCEPT ![r] = "failing"]
    BY DEF Check, Raise, Proceed, Goto
<1>2. /\ pc[r] = "checking"
      /\ \/ outcome' = outcome
         \/ outcome' = [outcome EXCEPT ![r] = "ok"] /\ pc' = [pc EXCEPT ![r] = "closing"]
      /\ UNCHANGED <<count, sock, cut, due, closed, watcher, names, socket>>
    BY DEF Check, Proceed, Goto
<1>3. /\ outcome' \in [Requests -> Reasons \cup {"ok", "error"}]
      /\ \A q \in Requests : outcome'[q] = outcome[q] \/ (q = r /\ pc'[q] = "closing")
    BY <1>2 DEF ControlInv, TypeOK
<1> QED
    BY <1>1, <1>2, <1>3, CheckStep DEF PCs, Using

LEMMA SleepStep == ASSUME ControlInv, NEW r \in Requests, Sleep(r)
  PROVE  ControlInv'
<1>1. PICK to \in {"slot", "failing"} :
        /\ Raise(r) \/ Proceed(r, to)
        /\ pc' = [pc EXCEPT ![r] = to] \/ pc' = [pc EXCEPT ![r] = "failing"]
    BY DEF Sleep, Raise, Proceed, Goto
<1>2. /\ pc[r] = "sleeping"
      /\ UNCHANGED <<count, sock, outcome, cut, due, closed, names, socket>>
    BY DEF Sleep
<1>3. watcher' = watcher \/ watcher' = [watcher EXCEPT ![r] = "waiting"]
    BY DEF Sleep, ControlInv, TypeOK
<1> QED
    BY <1>1, <1>2, <1>3, CheckStep DEF PCs, Using, ControlInv, TypeOK

\* A connection nobody watches is handed to the caller.
LEMMA ConnectStep == ASSUME ControlInv, NEW r \in Requests, Connect(r)
  PROVE  ControlInv'
<1>1. /\ pc[r] = "connecting"
      /\ UNCHANGED <<outcome, cut, due, closed, watcher, lookup, free, orphans>>
    BY DEF Connect, names
<1>2. CASE (Raise(r) \/ Proceed(r, "failing")) /\ UNCHANGED <<count, sock, socket>>
  <2>1. pc' = [pc EXCEPT ![r] = "failing"]
    BY <1>2 DEF Raise, Proceed, Goto
  <2> QED
    BY <1>1, <1>2, <2>1, CheckStep DEF PCs, Using, ControlInv, TypeOK, names
<1>3. CASE \E s \in Sockets :
            /\ \/ socket[s] = "pooled" /\ ~shut[s] /\ UNCHANGED shut
               \/ /\ socket[s] = "closed" /\ \A q \in Requests : s \notin guards[q]
                  /\ shut' = [shut EXCEPT ![s] = FALSE]
            /\ ~Over(r) /\ Goto(r, "attaching") /\ UNCHANGED <<reason, guards>>
            /\ socket' = [socket EXCEPT ![s] = r]
            /\ sock' = [sock EXCEPT ![r] = s]
            /\ count' = [count EXCEPT ![r] = @ + 1]
  <2>1. PICK s \in Sockets :
            /\ socket[s] \in {"pooled", "closed"} /\ \A q \in Requests : s \notin guards[q]
            /\ shut' = [shut EXCEPT ![s] = FALSE]
            /\ pc' = [pc EXCEPT ![r] = "attaching"] /\ UNCHANGED <<reason, guards>>
            /\ socket' = [socket EXCEPT ![s] = r]
            /\ sock' = [sock EXCEPT ![r] = s]
            /\ count' = [count EXCEPT ![r] = @ + 1]
    <3>1. \A s \in Sockets : ~shut[s] => shut = [shut EXCEPT ![s] = FALSE]
      BY DEF ControlInv, TypeOK
    <3>2. \A s \in Sockets : socket[s] = "pooled" => \A q \in Requests : s \notin guards[q]
      BY DEF ControlInv, Core, Guarded
    <3> QED
      BY <1>3, <3>1, <3>2 DEF Goto
  <2>2. TypeOK'
    BY <1>1, <2>1 DEF ControlInv, TypeOK, PCs
  <2>3. /\ sock'[r] = s /\ socket'[s] = r /\ pc'[r] = "attaching" /\ ~shut'[s]
        /\ \A q \in Requests : q # r => sock'[q] = sock[q] /\ pc'[q] = pc[q]
        /\ \A t \in Sockets : t # s => socket'[t] = socket[t] /\ shut'[t] = shut[t]
    BY <2>1 DEF ControlInv, TypeOK
  <2>4. \A q \in Requests : sock[q] # s /\ sock[r] = None
    BY <1>1, <2>1 DEF ControlInv, Core, Wires, Using
  <2>5. Wires'
    BY <2>3, <2>4 DEF ControlInv, TypeOK, Core, Wires, Using
  <2>6. Guarded'
    <3>1. \A q \in Requests : \A t \in guards[q] : t \in Sockets /\ t # s
      BY <2>1 DEF ControlInv, TypeOK
    <3>2. \A q \in Requests : pc'[q] = "putting" => q # r /\ sock'[q] = sock[q] /\ pc[q] = "putting"
      BY <2>3
    <3> QED
      BY <2>1, <2>3, <3>1, <3>2 DEF ControlInv, Core, Guarded
  <2>7. OnlyOwnCut'
    BY <2>1, <2>3 DEF ControlInv, Core, OnlyOwnCut
  <2>8. \A q \in Requests : pc[q] \in {"starting", "exchanging"} => sock[q] \in Sockets /\ sock[q] # s
    BY <2>4 DEF ControlInv, TypeOK, Core, Wires, Using
  <2>9. Watched'
    BY <1>1, <2>1, <2>3, <2>8 DEF ControlInv, TypeOK, Core, Watched, Finished
  <2>10. Cuts'
    BY <1>1, <2>1, <2>3 DEF ControlInv, Core, Cuts
  <2>11. Lookups'
    BY <1>1, <2>1, LookupsMove DEF PCs, names
  <2> QED
    BY <2>2, <2>5, <2>6, <2>7, <2>9, <2>10, <2>11 DEF ControlInv, Core
<1> QED
    BY <1>2, <1>3 DEF Connect

\* A pooled connection is used and watched by nobody.
LEMMA DropStep == ASSUME ControlInv, NEW s \in Sockets, Drop(s)
  PROVE  ControlInv'
<1>1. /\ socket[s] = "pooled" /\ socket' = [socket EXCEPT ![s] = "closed"]
      /\ UNCHANGED <<pc, count, sock, outcome, cut, due, reason, closed, guards, watcher,
                     lookup, free, orphans, shut>>
    BY DEF Drop, caller, control, names
<1>2. TypeOK'
    BY <1>1 DEF ControlInv, TypeOK
<1>3. \A t \in Sockets : socket'[t] = IF t = s THEN "closed" ELSE socket[t]
    BY <1>1 DEF ControlInv, TypeOK
<1>4. \A q \in Requests : sock[q] # s
    BY <1>1 DEF ControlInv, Core, Wires
<1>5. Core'
    BY <1>1, <1>3, <1>4
    DEF ControlInv, TypeOK, Core, Wires, Guarded, OnlyOwnCut, Watched, Cuts, Finished
<1>6. Lookups'
    BY <1>1, LookupsKept DEF names
<1> QED
    BY <1>2, <1>5, <1>6 DEF ControlInv

\* The guard is attached only while the request is not over.
LEMMA ArmStep == ASSUME ControlInv, NEW r \in Requests, Arm(r)
  PROVE  ControlInv'
<1>1. /\ pc[r] = "arming"
      /\ UNCHANGED <<count, sock, outcome, cut, due, reason, closed, watcher, names, socket, shut>>
    BY DEF Arm, wires
<1>2. CASE Finished(r) /\ Goto(r, "failing") /\ UNCHANGED guards
  <2>1. Core'
    BY <1>1, <1>2, NoEffects, QuietStep DEF PCs, Using, Goto
  <2>2. Lookups'
    BY <1>1, <1>2, LookupsMove DEF PCs, Goto
  <2>3. TypeOK'
    BY <1>1, <1>2 DEF ControlInv, TypeOK, Goto, PCs, names
  <2> QED
    BY <2>1, <2>2, <2>3 DEF ControlInv
<1>3. CASE /\ ~Finished(r) /\ guards' = [guards EXCEPT ![r] = @ \cup {sock[r]}]
           /\ Goto(r, "starting")
  <2>1. sock[r] \in Sockets /\ socket[sock[r]] = r
    BY <1>1 DEF ControlInv, TypeOK, Core, Wires, Using
  <2>2. TypeOK'
    BY <1>1, <1>3, <2>1 DEF ControlInv, TypeOK, Goto, PCs, names
  <2>3. /\ pc'[r] = "starting" /\ guards'[r] = guards[r] \cup {sock[r]}
        /\ \A q \in Requests : q # r => pc'[q] = pc[q] /\ guards'[q] = guards[q]
    BY <1>3 DEF ControlInv, TypeOK, Goto
  <2>4. Wires'
    BY <1>1, <2>3 DEF ControlInv, Core, Wires, Using
  <2>5. Guarded'
    BY <1>1, <2>1, <2>3 DEF ControlInv, Core, Guarded
  <2>6. OnlyOwnCut'
    BY <1>1 DEF ControlInv, Core, OnlyOwnCut
  <2>7. reason[r] = "none"
    BY <1>3 DEF Finished
  <2>8. Watched'
    BY <1>1, <2>3, <2>7 DEF ControlInv, Core, Watched, Finished
  <2>9. Cuts'
    BY <1>1, <2>3 DEF ControlInv, Core, Cuts
  <2>10. Lookups'
    BY <1>1, <1>3, LookupsMove DEF PCs, Goto
  <2> QED
    BY <2>2, <2>4, <2>5, <2>6, <2>8, <2>9, <2>10 DEF ControlInv, Core
<1> QED
    BY <1>2, <1>3 DEF Arm

\* A watcher starts, or the connection is disarmed.
LEMMA StartWatcherStep == ASSUME ControlInv, NEW r \in Requests, StartWatcher(r)
  PROVE  ControlInv'
<1>1. /\ pc[r] = "starting"
      /\ UNCHANGED <<count, sock, outcome, cut, due, reason, closed, names, socket, shut>>
    BY DEF StartWatcher, wires
<1>2. ~closed[r] /\ sock[r] \in Sockets
    BY <1>1 DEF ControlInv, TypeOK, Core, Watched, Wires, Using
<1>3. CASE /\ pc' = [pc EXCEPT ![r] = "exchanging"] /\ UNCHANGED guards
           /\ watcher'[r] # "none" \/ reason[r] # "none"
           /\ watcher' = watcher \/ watcher' = [watcher EXCEPT ![r] = "waiting"]
  <2>1. TypeOK'
    BY <1>1, <1>3 DEF ControlInv, TypeOK, PCs, names
  <2>2. /\ pc'[r] = "exchanging" /\ \A q \in Requests : q # r => pc'[q] = pc[q]
        /\ \A q \in Requests : watcher'[q] = watcher[q] \/ (q = r /\ watcher'[q] = "waiting")
    BY <1>3 DEF ControlInv, TypeOK
  <2>3. Wires' /\ Guarded' /\ OnlyOwnCut' /\ Cuts'
    BY <1>1, <1>3, <2>2 DEF ControlInv, Core, Wires, Guarded, OnlyOwnCut, Cuts, Using
  <2>4. Watched'
    BY <1>1, <1>3, <2>2 DEF ControlInv, Core, Watched, Finished
  <2>5. Lookups'
    BY <1>1, <1>3, LookupsMove DEF PCs
  <2> QED
    BY <2>1, <2>3, <2>4, <2>5 DEF ControlInv, Core
<1>4. CASE /\ guards' = [guards EXCEPT ![r] = @ \ {sock[r]}]
           /\ pc' = [pc EXCEPT ![r] = "failing"] /\ UNCHANGED watcher
  <2>1. TypeOK'
    BY <1>1, <1>4 DEF ControlInv, TypeOK, PCs, names
  <2>2. /\ pc'[r] = "failing" /\ guards'[r] \subseteq guards[r]
        /\ \A q \in Requests : q # r => pc'[q] = pc[q] /\ guards'[q] = guards[q]
    BY <1>4 DEF ControlInv, TypeOK
  <2>3. Wires' /\ Guarded' /\ OnlyOwnCut' /\ Cuts'
    BY <1>1, <1>4, <2>2 DEF ControlInv, Core, Wires, Guarded, OnlyOwnCut, Cuts, Using
  <2>4. Watched'
    BY <1>1, <1>4, <2>2 DEF ControlInv, Core, Watched, Finished
  <2>5. Lookups'
    BY <1>1, <1>4, LookupsMove DEF PCs
  <2> QED
    BY <2>1, <2>3, <2>4, <2>5 DEF ControlInv, Core
<1>5. \/ /\ pc' = [pc EXCEPT ![r] = "exchanging"] /\ UNCHANGED guards
         /\ watcher'[r] # "none" \/ reason[r] # "none"
         /\ watcher' = watcher \/ watcher' = [watcher EXCEPT ![r] = "waiting"]
      \/ /\ guards' = [guards EXCEPT ![r] = @ \ {sock[r]}]
         /\ pc' = [pc EXCEPT ![r] = "failing"] /\ UNCHANGED watcher
    BY <1>2 DEF StartWatcher, Goto, Finished, ControlInv, TypeOK
<1> QED
    BY <1>3, <1>4, <1>5

\* An exchange ends: by an answer, an error of its own, or a cut.
LEMMA ExchangeStep == ASSUME ControlInv, NEW r \in Requests, Answer(r) \/ Break(r) \/ Wake(r)
  PROVE  ControlInv'
<1>1. /\ pc[r] = "exchanging"
      /\ UNCHANGED <<count, sock, outcome, due, reason, closed, guards, watcher,
                     lookup, free, orphans, socket, shut>>
    BY DEF Answer, Break, Wake, control, names, wires
<1>2. PICK to \in {"releasing", "failing"} :
         /\ pc' = [pc EXCEPT ![r] = to]
         /\ \/ cut' = cut
            \/ to = "failing" /\ shut[sock[r]] /\ cut' = [cut EXCEPT ![r] = TRUE]
    BY DEF Answer, Break, Wake, Goto
<1>3. /\ pc'[r] = to /\ \A q \in Requests : q # r => pc'[q] = pc[q] /\ cut'[q] = cut[q]
    BY <1>2 DEF ControlInv, TypeOK
<1>4. sock[r] \in Sockets /\ socket[sock[r]] = r
    BY <1>1 DEF ControlInv, TypeOK, Core, Wires, Using
<1>5. TypeOK'
    BY <1>1, <1>2 DEF ControlInv, TypeOK, PCs
<1>6. Wires' /\ Guarded' /\ OnlyOwnCut'
    BY <1>1, <1>2, <1>3 DEF ControlInv, Core, Wires, Guarded, OnlyOwnCut, Using
<1>7. Watched'
    BY <1>1, <1>2, <1>3 DEF ControlInv, Core, Watched, Finished
<1>8. shut[sock[r]] => reason[r] # "none"
    BY <1>4 DEF ControlInv, Core, OnlyOwnCut
<1>9. outcome[r] \in Reasons
    BY <1>1 DEF ControlInv, Core, Cuts, Reasons
<1>10. Cuts'
    BY <1>1, <1>2, <1>3, <1>8, <1>9 DEF ControlInv, Core, Cuts
<1>11. Lookups'
    BY <1>1, <1>2, LookupsMove DEF PCs, names
<1> QED
    BY <1>5, <1>6, <1>7, <1>10, <1>11 DEF ControlInv, Core

\* A connection that is kept is disarmed before it is offered to others.
LEMMA ReleaseStep == ASSUME ControlInv, NEW r \in Requests, Release(r)
  PROVE  ControlInv'
<1>1. /\ pc[r] = "releasing"
      /\ UNCHANGED <<count, outcome, cut, due, reason, closed, watcher, names, shut>>
    BY DEF Release
<1>2. sock[r] \in Sockets /\ socket[sock[r]] = r
    BY <1>1 DEF ControlInv, TypeOK, Core, Wires, Using
<1>3. CASE /\ Goto(r, "putting") /\ guards' = [guards EXCEPT ![r] = @ \ {sock[r]}]
           /\ UNCHANGED <<sock, socket>>
  <2>1. TypeOK'
    BY <1>1, <1>3 DEF ControlInv, TypeOK, Goto, PCs, names
  <2>2. /\ pc'[r] = "putting" /\ guards'[r] = guards[r] \ {sock[r]}
        /\ \A q \in Requests : q # r => pc'[q] = pc[q] /\ guards'[q] = guards[q]
    BY <1>3 DEF ControlInv, TypeOK, Goto
  <2>3. Wires' /\ Guarded' /\ OnlyOwnCut' /\ Cuts'
    BY <1>1, <1>3, <2>2 DEF ControlInv, Core, Wires, Guarded, OnlyOwnCut, Cuts, Using
  <2>4. Watched'
    BY <1>1, <1>3, <2>2 DEF ControlInv, Core, Watched, Finished
  <2>5. Lookups'
    BY <1>1, <1>3, LookupsMove DEF PCs, Goto
  <2> QED
    BY <2>1, <2>3, <2>4, <2>5 DEF ControlInv, Core
<1>4. CASE /\ Goto(r, "checking") /\ socket' = [socket EXCEPT ![sock[r]] = "closed"]
           /\ sock' = [sock EXCEPT ![r] = None] /\ UNCHANGED guards
  <2>1. TypeOK'
    BY <1>1, <1>2, <1>4 DEF ControlInv, TypeOK, Goto, PCs, names
  <2>2. /\ pc'[r] = "checking" /\ sock'[r] = None /\ socket'[sock[r]] = "closed"
        /\ \A q \in Requests : q # r => pc'[q] = pc[q] /\ sock'[q] = sock[q]
        /\ \A t \in Sockets : t # sock[r] => socket'[t] = socket[t]
    BY <1>2, <1>4 DEF ControlInv, TypeOK, Goto
  <2>3. \A q \in Requests : q # r => sock[q] # sock[r]
    BY <1>2 DEF ControlInv, Core, Wires
  <2>4. Wires'
    BY <1>1, <1>2, <2>2, <2>3 DEF ControlInv, TypeOK, Core, Wires, Using
  <2>5. Guarded'
    BY <1>1, <1>2, <1>4, <2>2 DEF ControlInv, TypeOK, Core, Guarded
  <2>6. OnlyOwnCut'
    BY <1>1, <1>2, <2>2 DEF ControlInv, Core, OnlyOwnCut
  <2>7. Watched'
    BY <1>1, <1>4, <2>2 DEF ControlInv, Core, Watched, Finished
  <2>8. Cuts'
    BY <1>1, <2>2 DEF ControlInv, Core, Cuts
  <2>9. Lookups'
    BY <1>1, <1>4, LookupsMove DEF PCs, Goto
  <2> QED
    BY <2>1, <2>4, <2>5, <2>6, <2>7, <2>8, <2>9 DEF ControlInv, Core
<1> QED
    BY <1>3, <1>4 DEF Release

LEMMA PutStep == ASSUME ControlInv, NEW r \in Requests, Put(r)
  PROVE  ControlInv'
<1>1. /\ pc[r] = "putting" /\ Goto(r, "checking")
      /\ socket' = [socket EXCEPT ![sock[r]] = "pooled"] /\ sock' = [sock EXCEPT ![r] = None]
      /\ UNCHANGED <<count, outcome, cut, due, reason, closed, guards, watcher, names, shut>>
    BY DEF Put, control
<1>2. sock[r] \in Sockets /\ socket[sock[r]] = r /\ sock[r] \notin guards[r]
    BY <1>1 DEF ControlInv, TypeOK, Core, Wires, Using, Guarded
<1>3. TypeOK'
    BY <1>1, <1>2 DEF ControlInv, TypeOK, Goto, PCs, names
<1>4. /\ pc'[r] = "checking" /\ sock'[r] = None /\ socket'[sock[r]] = "pooled"
      /\ \A q \in Requests : q # r => pc'[q] = pc[q] /\ sock'[q] = sock[q]
      /\ \A t \in Sockets : t # sock[r] => socket'[t] = socket[t]
    BY <1>1, <1>2 DEF ControlInv, TypeOK, Goto
<1>5. \A q \in Requests : q # r => sock[q] # sock[r]
    BY <1>2 DEF ControlInv, Core, Wires
<1>6. \A q \in Requests : sock[r] \notin guards[q]
    BY <1>2 DEF ControlInv, Core, Guarded
<1>7. Wires'
    BY <1>1, <1>2, <1>4, <1>5 DEF ControlInv, TypeOK, Core, Wires, Using
<1>8. Guarded'
    BY <1>1, <1>4, <1>6 DEF ControlInv, TypeOK, Core, Guarded
<1>9. OnlyOwnCut'
    BY <1>1, <1>2, <1>4 DEF ControlInv, Core, OnlyOwnCut
<1>10. Watched'
    BY <1>1, <1>4 DEF ControlInv, Core, Watched, Finished
<1>11. Cuts'
    BY <1>1, <1>4 DEF ControlInv, Core, Cuts
<1>12. Lookups'
    BY <1>1, LookupsMove DEF PCs, Goto
<1> QED
    BY <1>3, <1>7, <1>8, <1>9, <1>10, <1>11, <1>12 DEF ControlInv, Core

-----------------------------------------------------------------------------
(* The end.                                                                *)

\* Who fails closes the connection, and is told the reason there is.
LEMMA FailStep == ASSUME ControlInv, NEW r \in Requests, Fail(r)
  PROVE  ControlInv'
<1>1. /\ pc[r] = "failing"
      /\ socket' = IF sock[r] = None THEN socket ELSE [socket EXCEPT ![sock[r]] = "closed"]
      /\ sock' = [sock EXCEPT ![r] = None]
      /\ UNCHANGED <<count, cut, due, closed, watcher, names>>
    BY DEF Fail
<1>2. Effects(r)
  <2>1. CASE Over(r) /\ Abort(r)
    BY <2>1, AbortEffects DEF Over, Finished
  <2>2. CASE UNCHANGED <<reason, guards, shut>>
    BY <2>2, NoEffects
  <2> QED
    BY <2>1, <2>2 DEF Fail, Proceed
<1>3. PICK to \in {"closing", "sleeping"} :
        /\ pc' = [pc EXCEPT ![r] = to]
        /\ \/ outcome' = [outcome EXCEPT ![r] = reason'[r]] /\ to = "closing"
           \/ outcome' = [outcome EXCEPT ![r] = "error"] /\ to = "closing" /\ ~Over(r)
           \/ outcome' = outcome /\ to = "sleeping" /\ ~Over(r)
    BY DEF Fail, Proceed, Goto
<1>4. /\ pc'[r] = to /\ sock'[r] = None
      /\ \A q \in Requests : q # r => pc'[q] = pc[q] /\ sock'[q] = sock[q] /\ outcome'[q] = outcome[q]
      /\ \A t \in Sockets : socket'[t] = IF t = sock[r] THEN "closed" ELSE socket[t]
    BY <1>1, <1>3 DEF ControlInv, TypeOK
<1>5. TypeOK'
  <2>1. outcome' \in [Requests -> Reasons \cup {"ok", "error"}]
    BY <1>2, <1>3 DEF ControlInv, TypeOK, Effects
  <2>2. socket' \in [Sockets -> Requests \cup {"closed", "pooled"}]
    BY <1>1 DEF ControlInv, TypeOK
  <2> QED
    BY <1>1, <1>2, <1>3, <2>1, <2>2 DEF ControlInv, TypeOK, Effects, PCs, names
<1>6. \A q \in Requests : q # r /\ sock[q] # None => sock[q] # sock[r]
    BY DEF ControlInv, Core, Wires
<1>7. Wires'
    BY <1>1, <1>4, <1>6 DEF ControlInv, TypeOK, Core, Wires, Using
<1>8. Guarded'
    BY <1>1, <1>2, <1>4, <1>6 DEF ControlInv, TypeOK, Core, Guarded, Effects
<1>9. OnlyOwnCut'
    BY <1>2, <1>4 DEF ControlInv, TypeOK, Core, OnlyOwnCut, Guarded, Effects
<1>10. \A q \in Requests : pc[q] \in {"starting", "exchanging"} => sock[q] \in Sockets
    BY DEF ControlInv, TypeOK, Core, Wires, Using
<1>11. Watched'
    BY <1>1, <1>2, <1>4, <1>10 DEF ControlInv, Core, Watched, Finished, Effects
<1>12. cut[r] => Over(r) /\ to = "closing" /\ outcome'[r] = reason'[r] /\ reason'[r] \in Reasons
    BY <1>2, <1>3 DEF ControlInv, TypeOK, Core, Cuts, Over, Effects
<1>13. Cuts'
  <2> SUFFICES ASSUME NEW q \in Requests
               PROVE  /\ cut'[q] => /\ reason'[q] # "none"
                                    /\ pc'[q] \in {"failing", "closing", "joining", "done"}
                                    /\ outcome'[q] \in Reasons
                      /\ outcome'[q] # "none" => pc'[q] \in {"closing", "joining", "done"}
    BY DEF Cuts
  <2>1. CASE q = r
    <3>1. to = "closing" \/ outcome'[r] = "none"
      BY <1>1, <1>3 DEF ControlInv, Core, Cuts
    <3>2. cut[r] => reason[r] # "none"
      BY DEF ControlInv, Core, Cuts
    <3> QED
      BY <1>1, <1>2, <1>4, <1>12, <2>1, <3>1, <3>2 DEF Effects
  <2>2. CASE q # r
    BY <1>1, <1>2, <1>4, <2>2 DEF ControlInv, Core, Cuts, Effects
  <2> QED
    BY <2>1, <2>2
<1>14. Lookups'
    BY <1>1, <1>3, LookupsMove DEF PCs
<1> QED
    BY <1>5, <1>7, <1>8, <1>9, <1>11, <1>13, <1>14 DEF ControlInv, Core

\* Closing ends what is watched, joining waits for the watcher.
LEMMA CloseStep == ASSUME ControlInv, NEW r \in Requests, Close(r) \/ Join(r)
  PROVE  ControlInv'
<1>1. PICK to \in {"joining", "done"} :
        /\ pc[r] \in {"closing", "joining"} /\ pc' = [pc EXCEPT ![r] = to]
        /\ closed' = [closed EXCEPT ![r] = TRUE]
        /\ \A q \in Requests : guards'[q] = IF q = r THEN guards'[q] ELSE guards[q]
        /\ guards' \in [Requests -> SUBSET Sockets] /\ guards'[r] \subseteq guards[r]
        /\ UNCHANGED <<count, sock, outcome, cut, due, reason, watcher, names, socket, shut>>
  <2>1. CASE Close(r)
    BY <2>1 DEF Close, Goto, wires, ControlInv, TypeOK
  <2>2. CASE Join(r)
    <3>1. closed = [closed EXCEPT ![r] = TRUE]
      BY <2>2 DEF Join, ControlInv, TypeOK, Core, Watched
    <3> QED
      BY <2>2, <3>1 DEF Join, Goto, wires, control, ControlInv, TypeOK
  <2> QED
    BY <2>1, <2>2
<1>2. /\ pc'[r] = to /\ closed'[r]
      /\ \A q \in Requests : q # r => pc'[q] = pc[q] /\ closed'[q] = closed[q] /\ guards'[q] = guards[q]
    BY <1>1 DEF ControlInv, TypeOK
<1>3. TypeOK'
    BY <1>1 DEF ControlInv, TypeOK, PCs, names
<1>4. Wires' /\ Guarded' /\ OnlyOwnCut' /\ Cuts'
    BY <1>1, <1>2 DEF ControlInv, Core, Wires, Guarded, OnlyOwnCut, Cuts, Using
<1>5. Watched'
    BY <1>1, <1>2 DEF ControlInv, Core, Watched, Finished
<1>6. Lookups'
    BY <1>1, LookupsMove DEF PCs
<1> QED
    BY <1>3, <1>4, <1>5, <1>6 DEF ControlInv, Core

\* The watcher aborts what its request still watches.
LEMMA WatchStep == ASSUME ControlInv, NEW r \in Requests, Watch(r)
  PROVE  ControlInv'
<1>1. UNCHANGED <<pc, count, sock, outcome, cut, due, closed, lookup, free, orphans, socket>>
    BY DEF Watch, Look, WatcherAbort, caller, names, wires
<1>2. Effects(r)
  <2>1. CASE Look(r)
    BY <2>1, NoEffects DEF Look, wires
  <2>2. CASE WatcherAbort(r)
    <3>1. due[r] # "none" /\ Abort(r)
      BY <2>2 DEF WatcherAbort, ControlInv, Core, Watched
    <3> QED
      BY <3>1, AbortEffects
  <2> QED
    BY <2>1, <2>2 DEF Watch
<1>3. /\ watcher[r] # "none"
      /\ \/ watcher' = [watcher EXCEPT ![r] = "ended"] /\ (reason'[r] # "none" \/ closed[r])
         \/ watcher' = [watcher EXCEPT ![r] = "aborting"] /\ due[r] # "none"
  <2>1. CASE Look(r)
    BY <2>1 DEF Look, Finished
  <2>2. CASE WatcherAbort(r)
    <3>1. due[r] # "none" /\ Abort(r)
      BY <2>2 DEF WatcherAbort, ControlInv, Core, Watched
    <3> QED
      BY <2>2, <3>1, AbortEffects DEF WatcherAbort
  <2> QED
    BY <2>1, <2>2 DEF Watch
<1>4. TypeOK'
    BY <1>1, <1>2, <1>3 DEF ControlInv, TypeOK, Effects
<1>5. Wires' /\ Guarded' /\ Cuts'
    BY <1>1, <1>2 DEF ControlInv, Core, Wires, Guarded, Cuts, Effects
<1>6. OnlyOwnCut'
    BY <1>1, <1>2 DEF ControlInv, TypeOK, Core, OnlyOwnCut, Guarded, Effects
<1>7. \A q \in Requests : pc[q] \in {"starting", "exchanging"} => sock[q] \in Sockets
    BY DEF ControlInv, TypeOK, Core, Wires, Using
<1>8. \A q \in Requests : q # r => watcher'[q] = watcher[q]
    BY <1>3 DEF ControlInv, TypeOK
<1>9. watcher'[r] # "none" /\ (watcher'[r] = "aborting" => due[r] # "none")
      /\ (watcher'[r] = "ended" => reason'[r] # "none" \/ closed[r])
    BY <1>3 DEF ControlInv, TypeOK
<1>10. Watched'
  <2> SUFFICES ASSUME NEW q \in Requests
               PROVE  /\ closed'[q] <=> pc'[q] \in {"joining", "done"}
                      /\ watcher'[q] = "ended" => closed'[q] \/ reason'[q] # "none"
                      /\ watcher'[q] = "aborting" => due'[q] # "none"
                      /\ pc'[q] \in {"starting", "exchanging"} =>
                            (reason'[q] = "none" /\ sock'[q] \in guards'[q]) \/ shut'[sock'[q]]
                      /\ pc'[q] = "exchanging" => watcher'[q] # "none" \/ shut'[sock'[q]]
    BY DEF Watched, Finished
  <2>1. CASE q = r
    BY <1>1, <1>2, <1>7, <1>9, <2>1 DEF ControlInv, Core, Watched, Effects
  <2>2. CASE q # r
    BY <1>1, <1>2, <1>7, <1>8, <2>2 DEF ControlInv, Core, Watched, Finished, Effects
  <2> QED
    BY <2>1, <2>2
<1>11. Lookups'
    BY <1>1, LookupsKept DEF names
<1> QED
    BY <1>4, <1>5, <1>6, <1>10, <1>11 DEF ControlInv, Core

\* The clock and the cancellation only set what check() will find.
LEMMA DueStep == ASSUME ControlInv, NEW r \in Requests, Expire(r) \/ Cancel(r)
  PROVE  ControlInv'
<1>1. UNCHANGED <<pc, count, sock, outcome, cut, reason, closed, guards, watcher,
                  lookup, free, orphans, socket, shut>>
    BY DEF Expire, Cancel, caller, names, wires
<1>2. /\ due' \in [Requests -> Reasons]
      /\ \A q \in Requests : due[q] # "none" => due'[q] # "none"
    BY DEF Expire, Cancel, ControlInv, TypeOK, Reasons
<1>3. TypeOK'
    BY <1>1, <1>2 DEF ControlInv, TypeOK
<1>4. Core'
    BY <1>1, <1>2 DEF ControlInv, Core, Wires, Guarded, OnlyOwnCut, Watched, Cuts, Finished
<1>5. Lookups'
    BY <1>1, LookupsKept DEF names
<1> QED
    BY <1>3, <1>4, <1>5 DEF ControlInv

-----------------------------------------------------------------------------
\* Every step keeps the invariant.
LEMMA NextIInv == ControlInv /\ [Next]_vars => ControlInv'
<1> SUFFICES ASSUME ControlInv, [Next]_vars
             PROVE  ControlInv'
    OBVIOUS
<1>1. ASSUME NEW r \in Requests, Own(r)
      PROVE  ControlInv'
    BY <1>1, StartStep, TakeSlotStep, SpawnStep, ResolvedStep, AbandonStep, ConnectStep, AttachStep,
       ArmStep, StartWatcherStep, ExchangeStep, ReleaseStep, PutStep, CheckingStep, SleepStep,
       FailStep, CloseStep DEF Own
<1>2. ASSUME NEW r \in Requests,
             Watch(r) \/ Resolve(r) \/ Answer(r) \/ Break(r) \/ Expire(r) \/ Cancel(r)
      PROVE  ControlInv'
    BY <1>2, WatchStep, ResolveStep, ExchangeStep, DueStep
<1>3. CASE UNCHANGED vars
  <2>1. UNCHANGED <<pc, count, sock, outcome, cut, due, reason, closed, guards, watcher,
                    lookup, free, orphans, socket, shut>>
    BY <1>3 DEF vars, caller, control, names, wires
  <2>2. TypeOK' /\ Core'
    BY <2>1 DEF ControlInv, TypeOK, Core, Wires, Guarded, OnlyOwnCut, Watched, Cuts, Finished
  <2>3. Lookups'
    BY <2>1, LookupsKept DEF names
  <2> QED
    BY <2>2, <2>3 DEF ControlInv
<1> QED
    BY <1>1, <1>2, <1>3, ResolveOrphanStep, DropStep DEF Next

\* The inductive invariant of request control, for any requests, connections,
\* lookup slots and retries.
THEOREM ControlInvariance == Spec => []ControlInv
<1> QED
    BY InitControlInv, NextIInv, PTL DEF Spec

\* The request's, watcher's and pool's states keep their types
\* (core/request_control.py RequestControl).
THEOREM ControlTypeCorrect == Spec => []TypeOK
<1>1. ControlInv => TypeOK
    BY DEF ControlInv
<1> QED
    BY <1>1, ControlInvariance, PTL

\* An abort cuts no connection that another request uses (watch_socket,
\* release_request_control).
THEOREM AbortsCutTheirOwn == Spec => []OnlyOwnCut
<1>1. ControlInv => OnlyOwnCut
    BY DEF ControlInv, Core
<1> QED
    BY <1>1, ControlInvariance, PTL

\* Whoever is blocked in an exchange is watched by a live watcher, or cut
\* already (_start_watcher, _watch).
THEOREM BlockedAreWatched == Spec => []NobodyUnwatched
<1>1. ControlInv => NobodyUnwatched
  <2> SUFFICES ASSUME ControlInv, NEW r \in Requests, pc[r] = "exchanging"
               PROVE  \/ sock[r] \in guards[r] /\ watcher[r] \in {"waiting", "aborting"}
                      \/ shut[sock[r]]
    BY DEF NobodyUnwatched
  <2> QED
    BY DEF ControlInv, TypeOK, Core, Watched, Finished
<1> QED
    BY <1>1, ControlInvariance, PTL

\* An exchange an abort has cut is reported as that abort (the check of the
\* exception path in polymarket/http_client.py).
THEOREM CutsReported == Spec => []CutsAreReported
<1>1. ControlInv => CutsAreReported
    BY DEF ControlInv, Core, Cuts, CutsAreReported, Reasons
<1> QED
    BY <1>1, ControlInvariance, PTL

\* Resolver threads never exceed the slots, abandoned ones included
\* (_dns_slots of core/request_control.py).
THEOREM SlotsBalance == Spec => []LookupsBounded
<1>1. ControlInv => LookupsBounded
    BY DEF ControlInv, Lookups
<1> QED
    BY <1>1, ControlInvariance, PTL

HIDE ControlAssumption DEF ControlAssumption

-----------------------------------------------------------------------------
(***************************************************************************)
(* Proofs about MarketStream for any callers, tokens and number of starts. *)
(* The argument: a start waits for the last thread to die, so whatever is  *)
(* registered or marked is the only thread's, and a stop, which looks under *)
(* the lock that registers, finds it.                                      *)
(***************************************************************************)

\* Generations to come are untouched, and so are their stop events.
Future ==
    /\ stopped \subseteq 0..generation
    /\ \A g \in Generations : step[g] \in {"none", "ended"} => conn[g] # "open"

\* The registered connection is that of the thread, for as long as it uses it.
KnownToThread ==
    \A g \in Generations :
        /\ ws = g => step[g] \in Busy \cup {"closing"}
        /\ step[g] \in Busy => ws = g

\* The mark is the thread's, and goes before its connection is closed.
Marked ==
    \A g \in Generations : marked = g => step[g] \in Subscribed \cup {"closing"} /\ g \notin stopped

\* A thread's connection is open until the thread, or a stop, closes it.
Held ==
    \A g \in Generations :
        step[g] \in Busy \cup {"opened", "closing"} => conn[g] = "open" \/ g \in stopped

\* A stop closes connections of what is stopped only.
Aimed == \A c \in Callers : stopping[c] \in Generations => stopping[c] \in stopped

\* What the client believes it sent is what its connection carried.
Believed ==
    \A g \in Generations : step[g] \in Subscribed \cup {"marking"} => peer[g] = sent[g]

StreamInv ==
    /\ StreamTypeOK /\ OneThread /\ NothingLeaks /\ StopReaches
    /\ Future /\ KnownToThread /\ Marked /\ Held /\ Aimed /\ Believed

-----------------------------------------------------------------------------
USE StreamAssumption DEF StreamAssumption, Generations

\* Before the first start there is nothing to lose.
LEMMA InitStreamInv == StreamInit => StreamInv
  BY DEF StreamInit, StreamInv, StreamTypeOK, OneThread, NothingLeaks, StopReaches, Future, KnownToThread, Marked, Held,
         Aimed, Believed, Alive, Busy, Subscribed

\* A change of the subscription touches no thread.
LEMMA ChangeStep ==
  ASSUME StreamInv, NEW new \in SUBSET Tokens, Change(new)
  PROVE  StreamInv'
  BY DEF Change, lifecycle, thread, StreamInv, StreamTypeOK, OneThread, NothingLeaks, StopReaches, Future,
         KnownToThread, Marked, Held, Aimed, Believed

\* A start meets no living thread.
LEMMA StartThreadStep ==
  ASSUME StreamInv, NEW c \in Callers, StartThread(c)
  PROVE  StreamInv'
<1> DEFINE n == generation + 1
<1>1. /\ n \in Generations /\ n # generation /\ n \notin stopped
      /\ generation' = n /\ marked' = NoGeneration
      /\ UNCHANGED <<tokens, changes, stopped, ws, conn, sent, want, peer, stopping>>
    BY DEF StartThread, subscription, thread, StreamInv, StreamTypeOK, Future
<1>2. \A g \in Generations : step[g] \notin Alive
    BY DEF StartThread, StreamInv, OneThread
<1>3. PICK started \in {"looping", "ended"} : step' = [step EXCEPT ![n] = started]
    BY DEF StartThread
<1>4. /\ step' \in [Generations -> Alive \cup {"none", "ended"}]
      /\ step'[n] \in {"looping", "ended"}
      /\ \A g \in Generations : g # n => step'[g] = step[g]
    BY <1>1, <1>3 DEF StreamInv, StreamTypeOK, Alive
<1>5. \A g \in Generations : conn[g] # "open"
    BY <1>2 DEF StreamInv, StreamTypeOK, NothingLeaks, Alive
<1> HIDE DEF n
<1>6. StreamTypeOK' /\ OneThread' /\ Future'
    BY <1>1, <1>2, <1>4, <1>5 DEF StreamInv, StreamTypeOK, OneThread, Future, n
<1>7. NothingLeaks' /\ Aimed' /\ Marked'
    BY <1>1, <1>5 DEF StreamInv, NothingLeaks, Aimed, Marked
<1>8. StopReaches' /\ KnownToThread' /\ Held' /\ Believed'
    BY <1>1, <1>2, <1>4 DEF StreamInv, StreamTypeOK, StopReaches, KnownToThread, Held, Believed, Alive, Busy, Subscribed
<1> QED
    BY <1>6, <1>7, <1>8 DEF StreamInv

\* A stop finds the connection of the thread it stops.
LEMMA StopStep ==
  ASSUME StreamInv, NEW c \in Callers, Stop(c)
  PROVE  StreamInv'
<1>1. /\ stopped' = stopped \cup {generation} /\ marked' = NoGeneration
      /\ stopping' = [stopping EXCEPT ![c] = ws] /\ stopping[c] = Idle
      /\ UNCHANGED <<tokens, changes, generation, ws, step, conn, sent, want, peer>>
    BY DEF Stop, subscription, thread
<1>2. ws \in Generations => ws = generation
    BY DEF StreamInv, OneThread, KnownToThread, Alive, Busy, Subscribed
<1>3. StreamTypeOK' /\ OneThread' /\ NothingLeaks' /\ KnownToThread' /\ Marked' /\ Held' /\ Believed'
    BY <1>1 DEF StreamInv, StreamTypeOK, OneThread, NothingLeaks, KnownToThread, Marked, Held, Believed
<1>4. Future' /\ Aimed'
    BY <1>1, <1>2 DEF StreamInv, StreamTypeOK, Future, Aimed
<1>5. StopReaches'
  <2> SUFFICES ASSUME NEW g \in stopped', step[g] \in Busy, conn[g] # "closed"
               PROVE  \E d \in Callers : stopping'[d] = g
    BY <1>1 DEF StopReaches
  <2>1. CASE g = generation
    BY <1>1, <2>1 DEF StreamInv, StreamTypeOK, KnownToThread
  <2>2. CASE g # generation
    BY <1>1, <2>2 DEF StreamInv, StreamTypeOK, OneThread, Alive
  <2> QED
    BY <2>1, <2>2
<1> QED
    BY <1>3, <1>4, <1>5 DEF StreamInv

\* Closing what is stopped harms nobody.
LEMMA StopCloseStep ==
  ASSUME StreamInv, NEW c \in Callers, StopClose(c)
  PROVE  StreamInv'
<1>1. /\ stopping' = [stopping EXCEPT ![c] = Idle]
      /\ UNCHANGED <<tokens, changes, generation, stopped, ws, marked, step, sent, want, peer>>
    BY DEF StopClose, subscription, lifecycle
<1>2. /\ conn' \in [Generations -> {"none", "open", "closed"}]
      /\ \A g \in Generations : conn'[g] = IF stopping[c] = g THEN "closed" ELSE conn[g]
    BY DEF StopClose, StreamInv, StreamTypeOK
<1>3. StreamTypeOK' /\ OneThread' /\ KnownToThread' /\ Marked' /\ Believed'
    BY <1>1, <1>2 DEF StreamInv, StreamTypeOK, OneThread, KnownToThread, Marked, Believed
<1>4. NothingLeaks' /\ Future' /\ Held' /\ Aimed'
    BY <1>1, <1>2 DEF StreamInv, StreamTypeOK, NothingLeaks, Future, Held, Aimed
<1>5. StopReaches'
    BY <1>1, <1>2 DEF StreamInv, StreamTypeOK, StopReaches
<1> QED
    BY <1>3, <1>4, <1>5 DEF StreamInv

\* What a step of the living thread g has to see to: itself.
Mine(g) ==
    /\ step[g] \in Alive \cup {"ended"}
    /\ conn[g] = "open" => step[g] \in Busy \cup {"opened", "closing", "dropping"}
    /\ ws = g => step[g] \in Busy \cup {"closing"}
    /\ step[g] \in Busy => ws = g
    /\ marked = g => step[g] \in Subscribed \cup {"closing"} /\ g \notin stopped
    /\ step[g] \in Busy \cup {"opened", "closing"} => conn[g] = "open" \/ g \in stopped
    /\ step[g] \in Busy /\ g \in stopped => conn[g] = "closed" \/ \E c \in Callers : stopping[c] = g
    /\ step[g] \in Subscribed \cup {"marking"} => peer[g] = sent[g]

\* Others are as they were.
Others(g) ==
    /\ UNCHANGED <<tokens, changes, generation, stopped, stopping>>
    /\ ws' \in {ws, g, NoGeneration} /\ marked' \in {marked, g, NoGeneration}
    /\ \A h \in Generations \ {g} :
        /\ step'[h] = step[h] /\ conn'[h] = conn[h] /\ peer'[h] = peer[h] /\ sent'[h] = sent[h]

\* That is enough for the invariant.
LEMMA MoveStep ==
  ASSUME StreamInv, NEW g \in Generations, g = generation, StreamTypeOK', Others(g), Mine(g)'
  PROVE  StreamInv'
<1>1. OneThread' /\ NothingLeaks' /\ Future'
    BY DEF Others, Mine, StreamInv, StreamTypeOK, OneThread, NothingLeaks, Future, Alive, Busy, Subscribed
<1>0. \A h \in Generations \ {g} : step[h] \notin Busy \cup {"closing"} /\ NoGeneration # h
    BY DEF StreamInv, OneThread, Alive
<1>2. KnownToThread' /\ Marked'
  <2> SUFFICES ASSUME NEW h \in Generations, h # g
               PROVE  /\ ws' = h => step'[h] \in Busy \cup {"closing"}
                      /\ step'[h] \in Busy => ws' = h
                      /\ marked' = h => step'[h] \in Subscribed \cup {"closing"} /\ h \notin stopped'
    BY DEF Mine, KnownToThread, Marked
  <2> QED
    BY <1>0 DEF Others, StreamInv, KnownToThread, Marked
<1>3. Held' /\ Believed'
  <2> SUFFICES ASSUME NEW h \in Generations, h # g
               PROVE  /\ step'[h] \in Busy \cup {"opened", "closing"} => conn'[h] = "open" \/ h \in stopped'
                      /\ step'[h] \in Subscribed \cup {"marking"} => peer'[h] = sent'[h]
    BY DEF Mine, Held, Believed
  <2> QED
    BY DEF Others, StreamInv, Held, Believed
<1>5. Aimed'
    BY DEF Others, StreamInv, Aimed
<1>4. StopReaches'
    BY DEF Others, Mine, StreamInv, StreamTypeOK, StopReaches
<1> QED
    BY <1>1, <1>2, <1>3, <1>4, <1>5 DEF StreamInv

\* A step of a living thread moves that thread alone.
LEMMA ThreadStep ==
  ASSUME StreamInv, NEW g \in Generations, Thread(g)
  PROVE  StreamInv'
<1> USE DEF StepTo, subscription, lifecycle, thread, Alive, Busy, Subscribed
<1>0. step[g] \in Alive /\ g = generation
    BY DEF Thread, Loop, Open, Register, Snapshot, SendFirst, Mark, Sync, Unsubscribe, Subscribe,
           Receive, Clear, DropConnection, StreamInv, OneThread
<1>m. Mine(g)
    BY <1>0 DEF StreamInv, Mine, NothingLeaks, KnownToThread, Marked, Held, StopReaches, Believed
<1>t. StreamTypeOK
    BY DEF StreamInv
<1>1. CASE Loop(g)
  <2>1. StreamTypeOK'
    BY <1>0, <1>t, <1>1 DEF Loop, StreamTypeOK
  <2>2. Others(g)
    BY <1>0, <1>t, <1>1 DEF Loop, StreamTypeOK, Others
  <2>3. Mine(g)'
    BY <1>0, <1>t, <1>m, <1>1 DEF Loop, StreamTypeOK, Mine
  <2> QED
    BY <1>0, <2>1, <2>2, <2>3, MoveStep
<1>2. CASE Open(g)
  <2>1. StreamTypeOK'
    BY <1>0, <1>t, <1>2 DEF Open, StreamTypeOK
  <2>2. Others(g)
    BY <1>0, <1>t, <1>2 DEF Open, StreamTypeOK, Others
  <2>3. Mine(g)'
    BY <1>0, <1>t, <1>m, <1>2 DEF Open, StreamTypeOK, Mine
  <2> QED
    BY <1>0, <2>1, <2>2, <2>3, MoveStep
<1>3. CASE Register(g)
  <2>1. StreamTypeOK'
    BY <1>0, <1>t, <1>3 DEF Register, StreamTypeOK
  <2>2. Others(g)
    BY <1>0, <1>t, <1>3 DEF Register, StreamTypeOK, Others
  <2>3. Mine(g)'
    BY <1>0, <1>t, <1>m, <1>3 DEF Register, StreamTypeOK, Mine
  <2> QED
    BY <1>0, <2>1, <2>2, <2>3, MoveStep
<1>4. CASE Snapshot(g)
  <2>1. StreamTypeOK'
    BY <1>0, <1>t, <1>4 DEF Snapshot, StreamTypeOK
  <2>2. Others(g)
    BY <1>0, <1>t, <1>4 DEF Snapshot, StreamTypeOK, Others
  <2>3. Mine(g)'
    BY <1>0, <1>t, <1>m, <1>4 DEF Snapshot, StreamTypeOK, Mine
  <2> QED
    BY <1>0, <2>1, <2>2, <2>3, MoveStep
<1>5. CASE SendFirst(g)
  <2>1. StreamTypeOK'
    BY <1>0, <1>t, <1>5 DEF SendFirst, Send, StreamTypeOK
  <2>2. Others(g)
    BY <1>0, <1>t, <1>5 DEF SendFirst, Send, StreamTypeOK, Others
  <2>3. Mine(g)'
    BY <1>0, <1>t, <1>m, <1>5 DEF SendFirst, Send, StreamTypeOK, Mine
  <2> QED
    BY <1>0, <2>1, <2>2, <2>3, MoveStep
<1>6. CASE Mark(g)
  <2>1. StreamTypeOK'
    BY <1>0, <1>t, <1>6 DEF Mark, StreamTypeOK
  <2>2. Others(g)
    BY <1>0, <1>t, <1>6 DEF Mark, StreamTypeOK, Others
  <2>3. Mine(g)'
    BY <1>0, <1>t, <1>m, <1>6 DEF Mark, StreamTypeOK, Mine
  <2> QED
    BY <1>0, <2>1, <2>2, <2>3, MoveStep
<1>7. CASE Sync(g)
  <2>0. want' \in [Generations -> SUBSET Tokens]
    BY <1>t, <1>7 DEF Sync, StreamTypeOK
  <2>1. StreamTypeOK'
    BY <1>0, <1>t, <1>7, <2>0 DEF Sync, StreamTypeOK
  <2>2. Others(g)
    BY <1>0, <1>t, <1>7 DEF Sync, StreamTypeOK, Others
  <2>3. Mine(g)'
    BY <1>0, <1>t, <1>m, <1>7 DEF Sync, StreamTypeOK, Mine
  <2> QED
    BY <1>0, <2>1, <2>2, <2>3, MoveStep
<1>8. CASE Unsubscribe(g)
  <2>1. StreamTypeOK'
    BY <1>0, <1>t, <1>8 DEF Unsubscribe, Send, StreamTypeOK
  <2>2. Others(g)
    BY <1>0, <1>t, <1>8 DEF Unsubscribe, Send, StreamTypeOK, Others
  <2>a. ASSUME Send(g, peer[g] \cap want[g], sent[g] \cap want[g], "subscribing") PROVE Mine(g)'
    <3>1. step[g] = "unsubscribing" /\ UNCHANGED <<generation, stopped, ws, marked, conn, stopping>>
        BY <1>8 DEF Unsubscribe
    <3>2. CASE /\ StepTo(g, "subscribing")
               /\ peer' = [peer EXCEPT ![g] = peer[g] \cap want[g]] /\ sent' = [sent EXCEPT ![g] = sent[g] \cap want[g]]
        BY <1>t, <1>m, <3>1, <3>2 DEF StreamTypeOK, Mine
    <3>3. CASE UNCHANGED <<peer, sent>> /\ StepTo(g, "closing")
        BY <1>t, <1>m, <3>1, <3>3 DEF StreamTypeOK, Mine
    <3> QED
        BY <2>a, <3>2, <3>3 DEF Send
  <2>b. ASSUME UNCHANGED <<peer, sent>> /\ StepTo(g, "subscribing") PROVE Mine(g)'
    BY <1>0, <1>t, <1>m, <1>8, <2>b DEF Unsubscribe, StreamTypeOK, Mine
  <2>3. Mine(g)'
    BY <1>8, <2>a, <2>b DEF Unsubscribe
  <2> QED
    BY <1>0, <2>1, <2>2, <2>3, MoveStep
<1>9. CASE Subscribe(g)
  <2>1. StreamTypeOK'
    BY <1>0, <1>t, <1>9 DEF Subscribe, Send, StreamTypeOK
  <2>2. Others(g)
    BY <1>0, <1>t, <1>9 DEF Subscribe, Send, StreamTypeOK, Others
  <2>a. ASSUME Send(g, peer[g] \cup want[g], sent[g] \cup want[g], "receiving") PROVE Mine(g)'
    <3>1. step[g] = "subscribing" /\ UNCHANGED <<generation, stopped, ws, marked, conn, stopping>>
        BY <1>9 DEF Subscribe
    <3>2. CASE /\ StepTo(g, "receiving")
               /\ peer' = [peer EXCEPT ![g] = peer[g] \cup want[g]] /\ sent' = [sent EXCEPT ![g] = sent[g] \cup want[g]]
        BY <1>t, <1>m, <3>1, <3>2 DEF StreamTypeOK, Mine
    <3>3. CASE UNCHANGED <<peer, sent>> /\ StepTo(g, "closing")
        BY <1>t, <1>m, <3>1, <3>3 DEF StreamTypeOK, Mine
    <3> QED
        BY <2>a, <3>2, <3>3 DEF Send
  <2>b. ASSUME UNCHANGED <<peer, sent>> /\ StepTo(g, "receiving") PROVE Mine(g)'
    BY <1>0, <1>t, <1>m, <1>9, <2>b DEF Subscribe, StreamTypeOK, Mine
  <2>3. Mine(g)'
    BY <1>9, <2>a, <2>b DEF Subscribe
  <2> QED
    BY <1>0, <2>1, <2>2, <2>3, MoveStep
<1>10. CASE Receive(g)
  <2>1. StreamTypeOK'
    BY <1>0, <1>t, <1>10 DEF Receive, StreamTypeOK
  <2>2. Others(g)
    BY <1>0, <1>t, <1>10 DEF Receive, StreamTypeOK, Others
  <2>3. Mine(g)'
    BY <1>0, <1>t, <1>m, <1>10 DEF Receive, StreamTypeOK, Mine
  <2> QED
    BY <1>0, <2>1, <2>2, <2>3, MoveStep
<1>11. CASE Clear(g)
  <2>1. StreamTypeOK'
    BY <1>0, <1>t, <1>11 DEF Clear, StreamTypeOK
  <2>2. Others(g)
    BY <1>0, <1>t, <1>11 DEF Clear, StreamTypeOK, Others
  <2>3. Mine(g)'
    BY <1>0, <1>t, <1>m, <1>11 DEF Clear, StreamTypeOK, Mine
  <2> QED
    BY <1>0, <2>1, <2>2, <2>3, MoveStep
<1>12. CASE DropConnection(g)
  <2>1. StreamTypeOK'
    BY <1>0, <1>t, <1>12 DEF DropConnection, StreamTypeOK
  <2>2. Others(g)
    BY <1>0, <1>t, <1>12 DEF DropConnection, StreamTypeOK, Others
  <2>3. Mine(g)'
    BY <1>0, <1>t, <1>m, <1>12 DEF DropConnection, StreamTypeOK, Mine
  <2> QED
    BY <1>0, <2>1, <2>2, <2>3, MoveStep
<1> QED
    BY <1>1, <1>2, <1>3, <1>4, <1>5, <1>6, <1>7, <1>8, <1>9, <1>10, <1>11, <1>12 DEF Thread

-----------------------------------------------------------------------------
\* The inductive invariant holds of every reachable state.
LEMMA StreamInvariance == StreamSpec => []StreamInv
<1>1. StreamInv /\ [StreamNext]_streamVars => StreamInv'
  <2> SUFFICES ASSUME StreamInv, [StreamNext]_streamVars PROVE StreamInv'
    OBVIOUS
  <2>1. CASE UNCHANGED streamVars
    BY <2>1 DEF streamVars, subscription, lifecycle, thread, StreamInv, StreamTypeOK, OneThread, NothingLeaks, StopReaches,
           Future, KnownToThread, Marked, Held, Aimed, Believed
  <2>2. CASE StreamNext
    BY <2>2, ChangeStep, StartThreadStep, StopStep, StopCloseStep, ThreadStep DEF StreamNext
  <2> QED
    BY <2>1, <2>2
<1> QED
    BY <1>1, InitStreamInv, PTL DEF StreamSpec

\* Every variable of a stream client keeps its type.
THEOREM StreamTypeCorrect == StreamSpec => []StreamTypeOK
  BY StreamInvariance, PTL DEF StreamInv

\* StartThread, stop and reconnect never leave two threads beside each other.
THEOREM OneThreadLives == StreamSpec => []OneThread
  BY StreamInvariance, PTL DEF StreamInv

\* Every path out of _connect_once closes the connection it opened.
THEOREM ConnectionsAreClosed == StreamSpec => []NothingLeaks
  BY StreamInvariance, PTL DEF StreamInv

\* A stop reaches the thread's connection whenever it comes.
THEOREM StopsReachTheThread == StreamSpec => []StopReaches
  BY StreamInvariance, PTL DEF StreamInv

\* What is_connected says is so.
THEOREM ConnectedMeansSubscribed == StreamSpec => []ConnectedIsTrue
<1>1. StreamInv => ConnectedIsTrue
    BY DEF StreamInv, StreamTypeOK, ConnectedIsTrue, IsConnected, Marked, Held, Believed, Busy, Subscribed
<1> QED
    BY <1>1, StreamInvariance, PTL
=============================================================================
