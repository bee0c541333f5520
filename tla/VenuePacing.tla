----------------------------- MODULE VenuePacing -----------------------------
(***************************************************************************)
(* Request pacing per venue (market_adapters/runtime.py).  Adapters of one *)
(* venue share a rate limiter that a registry keeps while an adapter holds *)
(* it and until the interval it reserved is over.  A request takes the     *)
(* limiter's lock, waits for its turn, is dispatched under the lock, and   *)
(* reserves the next interval when it returns.                             *)
(*                                                                         *)
(* An adapter stands for its object and for the one thread that is         *)
(* constructing it or sending through it: two threads on one adapter       *)
(* compete for the limiter as two adapters do, and hold it no longer.      *)
(***************************************************************************)
EXTENDS Integers, FiniteSets

CONSTANTS Adapters,     \* adapter objects, live or not
          Venues,       \* market ids
          Limiters,     \* limiter objects
          Intervals,    \* the min_request_interval_seconds of the configurations
          MaxLimiters,  \* MAX_SHARED_RATE_LIMITERS
          MaxTime,      \* bound: the clock stops there
          Absent

ASSUME PacingAssumption ==
    /\ Intervals \subseteq Nat /\ MaxLimiters \in Nat /\ MaxTime \in Nat
    /\ Absent \notin Limiters /\ Absent \notin Adapters

VARIABLES
    now,       \* the clock
    adapter,   \* per adapter: where its thread is, its venue, interval and limiter
    registry,  \* _shared_rate_limiters
    limiter,   \* the limiters
    gap        \* ghost, per venue: its last return, and the intervals its adapters relied on then

pacingVars == <<now, adapter, registry, limiter, gap>>

AdapterPCs == {"dead", "constructing", "ready", "acquiring", "pacing", "dispatching"}

\* holder is who holds the lock; last is a ghost: when a request last returned, 0 for never.
LimiterRecs == [interval : Nat, next : Nat, holder : Adapters \cup {Absent}, last : Nat]
AdapterRecs == [pc : AdapterPCs, venue : Venues \cup {Absent}, interval : Nat, lim : Limiters \cup {Absent}]

NoAdapter == [pc |-> "dead", venue |-> Absent, interval |-> 0, lim |-> Absent]
NoLimiter == [interval |-> 0, next |-> 0, holder |-> Absent, last |-> 0]

PacingInit ==
    /\ now = 1
    /\ adapter = [a \in Adapters |-> NoAdapter]
    /\ registry = [v \in Venues |-> Absent]
    /\ limiter = [l \in Limiters |-> NoLimiter]
    /\ gap = [v \in Venues |-> [at |-> 0, heard |-> {}]]

Live(a)   == adapter[a].pc # "dead"
Usable(a) == adapter[a].pc \notin {"dead", "constructing"}

Later(i, j) == IF i >= j THEN i ELSE j

\* Mutant: an adapter is pinned to its schedule only once it is constructed.
OwnersLate(v) == {a \in Adapters : Usable(a) /\ adapter[a].venue = v /\ adapter[a].lim # Absent}

\* entry.owners: a weak set, from before the registry's lock is released on.
Owners(v) == {a \in Adapters : Live(a) /\ adapter[a].venue = v /\ adapter[a].lim # Absent}

\* Mutant: an entry goes with its last owner, whatever it has reserved.
RemovableEagerly == {v \in Venues : registry[v] # Absent /\ Owners(v) = {}}

\* Entries that nobody owns and whose reserved interval is over.
Removable ==
    {v \in Venues : registry[v] # Absent /\ Owners(v) = {} /\ limiter[registry[v]].next <= now}

\* The registry, and the objects left, once a missing entry made it drop what can go.
Pruned == [v \in Venues |-> IF v \in Removable THEN Absent ELSE registry[v]]
Kept   == [l \in Limiters |-> IF \E v \in Removable : registry[v] = l THEN NoLimiter ELSE limiter[l]]

Registered(r) == {v \in Venues : r[v] # Absent}

\* An object nobody refers to any more.
Fresh(l) ==
    /\ \A v \in Venues : Pruned[v] # l
    /\ \A a \in Adapters : Live(a) => adapter[a].lim # l

\* _venue_rate_limiter, up to the release of the registry's lock.
Lookup(a, v, i) ==
    LET become(pc, l) ==
            adapter' = [adapter EXCEPT ![a] = [pc |-> pc, venue |-> v, interval |-> i, lim |-> l]]
    IN  /\ ~Live(a)
        /\ \/ /\ registry[v] = Absent /\ i = 0
              /\ become("ready", Absent)
              /\ UNCHANGED <<registry, limiter>>
           \/ /\ registry[v] = Absent /\ i > 0
              /\ Cardinality(Registered(Pruned)) >= MaxLimiters
              /\ registry' = Pruned /\ limiter' = Kept
              /\ UNCHANGED adapter
           \/ /\ registry[v] = Absent /\ i > 0
              /\ Cardinality(Registered(Pruned)) < MaxLimiters
              /\ \E l \in Limiters :
                   /\ Fresh(l)
                   /\ registry' = [Pruned EXCEPT ![v] = l]
                   /\ limiter' = [Kept EXCEPT ![l] = [NoLimiter EXCEPT !.interval = i]]
                   /\ become("constructing", l)
           \/ /\ registry[v] # Absent
              /\ become("constructing", registry[v])
              /\ UNCHANGED <<registry, limiter>>
        /\ UNCHANGED <<now, gap>>

\* Mutant: the interval is not compared again once the lock is held.
StrengthenStale(l, i) ==
    [l EXCEPT !.next = IF @ > 0 THEN @ + (i - l.interval) ELSE @, !.interval = i]

\* The locked part of strengthen_interval: the reservation in force grows with the interval.
Strengthen(l, i) ==
    [l EXCEPT !.next = IF @ > 0 THEN @ + Later(0, i - l.interval) ELSE @,
              !.interval = Later(@, i)]

\* strengthen_interval: nothing to do, or done with the lock.
Construct(a) ==
    LET l == adapter[a].lim
        i == adapter[a].interval
    IN  /\ adapter[a].pc = "constructing"
        /\ \/ i <= limiter[l].interval /\ UNCHANGED limiter
           \/ /\ limiter[l].holder = Absent
              /\ limiter' = [limiter EXCEPT ![l] = Strengthen(@, i)]
        /\ adapter' = [adapter EXCEPT ![a].pc = "ready"]
        /\ UNCHANGED <<now, registry, gap>>

\* The garbage collector takes an adapter nobody uses, or one whose constructor raised:
\* its owner's deadline passed while it waited for the lock.
Collect(a) ==
    /\ adapter[a].pc \in {"constructing", "ready"}
    /\ adapter' = [adapter EXCEPT ![a] = NoAdapter]
    /\ UNCHANGED <<now, registry, limiter, gap>>

\* request_slot is entered; without an interval it does not wait for anybody.
Request(a) ==
    /\ adapter[a].pc = "ready" /\ adapter[a].lim # Absent
    /\ adapter' = [adapter EXCEPT ![a].pc = "acquiring"]
    /\ UNCHANGED <<now, registry, limiter, gap>>

\* _acquire_schedule.
Acquire(a) ==
    /\ adapter[a].pc = "acquiring" /\ limiter[adapter[a].lim].holder = Absent
    /\ adapter' = [adapter EXCEPT ![a].pc = "pacing"]
    /\ limiter' = [limiter EXCEPT ![adapter[a].lim].holder = a]
    /\ UNCHANGED <<now, registry, gap>>

\* _wait_for_interval has nothing left to wait for.
MayDispatch(a) == limiter[adapter[a].lim].next <= now

Dispatch(a) ==
    /\ adapter[a].pc = "pacing" /\ MayDispatch(a)
    /\ adapter' = [adapter EXCEPT ![a].pc = "dispatching"]
    /\ UNCHANGED <<now, registry, limiter, gap>>

\* The request's deadline passes, or it is cancelled, before it is dispatched.
GiveUp(a) ==
    LET l == adapter[a].lim
    IN  /\ adapter[a].pc \in {"acquiring", "pacing"}
        /\ adapter' = [adapter EXCEPT ![a].pc = "ready"]
        /\ limiter' = IF limiter[l].holder = a THEN [limiter EXCEPT ![l].holder = Absent] ELSE limiter
        /\ UNCHANGED <<now, registry, gap>>

\* The slot reserved for the next request.
Reservation(l) == Later(now, l.next) + l.interval

\* The session answered or raised: the slot is over either way.
Return(a) ==
    LET l == adapter[a].lim
        v == adapter[a].venue
    IN  /\ adapter[a].pc = "dispatching"
        /\ adapter' = [adapter EXCEPT ![a].pc = "ready"]
        /\ limiter' = [limiter EXCEPT ![l].next = Reservation(limiter[l]), ![l].last = now,
                                      ![l].holder = Absent]
        /\ gap' = [gap EXCEPT ![v] = [at |-> now,
                                      heard |-> {adapter[b].interval : b \in
                                                    {c \in Owners(v) : Usable(c)}}]]
        /\ UNCHANGED <<now, registry>>

Tick == now < MaxTime /\ now' = now + 1 /\ UNCHANGED <<adapter, registry, limiter, gap>>

PacingNext ==
    \/ \E a \in Adapters :
         \/ \E v \in Venues, i \in Intervals : Lookup(a, v, i)
         \/ Construct(a) \/ Collect(a)
         \/ Request(a) \/ Acquire(a) \/ Dispatch(a) \/ GiveUp(a) \/ Return(a)
    \/ Tick

PacingSpec == PacingInit /\ [][PacingNext]_pacingVars

-----------------------------------------------------------------------------
(* Properties.                                                             *)

\* Every variable keeps its type.
PacingTypeOK ==
    /\ now \in Nat
    /\ adapter \in [Adapters -> AdapterRecs]
    /\ registry \in [Venues -> Limiters \cup {Absent}]
    /\ limiter \in [Limiters -> LimiterRecs]
    /\ gap \in [Venues -> [at : Nat, heard : SUBSET Nat]]

\* A venue never sees two paced requests at once, whichever adapters send them and
\* whatever became of the registry's entries meanwhile.
OneInFlight ==
    \A a, b \in Adapters :
        /\ adapter[a].pc = "dispatching" /\ adapter[b].pc = "dispatching"
        /\ adapter[a].venue = adapter[b].venue
        => a = b

\* All adapters of a venue that pace themselves do it on the one schedule in the registry,
\* from the moment they wait for it: an entry with a live owner is not evicted, not even
\* by the creation of another venue's.
OneSchedule ==
    \A a \in Adapters :
        Live(a) /\ adapter[a].lim # Absent => registry[adapter[a].venue] = adapter[a].lim

\* An adapter whose constructor returned is waited for as long as it asked, counted from
\* the last return on its schedule, also when the slot was reserved before it came.
IntervalsHonoured ==
    \A a \in Adapters :
        LET l == limiter[adapter[a].lim]
        IN  Usable(a) /\ adapter[a].lim # Absent
                => /\ adapter[a].interval <= l.interval
                   /\ l.last > 0 => l.next >= l.last + adapter[a].interval

\* No paced request is dispatched before the interval that any adapter of its venue relied
\* on when the last one returned is over; a schedule dropped meanwhile changes nothing.
PacedApart ==
    [][\A a \in Adapters :
        adapter[a].pc = "pacing" /\ adapter'[a].pc = "dispatching"
            => LET g == gap[adapter[a].venue] IN \A i \in g.heard : g.at + i <= now]_pacingVars
=============================================================================
