------------------------------- MODULE Alerts -------------------------------
(***************************************************************************)
(* Price alerts and their notification history, both fields of the one     *)
(* configuration file.  Refreshers (the web server's refresh routes, the   *)
(* command line, an attempt of the unattended worker) load the file, read  *)
(* the feeds, evaluate and save; the desktop program evaluates prices its  *)
(* stream and its poller deliver against the configuration in its memory.  *)
(* Users edit alerts and acknowledge notifications meanwhile.              *)
(***************************************************************************)
EXTENDS Integers, FiniteSets, FiniteSetsExt

CONSTANTS Alerts,
          ContractOf,   \* the contract an alert watches
          Threshold,    \* its threshold; an edited one stands for a new threshold
          Above,        \* alerts of direction "above"
          Kept, Once,   \* alerts in the file at first, and those that fire once
          Prices,       \* quotes
          Refreshers,   \* processes that run refresh_all_alert_prices
          Capacity,     \* MAX_ALERT_EVENTS
          MaxEdits,     \* bound on user edits
          MaxInflight,  \* bound on prices under way to the UI thread
          None          \* no price remembered; no such alert

Contracts == {ContractOf[a] : a \in Alerts}

ASSUME AlertAssumption ==
    /\ IsFiniteSet(Alerts) /\ Prices \subseteq Int
    /\ Above \subseteq Alerts /\ Kept \subseteq Alerts /\ Once \subseteq Kept
    /\ Threshold \in [Alerts -> Int] /\ ContractOf \in [Alerts -> Contracts]
    /\ Capacity \in Nat \ {0} /\ MaxEdits \in Nat /\ MaxInflight \in Nat /\ None \notin Int

VARIABLES
    disk,      \* the configuration file: alerts and notification history
    price,     \* the feeds
    pc, base, work, todo,  \* per refresher: step, file loaded, AppConfig, contracts left
    mem,       \* the desktop's AppConfig
    paused,    \* its _config_persistence_error
    inflight,  \* prices its stream and its poller have read, not yet evaluated
    armed,     \* ghost: alerts that may notify
    edits      \* ghost: edits so far

refreshers == <<pc, base, work, todo>>
desktop    == <<mem, paused, inflight>>
vars       == <<disk, price, refreshers, desktop, armed, edits>>

Absent == [last |-> None, triggered |-> FALSE, once |-> FALSE, enabled |-> FALSE, present |-> FALSE]
States == [last : Prices \cup {None}, triggered : BOOLEAN, once : BOOLEAN,
           enabled : BOOLEAN, present : BOOLEAN]
Counts == [Alerts -> Nat]
Files  == [alerts : [Alerts -> States], unread : Counts, read : Counts]

Added(once) == [Absent EXCEPT !.present = TRUE, !.enabled = TRUE, !.once = once]
Zero  == [a \in Alerts |-> 0]
Empty == [alerts |-> [a \in Alerts |-> Absent], unread |-> Zero, read |-> Zero]

Init ==
    /\ disk = [Empty EXCEPT !.alerts = [a \in Alerts |-> IF a \in Kept THEN Added(a \in Once) ELSE Absent]]
    /\ price \in [Contracts -> Prices]
    /\ pc = [p \in Refreshers |-> "idle"]
    /\ base = [p \in Refreshers |-> Empty] /\ work = base
    /\ todo = [p \in Refreshers |-> {}]
    /\ mem = disk /\ paused = FALSE /\ inflight = {}
    /\ armed = Alerts /\ edits = 0

-----------------------------------------------------------------------------
(* evaluate_alerts_for_contract and append_alert_events.                   *)

Holds(a, v) == v # None /\ IF a \in Above THEN v >= Threshold[a] ELSE v <= Threshold[a]

Crosses(a, s, v) == Holds(a, v) /\ ~Holds(a, s.last) /\ ~s.triggered

After(a, s, v) ==
    [s EXCEPT !.last = v,
              !.triggered = Crosses(a, s, v) \/ (s.triggered /\ (s.once \/ Holds(a, v))),
              !.enabled = @ /\ ~(Crosses(a, s, v) /\ s.once)]

Watching(f, c) == {a \in Alerts : f.alerts[a].enabled /\ ContractOf[a] = c}
Total(counts)  == MapThenSumSet(LAMBDA a : counts[a], Alerts)

EvictAny(f, n) ==                                     \* Mutant: any notification makes room.
    LET Within(m) == {q \in [Alerts -> 0..Capacity] : \A a \in Alerts : q[a] <= m[a]}
    IN  {[f EXCEPT !.read = x[1], !.unread = x[2]] :
            x \in {y \in Within(f.read) \X Within(f.unread) :
                     Total(f.read) + Total(f.unread) - Total(y[1]) - Total(y[2]) = n}}
\* What is left of the history when n acknowledged notifications make room.
Evict(f, n) ==
    {[f EXCEPT !.read = r] :
        r \in {q \in [Alerts -> 0..Capacity] : /\ \A a \in Alerts : q[a] <= f.read[a]
                                               /\ Total(f.read) - Total(q) = n}}

\* The room an evaluation with these crossings lacks.
Missing(f, crossed) ==
    LET lack == Total(f.unread) + Total(f.read) + Cardinality(crossed) - Capacity
    IN  IF lack > 0 THEN lack ELSE 0

EvaluatedFirst(f, c, v) ==                            \* Mutant: triggers change before room is found.
    LET crossed == {a \in Watching(f, c) : Crosses(a, f.alerts[a], v)}
        applied == [f EXCEPT !.alerts = [a \in Alerts |->
                        IF a \in Watching(f, c) THEN After(a, @[a], v) ELSE @[a]]]
        kept    == Evict(applied, Missing(f, crossed))
    IN  IF kept = {} THEN {applied}
        ELSE {[g EXCEPT !.unread = [a \in Alerts |-> IF a \in crossed THEN @[a] + 1 ELSE @[a]]] : g \in kept}
\* The configurations one price of a contract may lead to: none when unread
\* notifications fill the history (AlertEventCapacityError).
Evaluated(f, c, v) ==
    LET crossed == {a \in Watching(f, c) : Crosses(a, f.alerts[a], v)}
    IN  {[g EXCEPT !.alerts = [a \in Alerts |->
                       IF a \in Watching(f, c) THEN After(a, @[a], v) ELSE @[a]],
                   !.unread = [a \in Alerts |-> IF a \in crossed THEN @[a] + 1 ELSE @[a]]] :
            g \in Evict(f, Missing(f, crossed))}

-----------------------------------------------------------------------------
(* Commits.                                                                *)

\* A repeating alert re-arms when a price short of its threshold is on disk.
Below(f, a) ==
    /\ f.alerts[a].present /\ ~f.alerts[a].once
    /\ f.alerts[a].last # None /\ ~Holds(a, f.alerts[a].last)

\* The file is replaced; edited alerts start afresh.
Commit(new, edited) ==
    /\ disk' = new
    /\ armed' = {a \in Alerts : /\ new.unread[a] <= disk.unread[a]
                                /\ a \in armed \/ a \in edited \/ Below(new, a)}

-----------------------------------------------------------------------------
(* Refreshers.                                                             *)

Leave(p, how) ==
    /\ pc' = [pc EXCEPT ![p] = how]
    /\ base' = [base EXCEPT ![p] = Empty] /\ work' = [work EXCEPT ![p] = Empty]
    /\ todo' = [todo EXCEPT ![p] = {}]

\* The file is loaded; the enabled alerts name the contracts to read.
Begin(p) ==
    /\ pc[p] # "refreshing"
    /\ pc' = [pc EXCEPT ![p] = "refreshing"]
    /\ base' = [base EXCEPT ![p] = disk] /\ work' = [work EXCEPT ![p] = disk]
    /\ todo' = [todo EXCEPT ![p] = {c \in Contracts : Watching(disk, c) # {}}]
    /\ UNCHANGED <<disk, price, desktop, armed, edits>>

\* refresh_alert_price: the feed answers; a full history ends the refresh.
Refresh(p, c) ==
    /\ c \in todo[p]
    /\ LET results == Evaluated(work[p], c, price[c])
       IN  \/ /\ \E f \in results : work' = [work EXCEPT ![p] = f]
              /\ todo' = [todo EXCEPT ![p] = @ \ {c}]
              /\ UNCHANGED <<pc, base, disk>>
           \/ results = {} /\ UNCHANGED disk /\ Leave(p, "idle")
    /\ UNCHANGED <<price, desktop, armed, edits>>

\* The feed fails: a problem is reported and the next contract is read.
FeedFails(p, c) ==
    /\ c \in todo[p]
    /\ todo' = [todo EXCEPT ![p] = @ \ {c}]
    /\ UNCHANGED <<disk, price, pc, base, work, desktop, armed, edits>>

SaveBlindly(p) ==                                     \* Mutant: no revision check.
    /\ pc[p] = "refreshing" /\ todo[p] = {}
    /\ Commit(work[p], {})
    /\ Leave(p, "idle")
    /\ UNCHANGED <<price, desktop, edits>>
\* save_config replaces the file, with its durability certain or not.
Save(p) ==
    /\ pc[p] = "refreshing" /\ todo[p] = {}
    /\ disk = base[p]
    /\ Commit(work[p], {})
    /\ Leave(p, "idle")
    /\ UNCHANGED <<price, desktop, edits>>
Conflict(p) ==
    /\ pc[p] = "refreshing" /\ todo[p] = {}
    /\ disk # base[p]
    /\ UNCHANGED disk /\ Leave(p, "idle")
    /\ UNCHANGED <<price, desktop, armed, edits>>

\* The attempt is killed at its deadline, or the file cannot be written.
Die(p) ==
    /\ pc[p] = "refreshing"
    /\ UNCHANGED disk /\ Leave(p, "killed")
    /\ UNCHANGED <<price, desktop, armed, edits>>

RefreshStep(p) == \/ Begin(p) \/ Save(p) \/ Conflict(p)
                  \/ \E c \in Contracts : Refresh(p, c) \/ FeedFails(p, c)

-----------------------------------------------------------------------------
(* The desktop program.                                                    *)

\* The market stream or the price poller reads a price and puts it on
\* ui_queue; between the two threads any order may result.
Hear(c) ==
    /\ Watching(mem, c) # {}
    /\ Cardinality(inflight) < MaxInflight
    /\ inflight' = inflight \cup {<<c, price[c]>>}
    /\ UNCHANGED <<disk, price, refreshers, mem, paused, armed, edits>>

\* _eval_alerts_for_contract on the UI thread: evaluate a copy, save it, adopt it.
Evaluate(c, v) ==
    /\ <<c, v>> \in inflight
    /\ inflight' = inflight \ {<<c, v>>}
    /\ LET results == Evaluated(mem, c, v)
       IN  \/ /\ paused \/ results = {} \/ mem \in results
              /\ UNCHANGED <<disk, armed, mem, paused>>
           \/ /\ ~paused
              /\ \E f \in results \ {mem} :
                    \/ /\ disk = mem
                       /\ Commit(f, {}) /\ mem' = f
                       /\ paused' \in BOOLEAN       \* ConfigCommitError pauses
                    \/ paused' = TRUE /\ UNCHANGED <<disk, armed, mem>>
    /\ UNCHANGED <<price, refreshers, edits>>

Restart ==
    /\ mem' = disk /\ paused' = FALSE /\ inflight' = {}
    /\ UNCHANGED <<disk, price, refreshers, armed, edits>>

-----------------------------------------------------------------------------
(* Users.  A change is one load and one save, which conflicts or commits.  *)

With(f, a, s) == [f EXCEPT !.alerts[a] = s]

\* add_alert, delete_selected_alert, toggle_selected_alert and their routes.
Simple(f, a) ==
    IF f.alerts[a].present
    THEN {With(f, a, Absent), With(f, a, [f.alerts[a] EXCEPT !.enabled = ~@])}
    ELSE {With(f, a, Added(once)) : once \in BOOLEAN}

Switched(s, once, enabled) == [s EXCEPT !.once = once, !.enabled = enabled]

RewatchedCarelessly(f, a) ==                          \* Mutant: the remembered price stays.
    {With(f, a, Switched([f.alerts[a] EXCEPT !.triggered = FALSE], once, enabled)) :
        once \in BOOLEAN, enabled \in BOOLEAN}
\* alert_from_payload: a change of what is watched forgets the past.
Rewatched(f, a) ==
    {With(f, a, Switched(Added(once), once, enabled)) : once \in BOOLEAN, enabled \in BOOLEAN}
Patched(f, a) ==
    {With(f, a, Switched(f.alerts[a], once, enabled)) : once \in BOOLEAN, enabled \in BOOLEAN}

Edit(a) ==
    /\ edits < MaxEdits /\ edits' = edits + 1
    /\ \/ \E f \in Simple(disk, a) :
             /\ Commit(f, IF disk.alerts[a].present THEN {} ELSE {a})
             /\ \/ UNCHANGED mem
                \/ ~paused /\ mem = disk /\ mem' = f     \* the desktop's own edit
       \/ /\ disk.alerts[a].present
          /\ \/ \E f \in Rewatched(disk, a) : Commit(f, {a})
             \/ \E f \in Patched(disk, a) : Commit(f, {})
          /\ UNCHANGED mem
    /\ UNCHANGED <<price, refreshers, paused, inflight>>

\* acknowledge_alert_event.
Acknowledge(a) ==
    /\ disk.unread[a] > 0
    /\ Commit([disk EXCEPT !.unread[a] = @ - 1, !.read[a] = @ + 1], {})
    /\ UNCHANGED <<price, refreshers, desktop, edits>>

Move(c) ==
    /\ \E v \in Prices : price' = [price EXCEPT ![c] = v]
    /\ UNCHANGED <<disk, refreshers, desktop, armed, edits>>

Next == \/ \E p \in Refreshers : RefreshStep(p) \/ Die(p)
        \/ \E c \in Contracts : Hear(c) \/ Move(c) \/ \E v \in Prices : Evaluate(c, v)
        \/ \E a \in Alerts : Edit(a) \/ Acknowledge(a)
        \/ Restart

Spec == Init /\ [][Next]_vars

\* Refreshes are scheduled and finish, a feed answers again and again, users
\* read their notifications; prices settle and attempts live to their end.
Fairness ==
    /\ \A p \in Refreshers :
          WF_vars(RefreshStep(p)) /\ \A c \in Contracts : SF_vars(Refresh(p, c))
    /\ WF_vars(\E a \in Alerts : Acknowledge(a))
    /\ <>[][(\A c \in Contracts : ~Move(c)) /\ \A p \in Refreshers : ~Die(p)]_vars
FairSpec == Spec /\ Fairness

-----------------------------------------------------------------------------
(* Properties.                                                             *)

\* Types of the file, the copies of it and the threads.
TypeOK ==
    /\ disk \in Files /\ mem \in Files
    /\ base \in [Refreshers -> Files] /\ work \in [Refreshers -> Files]
    /\ price \in [Contracts -> Prices]
    /\ pc \in [Refreshers -> {"idle", "refreshing", "killed"}]
    /\ todo \in [Refreshers -> SUBSET Contracts]
    /\ paused \in BOOLEAN /\ inflight \subseteq Contracts \X Prices
    /\ armed \subseteq Alerts /\ edits \in 0..MaxEdits

\* An alert shown as armed is armed: a price that meets the condition is never
\* remembered without the trigger, or no later price could cross (alert_status
\* against the two ways alert_from_payload and the evaluation set last_value).
ArmedIsArmed == \A a \in Alerts : Holds(a, disk.alerts[a].last) => disk.alerts[a].triggered

Notified(a)  == disk'.unread[a] > disk.unread[a]
Triggered(a) == disk'.alerts[a].triggered /\ ~disk.alerts[a].triggered

\* A trigger is consumed exactly when its notification reaches the file, in the
\* same commit, whichever of several processes saves and however a save fails
\* (the comment above append_alert_events).
NoticedTogether == [][\A a \in Alerts : Notified(a) <=> Triggered(a)]_vars

\* One arming, one notification: processes that saw the same crossing do not
\* both record it, and a repeating alert notifies again only after a price on
\* the other side was saved or the alert was edited.
OncePerArming == [][\A a \in Alerts : Notified(a) => a \in armed]_vars

\* An unread notification leaves the history only by being acknowledged
\* (append_alert_events reclaims acknowledged ones).
UnreadIsKept ==
    [][\A a \in Alerts : disk'.unread[a] < disk.unread[a] =>
          disk'.read[a] - disk.read[a] = disk.unread[a] - disk'.unread[a]]_vars

\* An armed alert whose condition goes on to hold notifies at last, full
\* histories, conflicting saves and failing feeds notwithstanding.
Due(a) ==
    /\ disk.alerts[a].enabled /\ ~disk.alerts[a].triggered
    /\ Holds(a, price[ContractOf[a]])
EventuallyNoticed == \A a \in Alerts : Due(a) ~> ~Due(a)
=============================================================================
