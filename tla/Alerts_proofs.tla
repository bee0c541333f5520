---------------------------- MODULE Alerts_proofs ----------------------------
(***************************************************************************)
(* Proofs about Alerts for any alerts, contracts, prices, refreshers,      *)
(* history size and edits.  The argument: what a refresher will save       *)
(* differs from what it loaded, alert by alert, as one evaluation allows   *)
(* (Moved), since it evaluates a contract once; and the revision check     *)
(* makes what it loaded the file it replaces.                              *)
(***************************************************************************)
EXTENDS Alerts, TLAPS

\* A remembered price that meets the condition has triggered; a missing alert
\* is blank.
Sound(f) ==
    \A a \in Alerts :
        /\ Holds(a, f.alerts[a].last) => f.alerts[a].triggered
        /\ ~f.alerts[a].present => f.alerts[a] = Absent

\* What one evaluation may do to an alert and its unread notifications.
Moved(f, g, a) ==
    LET s == f.alerts[a]
        t == g.alerts[a]
    IN  /\ t.present = s.present /\ t.once = s.once
        /\ \/ /\ g.unread[a] = f.unread[a] + 1
              /\ t.triggered /\ ~s.triggered /\ s.present
           \/ /\ g.unread[a] = f.unread[a]
              /\ t.triggered => s.triggered
              /\ s.triggered /\ ~t.triggered => Below(g, a)

\* Whatever is not triggered may trigger once.
Armed == \A a \in Alerts : disk.alerts[a].present /\ ~disk.alerts[a].triggered => a \in armed

\* What a refresher holds comes from the file it loaded; contracts still to be
\* read are untouched.
Derived ==
    \A p \in Refreshers :
        /\ Sound(work[p])
        /\ \A a \in Alerts :
              /\ Moved(base[p], work[p], a)
              /\ ContractOf[a] \in todo[p] =>
                    work[p].alerts[a] = base[p].alerts[a] /\ work[p].unread[a] = base[p].unread[a]

IInv == TypeOK /\ Sound(disk) /\ Armed /\ Derived

-----------------------------------------------------------------------------
USE AlertAssumption DEF AlertAssumption, Contracts

\* The blank alert and the blank configuration.
LEMMA Blank ==
  /\ Absent \in States /\ Empty \in Files /\ Sound(Empty)
  /\ \A a \in Alerts : ~Absent.triggered /\ ~Holds(a, Absent.last)
  BY DEF Absent, States, Empty, Files, Zero, Counts, Sound, Holds

\* An added alert is sound and not triggered.
LEMMA AddedFacts ==
  ASSUME NEW once \in BOOLEAN, NEW a \in Alerts
  PROVE  /\ Added(once) \in States /\ Added(once).present /\ ~Added(once).triggered
         /\ ~Holds(a, Added(once).last)
  BY DEF Added, Absent, States, Holds

\* A state that remembers the price it was judged by.
LEMMA AfterFacts ==
  ASSUME NEW a \in Alerts, NEW s \in States, NEW v \in Prices
  PROVE  /\ After(a, s, v) \in States
         /\ After(a, s, v).last = v
         /\ After(a, s, v).present = s.present /\ After(a, s, v).once = s.once
         /\ After(a, s, v).triggered <=>
               (Crosses(a, s, v) \/ (s.triggered /\ (s.once \/ Holds(a, v))))
<1>1. Crosses(a, s, v) \in BOOLEAN /\ Holds(a, v) \in BOOLEAN
    BY DEF Crosses, Holds
<1> QED
    BY <1>1 DEF After, States

\* Room in the history is made without touching alerts or unread notifications.
LEMMA EvictFacts ==
  ASSUME NEW f \in Files, NEW n, NEW g \in Evict(f, n)
  PROVE  g \in Files /\ g.alerts = f.alerts /\ g.unread = f.unread
<1>1. PICK r \in [Alerts -> 0..Capacity] : g = [f EXCEPT !.read = r]
    BY DEF Evict
<1>2. r \in [Alerts -> Nat]
    BY <1>1
<1> QED
    BY <1>1, <1>2 DEF Files, Counts

\* An evaluation, alert by alert.
LEMMA EvaluatedFacts ==
  ASSUME NEW f \in Files, NEW c \in Contracts, NEW v \in Prices, NEW g \in Evaluated(f, c, v)
  PROVE  /\ g \in Files
         /\ \A a \in Alerts :
               IF a \in Watching(f, c)
               THEN /\ g.alerts[a] = After(a, f.alerts[a], v)
                    /\ g.unread[a] = IF Crosses(a, f.alerts[a], v) THEN f.unread[a] + 1 ELSE f.unread[a]
               ELSE g.alerts[a] = f.alerts[a] /\ g.unread[a] = f.unread[a]
<1> DEFINE crossed == {a \in Watching(f, c) : Crosses(a, f.alerts[a], v)}
           A == [a \in Alerts |-> IF a \in Watching(f, c) THEN After(a, f.alerts[a], v) ELSE f.alerts[a]]
           U == [a \in Alerts |-> IF a \in crossed THEN f.unread[a] + 1 ELSE f.unread[a]]
<1>1. PICK h \in Evict(f, Missing(f, crossed)) :
        g = [h EXCEPT !.alerts = [a \in Alerts |-> IF a \in Watching(f, c) THEN After(a, @[a], v) ELSE @[a]],
                      !.unread = [a \in Alerts |-> IF a \in crossed THEN @[a] + 1 ELSE @[a]]]
    BY DEF Evaluated
<1>2. h \in Files /\ h.alerts = f.alerts /\ h.unread = f.unread
    BY EvictFacts
<1>3. g = [h EXCEPT !.alerts = A, !.unread = U]
    BY <1>1, <1>2
<1>4. \A a \in Alerts : f.alerts[a] \in States /\ f.unread[a] \in Nat
    BY DEF Files, Counts
<1>5. A \in [Alerts -> States]
    BY <1>4, AfterFacts
<1>6. U \in [Alerts -> Nat]
    BY <1>4
<1> HIDE DEF A, U
<1>7. g \in Files /\ g.alerts = A /\ g.unread = U
    BY <1>2, <1>3, <1>5, <1>6 DEF Files, Counts
<1> QED
    BY <1>7 DEF A, U

\* An evaluation moves every alert as it may, and leaves a sound configuration.
LEMMA EvaluatedMoves ==
  ASSUME NEW f \in Files, Sound(f), NEW c \in Contracts, NEW v \in Prices, NEW g \in Evaluated(f, c, v)
  PROVE  Sound(g) /\ \A a \in Alerts : Moved(f, g, a)
<1> SUFFICES ASSUME NEW a \in Alerts
             PROVE  /\ Holds(a, g.alerts[a].last) => g.alerts[a].triggered
                    /\ ~g.alerts[a].present => g.alerts[a] = Absent
                    /\ Moved(f, g, a)
    BY DEF Sound
<1> DEFINE s == f.alerts[a]
<1>1. s \in States /\ f.unread[a] \in Nat
    BY DEF Files, Counts
<1>2. Holds(a, s.last) => s.triggered
    BY DEF Sound
<1>3. ~s.present => s = Absent
    BY DEF Sound
<1>4. CASE a \in Watching(f, c)
  <2>1. g.alerts[a] = After(a, s, v)
    BY <1>4, EvaluatedFacts
  <2>2. g.unread[a] = IF Crosses(a, s, v) THEN f.unread[a] + 1 ELSE f.unread[a]
    BY <1>4, EvaluatedFacts
  <2>3. s.present
    BY <1>3, <1>4 DEF Watching, Absent
  <2>4. v # None
    OBVIOUS
  <2> DEFINE t == g.alerts[a]
             crossing == Crosses(a, s, v)
  <2>5. /\ t.last = v /\ t.present = s.present /\ t.once = s.once
        /\ t.triggered <=> (crossing \/ (s.triggered /\ (s.once \/ Holds(a, v))))
    <3>1. crossing \in BOOLEAN /\ Holds(a, v) \in BOOLEAN
      BY DEF Crosses, Holds
    <3> HIDE DEF s
    <3> QED
      BY <1>1, <2>1, <3>1 DEF After, States
  <2>6. s.triggered \in BOOLEAN /\ s.once \in BOOLEAN /\ s.present \in BOOLEAN
    BY <1>1 DEF States
  <2>7. crossing => ~s.triggered /\ Holds(a, v)
    BY DEF Crosses
  <2>8. Holds(a, v) => crossing \/ s.triggered
    BY <1>2 DEF Crosses
  <2>9. Holds(a, t.last) => t.triggered
    BY <2>5, <2>7, <2>8
  <2>10. CASE crossing
    <3>1. g.unread[a] = f.unread[a] + 1 /\ t.triggered /\ ~s.triggered
      BY <2>2, <2>5, <2>7, <2>10
    <3> HIDE DEF t
    <3>2. Moved(f, g, a)
      BY <2>3, <2>5, <3>1 DEF Moved, t
    <3> QED
      BY <2>3, <2>5, <2>9, <3>2 DEF t
  <2>11. CASE ~crossing
    <3>1. g.unread[a] = f.unread[a] /\ (t.triggered => s.triggered)
      BY <2>2, <2>5, <2>11
    <3>2. s.triggered /\ ~t.triggered => ~s.once /\ ~Holds(a, v)
      BY <2>5, <2>6, <2>11
    <3>3. s.triggered /\ ~t.triggered => Below(g, a)
      BY <2>3, <2>4, <2>5, <3>2 DEF Below
    <3> HIDE DEF t
    <3>4. Moved(f, g, a)
      BY <2>5, <3>1, <3>3 DEF Moved, t
    <3> QED
      BY <2>3, <2>5, <2>9, <3>4 DEF t
  <2> QED
    BY <2>10, <2>11
<1>5. CASE a \notin Watching(f, c)
    BY <1>1, <1>2, <1>3, <1>5, EvaluatedFacts DEF Moved
<1> QED
    BY <1>4, <1>5

-----------------------------------------------------------------------------
(* Steps.                                                                  *)

\* A commit of what an evaluation left keeps every alert armed as it should be.
LEMMA CommitMoved ==
  ASSUME IInv, NEW g \in Files, Sound(g), \A a \in Alerts : Moved(disk, g, a), Commit(g, {})
  PROVE  disk' \in Files /\ armed' \subseteq Alerts /\ Sound(disk)' /\ Armed'
<1>1. disk' = g /\ armed' = {a \in Alerts : g.unread[a] <= disk.unread[a] /\ (a \in armed \/ Below(g, a))}
    BY DEF Commit
<1>2. ASSUME NEW a \in Alerts, g.alerts[a].present, ~g.alerts[a].triggered
      PROVE  g.unread[a] <= disk.unread[a] /\ (a \in armed \/ Below(g, a))
  <2>1. Moved(disk, g, a) /\ disk.unread[a] \in Nat
    BY DEF IInv, TypeOK, Files, Counts
  <2> QED
    BY <1>2, <2>1 DEF Moved, IInv, Armed
<1>3. Armed'
    BY <1>1, <1>2 DEF Armed
<1>4. Sound(disk)'
    BY <1>1 DEF Sound
<1> QED
    BY <1>1, <1>3, <1>4

\* Refreshers do not look at the file but to load it and to replace it.
LEMMA DerivedUnchanged ==
  ASSUME IInv, UNCHANGED refreshers
  PROVE  Derived'
  BY DEF IInv, Derived, refreshers, Sound, Moved, Below

\* A refresher that leaves forgets what it held.
LEMMA LeaveStep ==
  ASSUME IInv, NEW p \in Refreshers, NEW how \in {"idle", "killed"}, Leave(p, how)
  PROVE  /\ Derived'
         /\ pc' \in [Refreshers -> {"idle", "refreshing", "killed"}]
         /\ base' \in [Refreshers -> Files] /\ work' \in [Refreshers -> Files]
         /\ todo' \in [Refreshers -> SUBSET Contracts]
<1>1. /\ pc' \in [Refreshers -> {"idle", "refreshing", "killed"}]
      /\ base' \in [Refreshers -> Files] /\ work' \in [Refreshers -> Files]
      /\ todo' \in [Refreshers -> SUBSET Contracts]
    BY Blank DEF Leave, IInv, TypeOK
<1>2. /\ base'[p] = Empty /\ work'[p] = Empty /\ todo'[p] = {}
      /\ \A q \in Refreshers : q # p => base'[q] = base[q] /\ work'[q] = work[q] /\ todo'[q] = todo[q]
    BY DEF Leave, IInv, TypeOK
<1>3. \A a \in Alerts : Moved(Empty, Empty, a)
    BY DEF Moved, Empty, Absent, Zero
<1>4. ASSUME NEW q \in Refreshers
      PROVE  /\ Sound(work'[q])
             /\ \A a \in Alerts :
                   /\ Moved(base'[q], work'[q], a)
                   /\ ContractOf[a] \in todo'[q] =>
                         work'[q].alerts[a] = base'[q].alerts[a] /\ work'[q].unread[a] = base'[q].unread[a]
  <2>1. CASE q = p
    BY <1>2, <1>3, <2>1, Blank
  <2>2. CASE q # p
    BY <1>2, <2>2 DEF IInv, Derived
  <2> QED
    BY <2>1, <2>2
<1> QED
    BY <1>1, <1>4 DEF Derived, Sound, Moved, Below

\* Before anything happens nothing is remembered.
LEMMA InitIInv == Init => IInv
<1> SUFFICES ASSUME Init
             PROVE  IInv
    OBVIOUS
<1>1. \A a \in Alerts : disk.alerts[a] = IF a \in Kept THEN Added(a \in Once) ELSE Absent
    BY DEF Init, Empty
<1>2. disk \in Files
  <2>1. \A a \in Alerts : (a \in Once) \in BOOLEAN
    OBVIOUS
  <2>2. \A a \in Alerts : Added(a \in Once) \in States
    BY <2>1, AddedFacts
  <2> DEFINE A == [a \in Alerts |-> IF a \in Kept THEN Added(a \in Once) ELSE Absent]
  <2>3. A \in [Alerts -> States]
    BY <2>2, Blank
  <2>4. disk = [Empty EXCEPT !.alerts = A]
    BY DEF Init
  <2> HIDE DEF A
  <2> QED
    BY <2>3, <2>4, Blank DEF Files
<1>3. Sound(disk)
  <2> SUFFICES ASSUME NEW a \in Alerts
               PROVE  /\ Holds(a, disk.alerts[a].last) => disk.alerts[a].triggered
                      /\ ~disk.alerts[a].present => disk.alerts[a] = Absent
    BY DEF Sound
  <2>1. (a \in Once) \in BOOLEAN
    OBVIOUS
  <2>2. Added(a \in Once).present /\ ~Holds(a, Added(a \in Once).last)
    BY <2>1, AddedFacts
  <2> QED
    BY <1>1, <2>2, Blank
<1>4. Armed
    BY DEF Init, Armed
<1>5. \A a \in Alerts : Moved(Empty, Empty, a)
    BY DEF Moved, Empty, Absent, Zero
<1>6. TypeOK
  <2>1. /\ base = [p \in Refreshers |-> Empty] /\ work = [p \in Refreshers |-> Empty]
        /\ mem = disk /\ armed = Alerts /\ edits = 0 /\ paused = FALSE /\ inflight = {}
        /\ price \in [Contracts -> Prices]
        /\ pc = [p \in Refreshers |-> "idle"] /\ todo = [p \in Refreshers |-> {}]
    BY DEF Init
  <2>2. base \in [Refreshers -> Files] /\ work \in [Refreshers -> Files]
    BY <2>1, Blank
  <2>3. 0 \in 0..MaxEdits
    OBVIOUS
  <2> QED
    BY <1>2, <2>1, <2>2, <2>3 DEF TypeOK
<1>7. Derived
    BY <1>5, Blank DEF Init, Derived
<1> QED
    BY <1>3, <1>4, <1>6, <1>7 DEF IInv

\* A load: nothing has moved yet.
LEMMA BeginStep ==
  ASSUME IInv, NEW p \in Refreshers, Begin(p)
  PROVE  IInv'
<1>1. UNCHANGED <<disk, price, mem, paused, inflight, armed, edits>>
    BY DEF Begin, desktop
<1>2. TypeOK'
    BY <1>1 DEF IInv, TypeOK, Begin
<1>3. \A a \in Alerts : Moved(disk, disk, a)
    BY DEF Moved, IInv, TypeOK, Files, Counts
<1>4. ASSUME NEW q \in Refreshers
      PROVE  /\ Sound(work'[q])
             /\ \A a \in Alerts :
                   /\ Moved(base'[q], work'[q], a)
                   /\ ContractOf[a] \in todo'[q] =>
                         work'[q].alerts[a] = base'[q].alerts[a] /\ work'[q].unread[a] = base'[q].unread[a]
  <2>1. CASE q = p
    <3>1. base'[q] = disk /\ work'[q] = disk
        BY <2>1 DEF Begin, IInv, TypeOK
    <3> QED
        BY <1>3, <3>1 DEF IInv
  <2>2. CASE q # p
    <3>1. base'[q] = base[q] /\ work'[q] = work[q] /\ todo'[q] = todo[q]
        BY <2>2 DEF Begin, IInv, TypeOK
    <3> QED
        BY <3>1 DEF IInv, Derived
  <2> QED
    BY <2>1, <2>2
<1>5. Derived'
    BY <1>4 DEF Derived, Sound, Moved, Below
<1>6. Sound(disk)' /\ Armed'
    BY <1>1 DEF IInv, Sound, Armed
<1> QED
    BY <1>2, <1>5, <1>6 DEF IInv

\* A contract is evaluated on what no earlier evaluation has touched.
LEMMA RefreshStep1 ==
  ASSUME IInv, NEW p \in Refreshers, NEW c \in Contracts, c \in todo[p],
         NEW f \in Evaluated(work[p], c, price[c]),
         work' = [work EXCEPT ![p] = f], todo' = [todo EXCEPT ![p] = @ \ {c}], UNCHANGED base
  PROVE  /\ Derived' /\ work' \in [Refreshers -> Files]
         /\ todo' \in [Refreshers -> SUBSET Contracts]
<1>1. /\ work[p] \in Files /\ price[c] \in Prices /\ Sound(work[p])
      /\ todo[p] \in SUBSET Contracts
    BY DEF IInv, TypeOK, Derived
<1>2. f \in Files /\ Sound(f) /\ \A a \in Alerts : Moved(work[p], f, a)
    BY <1>1, EvaluatedFacts, EvaluatedMoves
<1>3. work' \in [Refreshers -> Files] /\ todo' \in [Refreshers -> SUBSET Contracts]
    BY <1>1, <1>2 DEF IInv, TypeOK
<1>4. ASSUME NEW a \in Alerts
      PROVE  /\ Moved(base[p], f, a)
             /\ ContractOf[a] \in todo[p] \ {c} =>
                   f.alerts[a] = base[p].alerts[a] /\ f.unread[a] = base[p].unread[a]
  <2>1. CASE ContractOf[a] = c
    <3>1. work[p].alerts[a] = base[p].alerts[a] /\ work[p].unread[a] = base[p].unread[a]
        BY <2>1 DEF IInv, Derived
    <3>2. Moved(work[p], f, a)
        BY <1>2
    <3> QED
        BY <2>1, <3>1, <3>2 DEF Moved
  <2>2. CASE ContractOf[a] # c
    <3>0. a \notin Watching(work[p], c)
        BY <2>2 DEF Watching
    <3>1. f.alerts[a] = work[p].alerts[a] /\ f.unread[a] = work[p].unread[a]
        BY <1>1, <3>0, EvaluatedFacts
    <3>2. Moved(base[p], work[p], a)
        BY DEF IInv, Derived
    <3>3. Below(f, a) <=> Below(work[p], a)
        BY <3>1 DEF Below
    <3>4. ContractOf[a] \in todo[p] =>
              work[p].alerts[a] = base[p].alerts[a] /\ work[p].unread[a] = base[p].unread[a]
        BY DEF IInv, Derived
    <3> QED
        BY <3>1, <3>2, <3>3, <3>4 DEF Moved
  <2> QED
    BY <2>1, <2>2
<1>5. ASSUME NEW q \in Refreshers
      PROVE  /\ Sound(work'[q])
             /\ \A a \in Alerts :
                   /\ Moved(base'[q], work'[q], a)
                   /\ ContractOf[a] \in todo'[q] =>
                         work'[q].alerts[a] = base'[q].alerts[a] /\ work'[q].unread[a] = base'[q].unread[a]
  <2>1. CASE q = p
    <3>1. work'[q] = f /\ todo'[q] = todo[p] \ {c} /\ base'[q] = base[p]
        BY <2>1 DEF IInv, TypeOK
    <3> QED
        BY <1>2, <1>4, <3>1
  <2>2. CASE q # p
    <3>1. work'[q] = work[q] /\ todo'[q] = todo[q] /\ base'[q] = base[q]
        BY <2>2 DEF IInv, TypeOK
    <3> QED
        BY <3>1 DEF IInv, Derived
  <2> QED
    BY <2>1, <2>2
<1> QED
    BY <1>3, <1>5 DEF Derived, Sound, Moved, Below

\* A step that leaves the file alone and gives the refreshers' copies.
LEMMA FileKept ==
  ASSUME IInv, UNCHANGED <<disk, armed, price, mem, paused, inflight, edits>>, Derived',
         pc' \in [Refreshers -> {"idle", "refreshing", "killed"}],
         base' \in [Refreshers -> Files], work' \in [Refreshers -> Files],
         todo' \in [Refreshers -> SUBSET Contracts]
  PROVE  IInv'
<1>1. TypeOK'
    BY DEF IInv, TypeOK
<1>2. Sound(disk)' /\ Armed'
    BY DEF IInv, Sound, Armed
<1> QED
    BY <1>1, <1>2 DEF IInv

\* The price of a contract is judged, or the full history ends the refresh.
LEMMA RefreshKeeps ==
  ASSUME IInv, NEW p \in Refreshers, NEW c \in Contracts, Refresh(p, c)
  PROVE  IInv'
<1>1. c \in todo[p] /\ UNCHANGED <<disk, price, mem, paused, inflight, armed, edits>>
    BY DEF Refresh, desktop, Leave
<1>2. CASE \E f \in Evaluated(work[p], c, price[c]) :
              work' = [work EXCEPT ![p] = f] /\ todo' = [todo EXCEPT ![p] = @ \ {c}] /\ UNCHANGED <<pc, base>>
  <2>1. Derived' /\ work' \in [Refreshers -> Files] /\ todo' \in [Refreshers -> SUBSET Contracts]
    BY <1>1, <1>2, RefreshStep1
  <2> QED
    BY <1>1, <1>2, <2>1, FileKept DEF IInv, TypeOK
<1>3. CASE Leave(p, "idle")
    BY <1>1, <1>3, LeaveStep, FileKept
<1> QED
    BY <1>2, <1>3 DEF Refresh

\* A feed that fails leaves its alerts as they were.
LEMMA FeedFailsStep ==
  ASSUME IInv, NEW p \in Refreshers, NEW c \in Contracts, FeedFails(p, c)
  PROVE  IInv'
<1>1. UNCHANGED <<disk, price, mem, paused, inflight, armed, edits, pc, base, work>>
    BY DEF FeedFails, desktop
<1>2. todo' \in [Refreshers -> SUBSET Contracts] /\ \A q \in Refreshers : todo'[q] \subseteq todo[q]
    BY DEF FeedFails, IInv, TypeOK
<1>3. \A q \in Refreshers : Sound(work[q])'
    BY <1>1 DEF IInv, Derived, Sound
<1>4. \A q \in Refreshers : \A a \in Alerts : Moved(base[q], work[q], a)'
    BY <1>1 DEF IInv, Derived, Moved, Below
<1>5. \A q \in Refreshers : \A a \in Alerts :
          ContractOf[a] \in todo'[q] =>
              work'[q].alerts[a] = base'[q].alerts[a] /\ work'[q].unread[a] = base'[q].unread[a]
    BY <1>1, <1>2 DEF IInv, Derived
<1>6. Derived'
    BY <1>3, <1>4, <1>5 DEF Derived
<1> QED
    BY <1>1, <1>2, <1>6, FileKept DEF IInv, TypeOK

\* What is saved is the file that was loaded, moved.
LEMMA SaveStep ==
  ASSUME IInv, NEW p \in Refreshers, Save(p)
  PROVE  IInv'
<1>1. /\ disk = base[p] /\ Commit(work[p], {}) /\ Leave(p, "idle")
      /\ UNCHANGED <<price, mem, paused, inflight, edits>>
    BY DEF Save, desktop
<1>2. work[p] \in Files /\ Sound(work[p]) /\ \A a \in Alerts : Moved(disk, work[p], a)
    BY <1>1 DEF IInv, TypeOK, Derived
<1>3. disk' \in Files /\ armed' \subseteq Alerts /\ Sound(disk)' /\ Armed'
    BY <1>1, <1>2, CommitMoved
<1> QED
    BY <1>1, <1>3, LeaveStep DEF IInv, TypeOK

\* A refresh that may not save, or does not live to, changes nothing.
LEMMA GoneStep ==
  ASSUME IInv, NEW p \in Refreshers, Conflict(p) \/ Die(p)
  PROVE  IInv'
<1>1. UNCHANGED <<disk, price, mem, paused, inflight, armed, edits>>
    BY DEF Conflict, Die, desktop
<1>2. Leave(p, "idle") \/ Leave(p, "killed")
    BY DEF Conflict, Die
<1> QED
    BY <1>1, <1>2, LeaveStep, FileKept

\* A price reaches the queue of the UI thread.
LEMMA HearStep ==
  ASSUME IInv, NEW c \in Contracts, Hear(c)
  PROVE  IInv'
<1>1. UNCHANGED <<disk, price, refreshers, mem, paused, armed, edits>>
    BY DEF Hear
<1>2. inflight' \subseteq Contracts \X Prices
    BY DEF Hear, IInv, TypeOK
<1>3. Derived'
    BY <1>1, DerivedUnchanged
<1> QED
    BY <1>1, <1>2, <1>3 DEF IInv, TypeOK, Sound, Armed, refreshers

\* The desktop replaces the file only by what it makes of that file.
LEMMA EvaluateStep ==
  ASSUME IInv, NEW c \in Contracts, NEW v \in Prices, Evaluate(c, v)
  PROVE  IInv'
<1>1. UNCHANGED <<price, refreshers, edits>> /\ inflight' \subseteq Contracts \X Prices
    BY DEF Evaluate, IInv, TypeOK
<1>2. Derived'
    BY <1>1, DerivedUnchanged
<1>3. \/ UNCHANGED <<disk, armed, mem>> /\ paused' \in BOOLEAN
      \/ \E f \in Evaluated(mem, c, v) :
            disk = mem /\ Commit(f, {}) /\ mem' = f /\ paused' \in BOOLEAN
    BY DEF Evaluate, IInv, TypeOK
<1>4. CASE UNCHANGED <<disk, armed, mem>> /\ paused' \in BOOLEAN
    BY <1>1, <1>2, <1>4 DEF IInv, TypeOK, Sound, Armed, refreshers
<1>5. ASSUME NEW f \in Evaluated(mem, c, v), disk = mem, Commit(f, {}), mem' = f, paused' \in BOOLEAN
      PROVE  IInv'
  <2>1. f \in Files /\ Sound(f) /\ \A a \in Alerts : Moved(disk, f, a)
    BY <1>5, EvaluatedFacts, EvaluatedMoves DEF IInv, TypeOK
  <2>2. disk' \in Files /\ armed' \subseteq Alerts /\ Sound(disk)' /\ Armed'
    BY <1>5, <2>1, CommitMoved
  <2> QED
    BY <1>1, <1>2, <1>5, <2>1, <2>2 DEF IInv, TypeOK, refreshers
<1> QED
    BY <1>3, <1>4, <1>5

\* The program starts again from the file.
LEMMA RestartStep ==
  ASSUME IInv, Restart
  PROVE  IInv'
<1>1. UNCHANGED <<disk, price, refreshers, armed, edits>>
    BY DEF Restart
<1>2. Derived'
    BY <1>1, DerivedUnchanged
<1> QED
    BY <1>1, <1>2 DEF IInv, TypeOK, Sound, Armed, refreshers, Restart

\* What users make of an alert: it is sound, triggers nothing and notifies of
\* nothing; what is armed by it was edited for that.
LEMMA EditedFacts ==
  ASSUME IInv, NEW a \in Alerts, NEW f, NEW edited \in SUBSET Alerts,
         \/ f \in Simple(disk, a) /\ edited = IF disk.alerts[a].present THEN {} ELSE {a}
         \/ disk.alerts[a].present /\ f \in Rewatched(disk, a) /\ edited = {a}
         \/ disk.alerts[a].present /\ f \in Patched(disk, a) /\ edited = {}
  PROVE  /\ f \in Files /\ Sound(f) /\ f.unread = disk.unread /\ f.read = disk.read
         /\ \A b \in Alerts : b # a => f.alerts[b] = disk.alerts[b]
         /\ f.alerts[a].triggered => disk.alerts[a].triggered
         /\ f.alerts[a].present /\ ~f.alerts[a].triggered
               => a \in edited \/ (disk.alerts[a].present /\ ~disk.alerts[a].triggered)
<1> DEFINE s == disk.alerts[a]
<1>1. /\ disk \in Files /\ s \in States
      /\ Holds(a, s.last) => s.triggered
      /\ ~s.present => s = Absent
    BY DEF IInv, TypeOK, Files, Sound
<1>2. PICK t \in States :
        /\ f = With(disk, a, t)
        /\ Holds(a, t.last) => t.triggered
        /\ ~t.present => t = Absent
        /\ t.triggered => s.triggered
        /\ t.present /\ ~t.triggered => a \in edited \/ (s.present /\ ~s.triggered)
  <2>1. CASE f \in Simple(disk, a) /\ edited = IF s.present THEN {} ELSE {a}
    <3>1. CASE s.present /\ f = With(disk, a, Absent)
        BY <3>1, Blank DEF Absent
    <3>2. CASE s.present /\ f = With(disk, a, [s EXCEPT !.enabled = ~@])
      <4> DEFINE t == [s EXCEPT !.enabled = ~@]
      <4>1. /\ t \in States /\ t.last = s.last /\ t.triggered = s.triggered
            /\ t.present = s.present
          BY <1>1 DEF States
      <4> HIDE DEF t
      <4>2. f = With(disk, a, t)
          BY <3>2 DEF t
      <4> QED
          BY <1>1, <3>2, <4>1, <4>2
    <3>3. CASE ~s.present /\ \E once \in BOOLEAN : f = With(disk, a, Added(once))
        BY <2>1, <3>3, AddedFacts
    <3> QED
        BY <2>1, <3>1, <3>2, <3>3 DEF Simple
  <2>2. CASE s.present /\ f \in Rewatched(disk, a) /\ edited = {a}
    <3>1. PICK once \in BOOLEAN, enabled \in BOOLEAN :
            f = With(disk, a, Switched(Added(once), once, enabled))
        BY <2>2 DEF Rewatched
    <3> DEFINE t == Switched(Added(once), once, enabled)
    <3>2. t \in States /\ t.present /\ ~t.triggered /\ t.last = None
        BY DEF Added, Absent, States, Switched
    <3> HIDE DEF t
    <3>3. f = With(disk, a, t) /\ ~Holds(a, t.last)
        BY <3>1, <3>2 DEF t, Holds
    <3> QED
        BY <2>2, <3>2, <3>3
  <2>3. CASE s.present /\ f \in Patched(disk, a) /\ edited = {}
    <3>1. PICK once \in BOOLEAN, enabled \in BOOLEAN : f = With(disk, a, Switched(s, once, enabled))
        BY <2>3 DEF Patched
    <3> DEFINE t == Switched(s, once, enabled)
    <3>2. t \in States /\ t.last = s.last /\ t.triggered = s.triggered /\ t.present = s.present
        BY <1>1 DEF States, Switched
    <3> HIDE DEF t
    <3>3. f = With(disk, a, t)
        BY <3>1 DEF t
    <3> QED
        BY <1>1, <2>3, <3>2, <3>3
  <2> QED
    BY <2>1, <2>2, <2>3
<1>3. /\ f \in Files /\ f.alerts = [disk.alerts EXCEPT ![a] = t]
      /\ f.unread = disk.unread /\ f.read = disk.read
    BY <1>1, <1>2 DEF With, Files
<1>4. f.alerts[a] = t /\ \A b \in Alerts : b # a => f.alerts[b] = disk.alerts[b]
    BY <1>1, <1>3 DEF Files
<1>5. Sound(f)
    BY <1>2, <1>4 DEF Sound, IInv
<1> QED
    BY <1>2, <1>3, <1>4, <1>5

\* An edit arms what it makes afresh.
LEMMA EditedStep ==
  ASSUME IInv, NEW a \in Alerts, NEW f, NEW edited \in SUBSET Alerts,
         \/ f \in Simple(disk, a) /\ edited = IF disk.alerts[a].present THEN {} ELSE {a}
         \/ disk.alerts[a].present /\ f \in Rewatched(disk, a) /\ edited = {a}
         \/ disk.alerts[a].present /\ f \in Patched(disk, a) /\ edited = {},
         Commit(f, edited), mem' \in {mem, f},
         UNCHANGED <<price, refreshers, paused, inflight>>, edits' \in 0..MaxEdits
  PROVE  IInv'
<1>3. /\ f \in Files /\ Sound(f) /\ f.unread = disk.unread
      /\ \A b \in Alerts : b # a => f.alerts[b] = disk.alerts[b]
      /\ f.alerts[a].present /\ ~f.alerts[a].triggered
            => a \in edited \/ (disk.alerts[a].present /\ ~disk.alerts[a].triggered)
    BY EditedFacts
<1>4. /\ disk' = f
      /\ armed' = {b \in Alerts : f.unread[b] <= disk.unread[b] /\ (b \in armed \/ b \in edited \/ Below(f, b))}
    BY DEF Commit
<1>5. \A b \in Alerts : f.unread[b] <= disk.unread[b]
    BY <1>3 DEF IInv, TypeOK, Files, Counts
<1>6. Armed'
    BY <1>3, <1>4, <1>5 DEF IInv, Armed
<1>7. Derived'
    BY DerivedUnchanged
<1>8. Sound(disk)'
    BY <1>3, <1>4 DEF Sound
<1>9. TypeOK'
    BY <1>3, <1>4 DEF IInv, TypeOK, refreshers
<1> QED
    BY <1>6, <1>7, <1>8, <1>9 DEF IInv

\* Users add, remove, toggle, rewatch and patch alerts.
LEMMA EditStep ==
  ASSUME IInv, NEW a \in Alerts, Edit(a)
  PROVE  IInv'
<1>1. /\ UNCHANGED <<price, refreshers, paused, inflight>>
      /\ edits' \in 0..MaxEdits
    BY DEF Edit, IInv, TypeOK
<1>2. /\ {} \in SUBSET Alerts /\ {a} \in SUBSET Alerts
      /\ (IF disk.alerts[a].present THEN {} ELSE {a}) \in SUBSET Alerts
    OBVIOUS
<1>3. ASSUME NEW f \in Simple(disk, a), Commit(f, IF disk.alerts[a].present THEN {} ELSE {a}),
             mem' \in {mem, f}
      PROVE  IInv'
    BY <1>1, <1>2, <1>3, EditedStep
<1>4. ASSUME disk.alerts[a].present, NEW f \in Rewatched(disk, a), Commit(f, {a}), UNCHANGED mem
      PROVE  IInv'
    BY <1>1, <1>2, <1>4, EditedStep
<1>5. ASSUME disk.alerts[a].present, NEW f \in Patched(disk, a), Commit(f, {}), UNCHANGED mem
      PROVE  IInv'
    BY <1>1, <1>2, <1>5, EditedStep
<1> QED
    BY <1>3, <1>4, <1>5 DEF Edit

\* An acknowledgement leaves the alerts alone.
LEMMA AcknowledgeStep ==
  ASSUME IInv, NEW a \in Alerts, Acknowledge(a)
  PROVE  IInv'
<1> DEFINE f == [disk EXCEPT !.unread[a] = @ - 1, !.read[a] = @ + 1]
<1>1. disk.unread[a] > 0 /\ Commit(f, {}) /\ UNCHANGED <<price, refreshers, mem, paused, inflight, edits>>
    BY DEF Acknowledge, desktop
<1>2. /\ f \in Files /\ f.alerts = disk.alerts
      /\ \A b \in Alerts : f.unread[b] <= disk.unread[b]
  <2>1. disk \in Files /\ disk.unread \in [Alerts -> Nat] /\ disk.read \in [Alerts -> Nat]
    BY DEF IInv, TypeOK, Files, Counts
  <2> DEFINE U == [disk.unread EXCEPT ![a] = @ - 1]
             R == [disk.read EXCEPT ![a] = @ + 1]
  <2>2. U \in [Alerts -> Nat] /\ R \in [Alerts -> Nat] /\ \A b \in Alerts : U[b] <= disk.unread[b]
    BY <1>1, <2>1
  <2>3. f = [disk EXCEPT !.unread = U, !.read = R]
    BY <2>1 DEF Files
  <2> HIDE DEF U, R, f
  <2> QED
    BY <2>1, <2>2, <2>3 DEF Files, Counts
<1> HIDE DEF f
<1>3. disk' = f /\ armed' = {b \in Alerts : f.unread[b] <= disk.unread[b] /\ (b \in armed \/ Below(f, b))}
    BY <1>1 DEF Commit
<1>4. Armed' /\ Sound(disk)'
    BY <1>2, <1>3 DEF IInv, Armed, Sound
<1>5. Derived'
    BY <1>1, DerivedUnchanged
<1> QED
    BY <1>1, <1>2, <1>3, <1>4, <1>5 DEF IInv, TypeOK, refreshers

\* A feed quotes another price.
LEMMA MoveStep ==
  ASSUME IInv, NEW c \in Contracts, Move(c)
  PROVE  IInv'
<1>1. UNCHANGED <<disk, refreshers, mem, paused, inflight, armed, edits>> /\ price' \in [Contracts -> Prices]
    BY DEF Move, desktop, IInv, TypeOK
<1>2. Derived'
    BY <1>1, DerivedUnchanged
<1> QED
    BY <1>1, <1>2 DEF IInv, TypeOK, Sound, Armed, refreshers

\* Every step keeps the invariant.
LEMMA NextIInv == IInv /\ [Next]_vars => IInv'
<1> SUFFICES ASSUME IInv, [Next]_vars
             PROVE  IInv'
    OBVIOUS
<1>1. ASSUME NEW p \in Refreshers, RefreshStep(p) \/ Die(p)
      PROVE  IInv'
    BY <1>1, BeginStep, RefreshKeeps, FeedFailsStep, SaveStep, GoneStep DEF RefreshStep
<1>2. ASSUME NEW c \in Contracts, Hear(c) \/ Move(c) \/ \E v \in Prices : Evaluate(c, v)
      PROVE  IInv'
    BY <1>2, HearStep, MoveStep, EvaluateStep
<1>3. ASSUME NEW a \in Alerts, Edit(a) \/ Acknowledge(a)
      PROVE  IInv'
    BY <1>3, EditStep, AcknowledgeStep
<1>4. CASE UNCHANGED vars
  <2>1. UNCHANGED <<disk, price, refreshers, mem, paused, inflight, armed, edits>>
    BY <1>4 DEF vars, desktop
  <2>2. Derived'
    BY <2>1, DerivedUnchanged
  <2> QED
    BY <2>1, <2>2 DEF IInv, TypeOK, Sound, Armed, refreshers
<1> QED
    BY <1>1, <1>2, <1>3, <1>4, RestartStep DEF Next

\* The inductive invariant of the alerts, for any alerts, prices, processes and
\* sizes: what every copy of the file holds derives from the file.
THEOREM Invariance == Spec => []IInv
<1> QED
    BY InitIInv, NextIInv, PTL DEF Spec

\* The file, its copies and the queue keep their types (core/models.py AppConfig).
THEOREM TypeCorrect == Spec => []TypeOK
<1>1. IInv => TypeOK
    BY DEF IInv
<1> QED
    BY <1>1, Invariance, PTL

\* An alert the file shows as armed can still trigger: the price it remembers is
\* short of its threshold (alert_from_payload, evaluate_alerts_for_contract).
THEOREM ArmedAlertsCanTrigger == Spec => []ArmedIsArmed
<1>1. IInv => ArmedIsArmed
    BY DEF IInv, Sound, ArmedIsArmed
<1> QED
    BY <1>1, Invariance, PTL

-----------------------------------------------------------------------------
(* What a step may do to the file.                                         *)

\* A commit of what an evaluation left notifies of what it triggers, and of
\* nothing that was not armed.
LEMMA MovedNotices ==
  ASSUME IInv, \A a \in Alerts : Moved(disk, disk', a), NEW a \in Alerts
  PROVE  /\ Notified(a) <=> Triggered(a)
         /\ Notified(a) => a \in armed
         /\ disk'.unread[a] >= disk.unread[a]
<1>1. disk.unread[a] \in Nat
    BY DEF IInv, TypeOK, Files, Counts
<1>2. Moved(disk, disk', a)
    OBVIOUS
<1> QED
    BY <1>1, <1>2 DEF Moved, Notified, Triggered, IInv, Armed

\* Who changes the file, and how.
LEMMA DiskSteps ==
  ASSUME IInv, [Next]_vars
  PROVE  \/ UNCHANGED disk
         \/ \A a \in Alerts : Moved(disk, disk', a)
         \/ /\ disk'.unread = disk.unread
            /\ \A a \in Alerts : disk'.alerts[a].triggered => disk.alerts[a].triggered
         \/ /\ disk'.alerts = disk.alerts
            /\ \A a \in Alerts : /\ disk'.unread[a] <= disk.unread[a]
                                  /\ disk'.read[a] - disk.read[a] = disk.unread[a] - disk'.unread[a]
<1> DEFINE Goal == \/ UNCHANGED disk
                   \/ \A a \in Alerts : Moved(disk, disk', a)
                   \/ /\ disk'.unread = disk.unread
                      /\ \A a \in Alerts : disk'.alerts[a].triggered => disk.alerts[a].triggered
                   \/ /\ disk'.alerts = disk.alerts
                      /\ \A a \in Alerts : /\ disk'.unread[a] <= disk.unread[a]
                                            /\ disk'.read[a] - disk.read[a] = disk.unread[a] - disk'.unread[a]
<1>1. ASSUME NEW p \in Refreshers, RefreshStep(p) \/ Die(p)
      PROVE  Goal
  <2>1. UNCHANGED disk \/ Save(p)
    BY <1>1 DEF RefreshStep, Begin, Conflict, Refresh, FeedFails, Die
  <2>2. CASE Save(p)
    <3>1. disk = base[p] /\ disk' = work[p]
      BY <2>2 DEF Save, Commit
    <3> QED
      BY <3>1 DEF IInv, Derived, Moved, Below
  <2> QED
    BY <2>1, <2>2
<1>2. ASSUME NEW c \in Contracts, Hear(c) \/ Move(c) \/ \E v \in Prices : Evaluate(c, v)
      PROVE  Goal
  <2>1. CASE Hear(c) \/ Move(c)
    BY <2>1 DEF Hear, Move
  <2>2. ASSUME NEW v \in Prices, Evaluate(c, v)
        PROVE  Goal
    <3>1. UNCHANGED disk \/ \E f \in Evaluated(mem, c, v) : disk = mem /\ disk' = f
      BY <2>2 DEF Evaluate, Commit
    <3>2. ASSUME NEW f \in Evaluated(mem, c, v), disk = mem, disk' = f
          PROVE  \A a \in Alerts : Moved(disk, disk', a)
      <4>1. \A a \in Alerts : Moved(mem, f, a)
        BY <3>2, EvaluatedMoves DEF IInv, TypeOK
      <4> QED
        BY <3>2, <4>1 DEF Moved, Below
    <3> QED
      BY <3>1, <3>2
  <2> QED
    BY <1>2, <2>1, <2>2
<1>3. ASSUME NEW a \in Alerts, Edit(a)
      PROVE  Goal
  <2>1. {} \in SUBSET Alerts /\ {a} \in SUBSET Alerts
        /\ (IF disk.alerts[a].present THEN {} ELSE {a}) \in SUBSET Alerts
    OBVIOUS
  <2>2. PICK f : /\ disk' = f
                 /\ \/ f \in Simple(disk, a)
                    \/ disk.alerts[a].present /\ f \in Rewatched(disk, a)
                    \/ disk.alerts[a].present /\ f \in Patched(disk, a)
    BY <1>3 DEF Edit, Commit
  <2>3. /\ f.unread = disk.unread
        /\ \A b \in Alerts : b # a => f.alerts[b] = disk.alerts[b]
        /\ f.alerts[a].triggered => disk.alerts[a].triggered
    BY <2>1, <2>2, EditedFacts
  <2> QED
    BY <2>2, <2>3
<1>4. ASSUME NEW a \in Alerts, Acknowledge(a)
      PROVE  Goal
  <2>1. disk.unread[a] > 0 /\ disk' = [disk EXCEPT !.unread[a] = @ - 1, !.read[a] = @ + 1]
    BY <1>4 DEF Acknowledge, Commit
  <2>2. disk \in Files /\ disk.unread \in [Alerts -> Nat] /\ disk.read \in [Alerts -> Nat]
    BY DEF IInv, TypeOK, Files, Counts
  <2>3. /\ disk'.alerts = disk.alerts
        /\ disk'.unread = [disk.unread EXCEPT ![a] = @ - 1]
        /\ disk'.read = [disk.read EXCEPT ![a] = @ + 1]
    BY <2>1, <2>2 DEF Files
  <2>4. ASSUME NEW b \in Alerts
        PROVE  /\ disk'.unread[b] <= disk.unread[b]
               /\ disk'.read[b] - disk.read[b] = disk.unread[b] - disk'.unread[b]
    BY <2>2, <2>3
  <2> QED
    BY <2>3, <2>4
<1>5. CASE Restart \/ UNCHANGED vars
    BY <1>5 DEF Restart, vars
<1> QED
    BY <1>1, <1>2, <1>3, <1>4, <1>5 DEF Next

\* A trigger is consumed exactly when its notification reaches the file
\* (append_alert_events before evaluate_alerts_for_contract's changes).
THEOREM TriggerIsNoticed == Spec => NoticedTogether
<1>1. ASSUME IInv, [Next]_vars, NEW a \in Alerts
      PROVE  Notified(a) <=> Triggered(a)
  <2>1. disk.unread[a] \in Nat /\ disk'.unread[a] \in Nat
    BY <1>1, NextIInv DEF IInv, TypeOK, Files, Counts
  <2>2. CASE \A b \in Alerts : Moved(disk, disk', b)
    BY <1>1, <2>2, MovedNotices
  <2>3. CASE /\ disk'.unread[a] <= disk.unread[a]
             /\ disk'.alerts[a].triggered => disk.alerts[a].triggered
    BY <2>1, <2>3 DEF Notified, Triggered
  <2> QED
    BY <1>1, <2>1, <2>2, <2>3, DiskSteps
<1>2. IInv /\ [Next]_vars => [\A a \in Alerts : Notified(a) <=> Triggered(a)]_vars
    BY <1>1
<1> QED
    BY <1>2, Invariance, PTL DEF Spec, NoticedTogether

\* Processes that saw the same crossing do not both record it (save_config's
\* revision check over evaluate_alerts_for_contract).
THEOREM NoticedOncePerArming == Spec => OncePerArming
<1>1. ASSUME IInv, [Next]_vars, NEW a \in Alerts
      PROVE  Notified(a) => a \in armed
  <2>1. disk.unread[a] \in Nat /\ disk'.unread[a] \in Nat
    BY <1>1, NextIInv DEF IInv, TypeOK, Files, Counts
  <2>2. CASE \A b \in Alerts : Moved(disk, disk', b)
    BY <1>1, <2>2, MovedNotices
  <2>3. CASE /\ disk'.unread[a] <= disk.unread[a]
             /\ disk'.alerts[a].triggered => disk.alerts[a].triggered
    BY <2>1, <2>3 DEF Notified
  <2> QED
    BY <1>1, <2>1, <2>2, <2>3, DiskSteps
<1>2. IInv /\ [Next]_vars => [\A a \in Alerts : Notified(a) => a \in armed]_vars
    BY <1>1
<1> QED
    BY <1>2, Invariance, PTL DEF Spec, OncePerArming

\* Only an acknowledgement takes a notification from the unread ones
\* (acknowledge_alert_event, append_alert_events).
THEOREM UnreadUntilAcknowledged == Spec => UnreadIsKept
<1> DEFINE OnlyAcknowledged(a) == disk'.unread[a] < disk.unread[a] =>
                          disk'.read[a] - disk.read[a] = disk.unread[a] - disk'.unread[a]
<1>1. ASSUME IInv, [Next]_vars, NEW a \in Alerts
      PROVE  OnlyAcknowledged(a)
  <2>1. \A b \in Alerts : disk.unread[b] \in Nat
    BY <1>1 DEF IInv, TypeOK, Files, Counts
  <2>2. CASE \A b \in Alerts : Moved(disk, disk', b)
    BY <1>1, <2>1, <2>2 DEF Moved
  <2> QED
    BY <1>1, <2>1, <2>2, DiskSteps
<1>2. IInv /\ [Next]_vars => [\A a \in Alerts : OnlyAcknowledged(a)]_vars
    BY <1>1
<1> QED
    BY <1>2, Invariance, PTL DEF Spec, UnreadIsKept
=============================================================================
