-------------------------- MODULE CopyOutbox_proofs --------------------------
(***************************************************************************)
(* Proofs about CopyOutbox for any activities, timestamps and outbox size. *)
(* The argument: both threads respect the order of seconds.  Every task on *)
(* ui_queue comes after recorded activities only, because the poller waits *)
(* for each task before it sends the next, and a refusal ends its round.   *)
(* So the cursor never passes an activity that is not recorded, and while  *)
(* writes are not paused memory differs from the file only by the task in  *)
(* hand.                                                                   *)
(***************************************************************************)
EXTENDS CopyOutboxHistory, FiniteSetTheorems, WellFoundedInduction, TLAPS

\* An activity is recorded: in the outbox of c, or settled in the past.
Recorded(c, b, past) == c.outbox[b] # "none" \/ b \in past

\* A configuration that skipped nothing of what the feed has shown: its
\* cursor has passed recorded activities only and reached every entry, and
\* the outbox is within its limit.
Sound(c, shown, past) ==
    /\ Entries(c.outbox) \subseteq shown
    /\ c.cursor.seen \subseteq shown
    /\ c.cursor.ts = 0 \/ \E v \in shown : c.cursor.ts = Ts[v]
    /\ \A a \in Entries(c.outbox) : Ts[a] <= c.cursor.ts
    /\ Cardinality(Entries(c.outbox)) <= Limit
    /\ \A b \in shown : Ts[b] < c.cursor.ts \/ b \in c.cursor.seen => Recorded(c, b, past)

\* How an entry in memory may differ from the file's, by the UI thread's step.
Linked(a) ==
    \/ mem.outbox[a] = disk.outbox[a]
    \/ stale /\ mem.outbox[a] = "ambiguous" /\ disk.outbox[a] # "none"
    \/ /\ ui.at = "checkpoint"
       /\ \/ a # ui.task.act /\ mem.outbox[a] = "none" /\ disk.outbox[a] \in Conclusive
          \/ a = ui.task.act /\ disk.outbox[a] = "none"
    \/ /\ ui.at = "outcome" /\ a = ui.task.act
       /\ disk.outbox[a] \in Replayable /\ mem.outbox[a] # "none"

MemoryFollows ==
    /\ \A a \in Acts : Linked(a)
    /\ ui.at # "checkpoint" => mem.cursor = disk.cursor
    /\ ui.at = "checkpoint" => mem.outbox[ui.task.act] = "pending"
    /\ ui.at = "handling" => mem.outbox[ui.task.act] \in Replayable
    /\ ui.at = "outcome" => mem.outbox[ui.task.act] # "none"

\* Every activity of an earlier second than a is recorded in memory.
Due(a) == \A b \in visible : Ts[b] < Ts[a] => Recorded(mem, b, done)

QueueInOrder == \A i \in DOMAIN queue : queue[i].act \in visible /\ Due(queue[i].act)

\* The poller waits for at most one task, on ui_queue or in hand.
InQueue(b) == \E i \in DOMAIN queue : queue[i].live /\ queue[i].act = b
InHand(b)  == ui.task.live /\ ui.task.act = b
OneLive ==
    /\ \A i, j \in DOMAIN queue : queue[i].live /\ queue[j].live => i = j
    /\ ui.task.live => ui.at # "idle" /\ \A i \in DOMAIN queue : ~queue[i].live
    /\ (ui.task.live \/ \E i \in DOMAIN queue : queue[i].live) =>
          poller.at \in {"replaying", "waiting"} /\ reply = "none"
    /\ poller.at \notin {"replaying", "waiting"} => reply = "none"

\* What precedes the items of the poller's list is recorded, on the list
\* itself, or the task it waits for.
ReadingBehind ==
    poller.at = "reading" =>
        \A b \in visible : Ts[b] < cursor.ts \/ b \in cursor.seen => Recorded(mem, b, done)
CursorShown ==
    poller.at = "reading" =>
        /\ cursor.seen \subseteq visible
        /\ cursor.ts = 0 \/ \E v \in visible : cursor.ts = Ts[v]
ReplaysInOrder ==
    poller.at \in {"replay", "replaying"} => todo \subseteq visible /\ \A a \in todo : Due(a)
Awaited(b) ==
    poller.at = "waiting" /\ (reply = "no" \/ (reply = "none" /\ (InQueue(b) \/ InHand(b))))
NewInOrder ==
    poller.at \in {"new", "waiting"} =>
        /\ todo \subseteq visible
        /\ \A a \in todo, b \in visible :
              Ts[b] < Ts[a] => Recorded(mem, b, done) \/ b \in todo \/ Awaited(b)

InOrder == QueueInOrder /\ OneLive /\ ReadingBehind /\ CursorShown /\ ReplaysInOrder /\ NewInOrder

IInv ==
    /\ TypeOK
    /\ paused => ui.at = "idle"
    /\ Listed(disk.outbox, Conclusive) \subseteq done
    /\ Sound(disk, visible, done)
    /\ ~paused => Sound(mem, visible, done) /\ MemoryFollows /\ InOrder

-----------------------------------------------------------------------------
(* Facts about configurations.                                             *)

LEMMA ConstantsTyped ==
    /\ IsFiniteSet(Acts) /\ \A a \in Acts : Ts[a] \in Nat \ {0}
    /\ Limit \in Nat \ {0} /\ NoTask \in Tasks
<1>1. (CHOOSE a \in Acts : TRUE) \in Acts
  BY OutboxAssumption
<1> QED
  BY <1>1, OutboxAssumption DEF NoTask, Tasks

\* A non-empty finite set of naturals has a greatest element.
LEMMA GreatestExists ==
    ASSUME NEW S \in SUBSET Nat, IsFiniteSet(S), S # {}
    PROVE  \E m \in S : \A t \in S : t <= m
<1> DEFINE Size == {n \in Nat : \E T \in SUBSET S :
                       /\ T # {} /\ Cardinality(T) = n
                       /\ ~ \E m \in T : \A t \in T : t <= m}
<1> SUFFICES ASSUME ~ \E m \in S : \A t \in S : t <= m PROVE FALSE
    OBVIOUS
<1>1. Size # {}
  <2>1. Cardinality(S) \in Nat
    BY FS_CardinalityType
  <2> QED
    BY <2>1
<1>2. PICK n \in Size : \A k \in Size : n <= k
  <2>1. \E x \in Size : \A y \in Size : ~(<<y, x>> \in OpToRel(<, Nat))
    BY <1>1, NatLessThanWellFounded, WFMin, Zenon
  <2>2. PICK x \in Size : \A y \in Size : ~(<<y, x>> \in OpToRel(<, Nat))
    BY <2>1
  <2>3. \A y \in Size : ~(y < x)
    BY <2>2, Zenon DEF OpToRel
  <2> QED
    BY <2>3
<1>3. PICK T \in SUBSET S : /\ T # {} /\ Cardinality(T) = n
                            /\ ~ \E m \in T : \A t \in T : t <= m
  BY <1>2
<1>4. PICK x \in T : TRUE
  BY <1>3
<1>5. IsFiniteSet(T) /\ IsFiniteSet(T \ {x}) /\ Cardinality(T \ {x}) = n - 1
  BY <1>3, <1>4, FS_Subset, FS_RemoveElement
<1>6. T \ {x} # {}
  BY <1>3, <1>4
<1>7. PICK m \in T \ {x} : \A t \in T \ {x} : t <= m
  <2>1. n - 1 \in Nat
    BY <1>5, FS_CardinalityType
  <2>2. n - 1 \notin Size
    BY <1>2, <2>1
  <2> QED
    BY <1>5, <1>6, <2>1, <2>2
<1>8. CASE x <= m
  BY <1>3, <1>4, <1>7, <1>8
<1>9. CASE ~(x <= m)
  <2>1. \A t \in T : t <= x
    BY <1>4, <1>7, <1>9
  <2> QED
    BY <1>3, <1>4, <2>1
<1> QED
  BY <1>8, <1>9

LEMMA LatestFacts ==
    ASSUME NEW S \in SUBSET Acts
    PROVE  /\ Latest(S) \in Nat
           /\ \A a \in S : Ts[a] <= Latest(S)
           /\ Latest(S) = 0 \/ \E a \in S : Latest(S) = Ts[a]
<1>1. CASE S = {}
  BY <1>1 DEF Latest
<1>2. CASE S # {}
  <2> DEFINE Times == {Ts[a] : a \in S}
  <2>1. Times \in SUBSET Nat /\ Times # {}
    BY <1>2, ConstantsTyped
  <2>2. IsFiniteSet(Times)
    <3>1. IsFiniteSet(S)
      BY ConstantsTyped, FS_Subset
    <3> DEFINE f == [a \in S |-> Ts[a]]
    <3>2. f \in Surjection(S, Times)
      BY DEF Surjection
    <3> QED
      BY <3>1, <3>2, FS_Surjection
  <2>3. \E t \in Times : \A u \in Times : u <= t
    BY <2>1, <2>2, GreatestExists
  <2>4. \E t \in Times : \A a \in S : Ts[a] <= t
    BY <2>3
  <2>5. Latest(S) = CHOOSE t \in Times : \A a \in S : Ts[a] <= t
    BY <1>2 DEF Latest
  <2>6. Latest(S) \in Times /\ \A a \in S : Ts[a] <= Latest(S)
    BY <2>4, <2>5
  <2> QED
    BY <2>1, <2>6
<1> QED
  BY <1>1, <1>2

LEMMA EntriesSmall ==
    ASSUME NEW box
    PROVE  /\ Entries(box) \in SUBSET Acts
           /\ IsFiniteSet(Entries(box)) /\ Cardinality(Entries(box)) \in Nat
<1>1. Entries(box) \in SUBSET Acts
  BY DEF Entries, Listed
<1> QED
  BY <1>1, ConstantsTyped, FS_Subset, FS_CardinalityType

\* Eviction only drops conclusive entries, and none when n is zero.
LEMMA EvictFacts ==
    ASSUME NEW box \in [Acts -> EntryState], NEW n \in Nat, NEW pruned \in Evict(box, n)
    PROVE  /\ pruned \in [Acts -> EntryState]
           /\ \A a \in Acts : \/ pruned[a] = box[a]
                              \/ box[a] \in Conclusive /\ pruned[a] = "none"
           /\ n = 0 => pruned = box
<1> DEFINE old  == Listed(box, Conclusive)
           size == IF Cardinality(old) < n THEN Cardinality(old) ELSE n
<1>1. PICK R \in SUBSET old : /\ Cardinality(R) = size
                              /\ pruned = [a \in Acts |-> IF a \in R THEN "none" ELSE box[a]]
  BY Zenon DEF Evict
<1>2. old \in SUBSET Acts
  BY DEF Listed
<1>3. IsFiniteSet(R) /\ Cardinality(old) \in Nat
  BY <1>2, ConstantsTyped, FS_Subset, FS_CardinalityType
<1>4. n = 0 => R = {}
  BY <1>1, <1>3, FS_EmptySet
<1>5. \A a \in R : a \in Acts /\ box[a] \in Conclusive
  BY DEF Listed
<1> QED
  BY <1>1, <1>4, <1>5 DEF EntryState

LEMMA OverflowType ==
    ASSUME NEW box, NEW room \in Nat
    PROVE  /\ Overflow(box, room) \in Nat
           /\ Cardinality(Entries(box)) + room <= Limit => Overflow(box, room) = 0
  BY EntriesSmall, ConstantsTyped DEF Overflow

\* Nothing is evicted from an outbox within its limit.
LEMMA NoEviction ==
    ASSUME NEW box \in [Acts -> EntryState], Cardinality(Entries(box)) <= Limit,
           NEW pruned \in Evict(box, Overflow(box, 0))
    PROVE  pruned = box
<1>1. Overflow(box, 0) = 0 /\ Overflow(box, 0) \in Nat
  BY OverflowType, EntriesSmall
<1> QED
  BY <1>1, EvictFacts

LEMMA RememberFacts ==
    ASSUME NEW c \in Cursors, NEW a \in Acts
    PROVE  /\ Remember(c, a) \in Cursors
           /\ Remember(c, a).ts = IF Ts[a] > c.ts THEN Ts[a] ELSE c.ts
           /\ Remember(c, a).seen \subseteq c.seen \cup {a}
  BY ConstantsTyped DEF Remember, Cursors

LEMMA StagedFacts ==
    ASSUME NEW c \in Configs, NEW a \in Acts, NEW d \in Staged(c, a)
    PROVE  /\ d \in Configs
           /\ d.cursor = Remember(c.cursor, a)
           /\ d.outbox[a] = "pending"
           /\ \A b \in Acts \ {a} : \/ d.outbox[b] = c.outbox[b]
                                    \/ c.outbox[b] \in Conclusive /\ d.outbox[b] = "none"
           /\ Cardinality(Entries(d.outbox)) <= Limit
<1>1. PICK box \in Evict(c.outbox, Overflow(c.outbox, 1)) :
          /\ Cardinality(Entries(box)) < Limit
          /\ d = [cursor |-> Remember(c.cursor, a), outbox |-> [box EXCEPT ![a] = "pending"]]
  BY DEF Staged
<1>2. c.outbox \in [Acts -> EntryState] /\ c.cursor \in Cursors
  BY DEF Configs
<1>3. /\ box \in [Acts -> EntryState]
      /\ \A b \in Acts : \/ box[b] = c.outbox[b]
                         \/ c.outbox[b] \in Conclusive /\ box[b] = "none"
  BY <1>2, OverflowType, EvictFacts
<1>4. d \in Configs
  BY <1>1, <1>2, <1>3, RememberFacts DEF Configs, EntryState, Unresolved, Replayable
<1>5. Entries(d.outbox) = Entries(box) \cup {a}
  BY <1>1, <1>3 DEF Entries, Listed, EntryState, Unresolved, Replayable
<1>6. Cardinality(Entries(d.outbox)) <= Limit
  <2>1. IsFiniteSet(Entries(box)) /\ Cardinality(Entries(box)) \in Nat
    BY EntriesSmall
  <2> DEFINE E == Entries(box)
             n == Cardinality(E)
  <2>2. Cardinality(E \cup {a}) = IF a \in E THEN n ELSE n + 1
    BY <2>1, FS_AddElement, Zenon
  <2>3. n < Limit /\ Limit \in Nat /\ n \in Nat
    BY <1>1, <2>1, ConstantsTyped
  <2>4. n + 1 <= Limit /\ n <= Limit
    BY <2>3
  <2> QED
    BY <1>5, <2>2, <2>4
<1> QED
  BY <1>1, <1>3, <1>4, <1>6

\* Soundness survives new activities on the feed and new settlements, ...
LEMMA SoundShown ==
    ASSUME NEW c \in Configs, NEW shown \in SUBSET Acts, NEW past, NEW a \in Acts \ shown,
           Sound(c, shown, past), \A b \in shown : Ts[b] <= Ts[a]
    PROVE  Sound(c, shown \cup {a}, past)
<1>1. a \notin c.cursor.seen /\ ~(Ts[a] < c.cursor.ts)
  BY ConstantsTyped DEF Sound, Configs, Cursors
<1> QED
  BY <1>1 DEF Sound

LEMMA SoundPast ==
    ASSUME NEW c, NEW shown, NEW past, NEW past2,
           Sound(c, shown, past), past \subseteq past2
    PROVE  Sound(c, shown, past2)
  BY DEF Sound, Recorded

\* ... a new state of an entry, ...
LEMMA SoundRestated ==
    ASSUME NEW c \in Configs, NEW d \in Configs, NEW shown \in SUBSET Acts, NEW past,
           Sound(c, shown, past), d.cursor = c.cursor,
           \A a \in Acts : d.outbox[a] = "none" <=> c.outbox[a] = "none"
    PROVE  Sound(d, shown, past)
<1>1. Entries(d.outbox) = Entries(c.outbox)
  BY DEF Entries, Listed, Configs
<1> QED
  BY <1>1 DEF Sound, Recorded

\* ... and the checkpoint of an activity that is due.
LEMMA SoundStaged ==
    ASSUME NEW c \in Configs, NEW shown \in SUBSET Acts, NEW past, NEW a \in shown,
           NEW d \in Staged(c, a),
           Sound(c, shown, past),
           \A b \in shown : Ts[b] < Ts[a] => Recorded(c, b, past),
           \A b \in Acts : c.outbox[b] \in Conclusive => b \in past
    PROVE  /\ Sound(d, shown, past)
           /\ \A b \in Acts : Recorded(c, b, past) => Recorded(d, b, past)
<1>1. a \in Acts /\ c.cursor \in Cursors
  BY DEF Configs
<1> DEFINE ts == IF Ts[a] > c.cursor.ts THEN Ts[a] ELSE c.cursor.ts
<1>2. d.cursor.ts = ts /\ d.cursor.seen \subseteq c.cursor.seen \cup {a}
  BY <1>1, StagedFacts, RememberFacts
<1>3. \A b \in Acts : Recorded(c, b, past) => Recorded(d, b, past)
  BY <1>1, StagedFacts DEF Recorded
<1>4. Entries(d.outbox) \subseteq Entries(c.outbox) \cup {a}
  <2> SUFFICES ASSUME NEW b \in Acts \ {a}, d.outbox[b] \in EntryState \ {"none"}
               PROVE  c.outbox[b] \in EntryState \ {"none"}
      BY DEF Entries, Listed
  <2> QED
    BY <1>1, StagedFacts
<1>5. c.cursor.ts \in Nat /\ \A b \in Acts : Ts[b] \in Nat
  BY <1>1, ConstantsTyped DEF Cursors
<1>6. Recorded(d, a, past)
  BY <1>1, StagedFacts DEF Recorded
<1>7. \A b \in shown : Ts[b] < ts \/ b \in d.cursor.seen => Recorded(d, b, past)
  BY <1>2, <1>3, <1>5, <1>6 DEF Sound
<1>8. \A b \in Entries(d.outbox) : Ts[b] <= ts
  BY <1>1, <1>4, <1>5, EntriesSmall DEF Sound
<1>9. Cardinality(Entries(d.outbox)) <= Limit
  BY <1>1, StagedFacts
<1>10. /\ Entries(d.outbox) \subseteq shown /\ d.cursor.seen \subseteq shown
       /\ ts = 0 \/ \E v \in shown : ts = Ts[v]
  BY <1>2, <1>4 DEF Sound
<1> QED
  BY <1>2, <1>3, <1>7, <1>8, <1>9, <1>10 DEF Sound

-----------------------------------------------------------------------------
(* Initial states and types.                                               *)

LEMMA InitialFacts == Initial \in Configs /\ Sound(Initial, Legacy, {})
<1>1. Legacy \in SUBSET Acts /\ Cardinality(Legacy) <= Limit
  BY OutboxAssumption
<1>2. /\ Latest(Legacy) \in Nat /\ Identities(Legacy) \subseteq Legacy
      /\ \A a \in Legacy : Ts[a] <= Latest(Legacy)
      /\ Latest(Legacy) = 0 \/ \E a \in Legacy : Latest(Legacy) = Ts[a]
  BY <1>1, LatestFacts DEF Identities
<1>3. Initial \in Configs
  BY <1>1, <1>2 DEF Initial, Configs, Cursors, EntryState, Unresolved, Replayable
<1>4. Entries(Initial.outbox) = Legacy
  BY <1>1 DEF Initial, Entries, Listed, EntryState, Unresolved, Replayable
<1>5. \A b \in Legacy : Recorded(Initial, b, {})
  BY <1>1 DEF Initial, Recorded
<1> QED
  BY <1>1, <1>2, <1>3, <1>4, <1>5 DEF Initial, Sound

LEMMA InitInv == Init => IInv
<1> SUFFICES ASSUME Init PROVE IInv
    OBVIOUS
<1> USE DEF Init
<1>1. TypeOK
  <2>1. /\ queue \in Seq(Tasks) /\ Len(queue) <= MaxQueue
        /\ ui \in [at : {"idle", "checkpoint", "handling", "outcome"}, task : Tasks]
    BY ConstantsTyped, OutboxAssumption DEF Idle
  <2>2. visible \subseteq Acts /\ cursor \in Cursors
    BY InitialFacts, OutboxAssumption DEF Configs
  <2> QED
    BY <2>1, <2>2, InitialFacts DEF TypeOK, Off
<1>2. Listed(disk.outbox, Conclusive) \subseteq done
  BY OutboxAssumption DEF Listed, Initial, Conclusive
<1>3. MemoryFollows
  BY DEF MemoryFollows, Linked, Idle
<1>4. InOrder
  BY DEF InOrder, QueueInOrder, OneLive, ReadingBehind, CursorShown, ReplaysInOrder, NewInOrder,
         Idle, NoTask, Off
<1> QED
  BY <1>1, <1>2, <1>3, <1>4, InitialFacts DEF IInv, Idle

UISteps == UIStep \/ SaveSettings

LEMMA TypeUI == TypeOK /\ UISteps => TypeOK'
<1> SUFFICES ASSUME TypeOK, UISteps PROVE TypeOK'
    OBVIOUS
<1> USE DEF TypeOK
<1>1. Idle \in [at : {"idle", "checkpoint", "handling", "outcome"}, task : Tasks]
  BY ConstantsTyped DEF Idle
<1>2. queue # <<>> => /\ Head(queue) \in Tasks
                      /\ Tail(queue) \in Seq(Tasks) /\ Len(Tail(queue)) <= MaxQueue
  BY OutboxAssumption
<1>3. ASSUME disk' \in Configs, done' = done \cup Listed(disk'.outbox, Conclusive)
      PROVE  done' \subseteq Acts
  BY <1>3 DEF Listed
<1>4. CASE Decline
  BY <1>2, <1>4 DEF Decline, Acknowledge, file
<1>5. CASE TakeReplay
  BY <1>2, <1>5 DEF TakeReplay, file, thread, Tasks
<1>6. CASE TakeNew
  <2>1. mem' \in Configs
    BY <1>2, <1>6, StagedFacts DEF TakeNew, Tasks
  <2> QED
    BY <1>2, <1>6, <2>1 DEF TakeNew, file, thread
<1>7. CASE Checkpoint
  BY <1>3, <1>7 DEF Checkpoint, Saves, Published, thread
<1>8. CASE CheckpointFails
  BY <1>1, <1>3, <1>8 DEF CheckpointFails, NotWritten, Uncertain, Published, Finish, Acknowledge, file
<1>9. CASE Handle
  <2>1. PICK o \in Outcomes(ui.task.act) :
           \E pruned \in Evict([mem.outbox EXCEPT ![ui.task.act] = o],
                               Overflow([mem.outbox EXCEPT ![ui.task.act] = o], 0)) :
              mem' = [mem EXCEPT !.outbox = pruned]
    BY <1>9 DEF Handle
  <2> DEFINE box == [mem.outbox EXCEPT ![ui.task.act] = o]
  <2>2. o \in EntryState
    BY <2>1 DEF Outcomes, EntryState, Unresolved, Replayable, Conclusive
  <2>3. box \in [Acts -> EntryState]
    BY <2>2 DEF Configs
  <2>4. \A pruned \in Evict(box, Overflow(box, 0)) : pruned \in [Acts -> EntryState]
    BY <2>3, OverflowType, EvictFacts
  <2>5. mem' \in Configs
    BY <2>1, <2>4 DEF Configs
  <2> QED
    BY <1>9, <2>5 DEF Handle, file, thread
<1>10. CASE Record
  BY <1>1, <1>3, <1>10 DEF Record, Saves, Published, Finish, Acknowledge
<1>11. CASE RecordFails
  BY <1>1, <1>3, <1>11 DEF RecordFails, NotWritten, Uncertain, Published, Finish, Acknowledge, file
<1>12. CASE SaveSettings
  BY <1>3, <1>12 DEF SaveSettings, Saves, NotWritten, Uncertain, Published, file, desk, thread
<1> QED
  BY <1>4, <1>5, <1>6, <1>7, <1>8, <1>9, <1>10, <1>11, <1>12 DEF UISteps, UIStep

Polling == PollerStep \/ Start \/ Stop

LEMMA TypePolling == TypeOK /\ Polling => TypeOK'
<1> SUFFICES ASSUME TypeOK, Polling PROVE TypeOK'
    OBVIOUS
<1> USE DEF TypeOK, file, desk, thread
<1>1. CASE Start
  BY <1>1 DEF Start, Listed
<1>2. CASE Stop
  BY <1>2 DEF Stop
<1>3. CASE BeginRound
  BY <1>3 DEF BeginRound, Listed
<1>4. CASE Exit
  BY <1>4 DEF Exit, Off
<1>5. ASSUME NEW a \in Acts, Send(a)
      PROVE  queue' \in Seq(Tasks) /\ Len(queue') <= MaxQueue /\ todo' \subseteq Acts
  BY <1>5, OutboxAssumption DEF Send, Tasks
<1>6. CASE SendReplay
  BY <1>5, <1>6 DEF SendReplay, Send
<1>7. CASE SendNew
  BY <1>5, <1>7 DEF SendNew, Send, Oldest
<1>8. CASE Answered
  BY <1>8 DEF Answered
<1>9. CASE StopWaiting
  <2>1. queue' \in Seq(Tasks) /\ Len(queue') <= MaxQueue
    <3> DEFINE n == Len(queue)
    <3>1. n \in Nat /\ DOMAIN queue = 1..n /\ \A i \in 1..n : queue[i] \in Tasks
      OBVIOUS
    <3>2. queue' = [i \in 1..n |-> [queue[i] EXCEPT !.live = FALSE]]
      BY <1>9, <3>1 DEF StopWaiting
    <3>3. \A i \in 1..n : [queue[i] EXCEPT !.live = FALSE] \in Tasks
      BY <3>1 DEF Tasks
    <3> HIDE DEF n
    <3>4. queue' \in Seq(Tasks) /\ Len(queue') = n
      BY <3>1, <3>2, <3>3
    <3> QED
      BY <3>4 DEF n
  <2>2. ui' \in [at : {"idle", "checkpoint", "handling", "outcome"}, task : Tasks]
    BY <1>9 DEF StopWaiting, Tasks
  <2> QED
    BY <1>9, <2>1, <2>2 DEF StopWaiting
<1>10. CASE ReadCursor
  BY <1>10 DEF ReadCursor, Configs
<1>11. CASE List
  BY <1>11 DEF List, Fresh
<1>12. CASE ListFails
  BY <1>12 DEF ListFails
<1>13. CASE EndRound
  BY <1>13 DEF EndRound
<1> QED
  BY <1>1, <1>2, <1>3, <1>4, <1>6, <1>7, <1>8, <1>9, <1>10, <1>11, <1>12, <1>13
     DEF Polling, PollerStep

World == \/ Restart \/ Foreign \/ \E a \in Acts : Publish(a)
         \/ \E a \in Acts, r \in {"completed", "retryable", "rejected"} : Reconcile(a, r)

LEMMA TypeWorld == TypeOK /\ World => TypeOK'
<1> SUFFICES ASSUME TypeOK, World PROVE TypeOK'
    OBVIOUS
<1> USE DEF TypeOK, file, desk, thread
<1>1. CASE Restart
  <2>1. /\ <<>> \in Seq(Tasks) /\ Len(<<>>) <= MaxQueue
        /\ Idle \in [at : {"idle", "checkpoint", "handling", "outcome"}, task : Tasks]
    BY ConstantsTyped, OutboxAssumption DEF Idle
  <2> QED
    BY <1>1, <2>1 DEF Restart, Off
<1>2. CASE Foreign
  BY <1>2 DEF Foreign
<1>3. CASE \E a \in Acts : Publish(a)
  BY <1>3 DEF Publish
<1>4. ASSUME NEW a \in Acts, NEW r \in {"completed", "retryable", "rejected"}, Reconcile(a, r)
      PROVE  TypeOK'
  BY <1>4 DEF Reconcile, Configs, Listed, EntryState, Unresolved, Replayable, Conclusive
<1> QED
  BY <1>1, <1>2, <1>3, <1>4 DEF World

-----------------------------------------------------------------------------
(* The file, and memory beside it.                                         *)

\* A save of the UI thread reaches the file, or leaves it as it was.
Writing == /\ ~paused /\ ~stale
           /\ disk' = mem /\ mem' = mem /\ UNCHANGED stale
           /\ done' = done \cup Listed(mem.outbox, Conclusive)

LEMMA UIFile ==
    ASSUME IInv, UISteps
    PROVE  UNCHANGED visible /\ (Writing \/ UNCHANGED <<disk, stale, done>>)
<1> USE DEF file, desk, thread
<1>1. paused => ui.at = "idle"
  BY DEF IInv
<1>2. CASE Decline
  BY <1>2 DEF Decline
<1>3. CASE TakeReplay
  BY <1>3 DEF TakeReplay
<1>4. CASE TakeNew
  BY <1>4 DEF TakeNew
<1>5. CASE Checkpoint
  BY <1>1, <1>5 DEF Checkpoint, Saves, Published, Writing
<1>6. CASE CheckpointFails
  BY <1>1, <1>6 DEF CheckpointFails, NotWritten, Uncertain, Published, Writing
<1>7. CASE Handle
  BY <1>7 DEF Handle
<1>8. CASE Record
  BY <1>1, <1>8 DEF Record, Saves, Published, Writing
<1>9. CASE RecordFails
  BY <1>1, <1>9 DEF RecordFails, NotWritten, Uncertain, Published, Writing
<1>10. CASE SaveSettings
  BY <1>10 DEF SaveSettings, Saves, NotWritten, Uncertain, Published, Writing
<1> QED
  BY <1>2, <1>3, <1>4, <1>5, <1>6, <1>7, <1>8, <1>9, <1>10 DEF UISteps, UIStep

LEMMA PollingFile ==
    ASSUME TypeOK, Polling
    PROVE  UNCHANGED <<visible, disk, stale, done, mem, paused, ui.at, ui.task.act>>
<1> USE DEF file, desk, thread
<1>1. CASE StopWaiting
  BY <1>1 DEF StopWaiting, TypeOK, Tasks
<1>2. CASE SendReplay \/ SendNew
  BY <1>2 DEF SendReplay, SendNew, Send
<1>3. CASE Start \/ Stop \/ BeginRound \/ Exit \/ Answered
  BY <1>3 DEF Start, Stop, BeginRound, Exit, Answered
<1>4. CASE ReadCursor \/ List \/ ListFails \/ EndRound
  BY <1>4 DEF ReadCursor, List, ListFails, EndRound
<1> QED
  BY <1>1, <1>2, <1>3, <1>4 DEF Polling, PollerStep

LEMMA NextKinds == Next => UISteps \/ Polling \/ World
  BY DEF Next, UISteps, Polling, World

DiskInv == Listed(disk.outbox, Conclusive) \subseteq done /\ Sound(disk, visible, done)

LEMMA DiskStep == IInv /\ Next => DiskInv'
<1> SUFFICES ASSUME IInv, Next PROVE DiskInv'
    OBVIOUS
<1>1. TypeOK /\ DiskInv /\ (~paused => Sound(mem, visible, done))
  BY DEF IInv, DiskInv
<1>2. CASE UNCHANGED <<disk, done, visible>>
  BY <1>1, <1>2 DEF DiskInv
<1>3. CASE UNCHANGED visible /\ Writing
  <2>1. Sound(mem, visible, done')
    BY <1>1, <1>3, SoundPast DEF Writing
  <2> QED
    BY <1>3, <2>1 DEF Writing, DiskInv
<1>4. ASSUME NEW a \in Acts, Publish(a) PROVE DiskInv'
  <2>1. Sound(disk, visible \cup {a}, done)
    BY <1>1, <1>4, SoundShown DEF Publish, TypeOK, DiskInv
  <2> QED
    BY <1>1, <1>4, <2>1 DEF Publish, file, DiskInv
<1>5. ASSUME NEW a \in Acts, NEW r \in {"completed", "retryable", "rejected"}, Reconcile(a, r)
      PROVE  DiskInv'
  <2>1. disk' \in Configs /\ disk \in Configs
    BY <1>1, <1>5, TypeWorld DEF World, TypeOK
  <2>2. /\ disk'.cursor = disk.cursor
        /\ \A b \in Acts : disk'.outbox[b] = "none" <=> disk.outbox[b] = "none"
    BY <2>1, <1>5 DEF Reconcile, Configs
  <2>3. Sound(disk', visible, done)
    BY <1>1, <2>1, <2>2, SoundRestated DEF TypeOK, DiskInv
  <2>4. Sound(disk', visible, done')
    BY <1>5, <2>3, SoundPast DEF Reconcile
  <2> QED
    BY <1>5, <2>4 DEF Reconcile, DiskInv
<1>6. CASE UISteps
  BY <1>2, <1>3, <1>6, UIFile
<1>7. CASE Polling
  BY <1>1, <1>2, <1>7, PollingFile
<1>8. CASE World
  BY <1>2, <1>4, <1>5, <1>8 DEF World, Restart, Foreign
<1> QED
  BY <1>6, <1>7, <1>8, NextKinds

LEMMA PausedStep == IInv /\ Next => (paused => ui.at = "idle")'
<1> SUFFICES ASSUME IInv, Next, paused' PROVE ui'.at = "idle"
    OBVIOUS
<1> USE DEF file, desk, thread, Idle
<1>1. TypeOK /\ (paused => ui.at = "idle")
  BY DEF IInv
<1>2. CASE Decline \/ TakeReplay \/ TakeNew \/ Checkpoint \/ Handle
  BY <1>1, <1>2 DEF Decline, TakeReplay, TakeNew, Checkpoint, Saves, Handle
<1>3. CASE CheckpointFails \/ Record \/ RecordFails
  BY <1>3 DEF CheckpointFails, Record, RecordFails, Finish
<1>4. CASE SaveSettings
  BY <1>4 DEF SaveSettings
<1>5. CASE Polling
  BY <1>1, <1>5, PollingFile
<1>6. CASE World
  BY <1>1, <1>6 DEF World, Restart, Foreign, Publish, Reconcile
<1> QED
  BY <1>2, <1>3, <1>4, <1>5, <1>6, NextKinds DEF UISteps, UIStep

\* Writes are resumed by a restart only.
LEMMA NotPaused ==
    ASSUME IInv, Next, ~paused', ~Restart
    PROVE  ~paused /\ Sound(mem, visible, done) /\ MemoryFollows /\ InOrder
<1> USE DEF file, desk, thread
<1>1. ~paused
  <2>1. CASE UISteps
    BY <2>1 DEF UISteps, UIStep, Decline, TakeReplay, TakeNew, Checkpoint, CheckpointFails, Handle,
                Record, RecordFails, SaveSettings, Saves, NotWritten, Uncertain
  <2>2. CASE Polling
    BY <2>2, PollingFile DEF IInv
  <2>3. CASE World
    BY <2>3 DEF World, Foreign, Publish, Reconcile
  <2> QED
    BY <2>1, <2>2, <2>3, NextKinds
<1> QED
  BY <1>1 DEF IInv

\* The feed shows later activities only, and records stay while the program
\* goes on.
Grows ==
    /\ visible \subseteq visible'
    /\ \A b \in visible' \ visible, a \in visible : Ts[a] <= Ts[b]
    /\ \A b \in visible : Recorded(mem, b, done) => Recorded(mem', b, done')

MemoryInv == Sound(mem, visible, done) /\ MemoryFollows

LEMMA SavedMemory ==
    ASSUME TypeOK, Sound(mem, visible, done), Writing, UNCHANGED visible,
           ui'.at \in {"idle", "handling", "outcome"},
           ui'.at = "handling" => mem.outbox[ui'.task.act] \in Replayable,
           ui'.at = "outcome" => mem.outbox[ui'.task.act] # "none"
    PROVE  MemoryInv' /\ Grows
<1>1. Sound(mem, visible, done')
  BY SoundPast DEF Writing
<1>2. MemoryFollows'
  BY DEF MemoryFollows, Linked, Writing
<1> QED
  BY <1>1, <1>2 DEF MemoryInv, Grows, Recorded, Writing

LEMMA TakeNewMemory ==
    ASSUME IInv, TakeNew
    PROVE  MemoryInv' /\ Grows
<1> DEFINE a == Head(queue).act
<1>1. /\ TypeOK /\ Sound(mem, visible, done) /\ MemoryFollows /\ QueueInOrder
      /\ Listed(disk.outbox, Conclusive) \subseteq done /\ ui.at = "idle"
  BY DEF IInv, TakeNew, InOrder
<1>2. /\ mem' \in Staged(mem, a) /\ mem.outbox[a] = "none"
      /\ UNCHANGED <<visible, disk, stale, done>>
      /\ ui'.at = "checkpoint" /\ ui'.task.act = a
  BY DEF TakeNew, file
<1>3. a = queue[1].act /\ 1 \in DOMAIN queue /\ a \in Acts
  <2>1. queue \in Seq(Tasks) /\ queue # <<>>
    BY <1>1 DEF TakeNew, TypeOK
  <2>2. Head(queue) = queue[1] /\ 1 \in DOMAIN queue /\ queue[1] \in Tasks
    BY <2>1
  <2> QED
    BY <2>2 DEF Tasks
<1>4. a \in visible /\ Due(a)
  BY <1>1, <1>3 DEF QueueInOrder
<1>5. mem \in Configs /\ visible \in SUBSET Acts
  BY <1>1 DEF TypeOK
<1>6. \A b \in Acts : \/ mem.outbox[b] = disk.outbox[b]
                      \/ stale /\ mem.outbox[b] = "ambiguous" /\ disk.outbox[b] # "none"
  BY <1>1 DEF MemoryFollows, Linked
<1>7. \A b \in Acts : mem.outbox[b] \in Conclusive => b \in done
  BY <1>1, <1>6 DEF Listed, Conclusive
<1>8. /\ Sound(mem', visible, done)
      /\ \A b \in Acts : Recorded(mem, b, done) => Recorded(mem', b, done)
  <2>1. \A b \in visible : Ts[b] < Ts[a] => Recorded(mem, b, done)
    BY <1>4 DEF Due
  <2> HIDE DEF a
  <2> QED
    BY <1>1, <1>2, <1>4, <1>5, <1>7, <2>1, SoundStaged
<1>9. MemoryFollows'
  <2>1. mem'.outbox[a] = "pending"
    BY <1>2, <1>3, <1>5, StagedFacts
  <2>2. disk.outbox[a] = "none"
    BY <1>2, <1>3, <1>6
  <2>3. \A b \in Acts \ {a} : \/ mem'.outbox[b] = mem.outbox[b]
                              \/ mem.outbox[b] \in Conclusive /\ mem'.outbox[b] = "none"
    BY <1>2, <1>3, <1>5, StagedFacts
  <2>4. \A b \in Acts : Linked(b)'
    BY <1>2, <1>6, <2>2, <2>3 DEF Linked, Conclusive
  <2> QED
    BY <1>2, <2>1, <2>4 DEF MemoryFollows
<1> QED
  BY <1>2, <1>5, <1>8, <1>9 DEF MemoryInv, Grows

LEMMA HandleMemory ==
    ASSUME IInv, Handle
    PROVE  MemoryInv' /\ Grows
<1> DEFINE a == ui.task.act
<1>1. /\ TypeOK /\ Sound(mem, visible, done) /\ MemoryFollows
      /\ a \in Acts /\ ui.at = "handling" /\ mem \in Configs
  BY DEF IInv, Handle, TypeOK, Tasks
<1>2. PICK o \in Outcomes(a) :
         \E pruned \in Evict([mem.outbox EXCEPT ![a] = o], Overflow([mem.outbox EXCEPT ![a] = o], 0)) :
            mem' = [mem EXCEPT !.outbox = pruned]
  BY DEF Handle
<1> DEFINE box == [mem.outbox EXCEPT ![a] = o]
<1>3. o \in EntryState \ {"none"}
  BY <1>2 DEF Outcomes, EntryState, Unresolved, Replayable, Conclusive
<1>4. mem.outbox \in [Acts -> EntryState] /\ mem.outbox[a] \in Replayable
  BY <1>1 DEF Configs, MemoryFollows
<1>5. box \in [Acts -> EntryState] /\ Entries(box) = Entries(mem.outbox)
  BY <1>1, <1>3, <1>4 DEF Entries, Listed, EntryState, Unresolved, Replayable
<1>6. mem' = [mem EXCEPT !.outbox = box]
  <2>1. Cardinality(Entries(box)) <= Limit
    BY <1>1, <1>5 DEF Sound
  <2>2. \A pruned \in Evict(box, Overflow(box, 0)) : pruned = box
    BY <1>5, <2>1, NoEviction
  <2> QED
    BY <1>2, <2>2
<1>7. /\ mem'.outbox = box /\ mem'.cursor = mem.cursor /\ mem' \in Configs
      /\ UNCHANGED <<visible, disk, stale, done, ui.task>> /\ ui'.at = "outcome"
  BY <1>1, <1>5, <1>6 DEF Handle, file, Configs, TypeOK
<1>8. Sound(mem', visible, done)
  BY <1>1, <1>3, <1>4, <1>7, SoundRestated DEF TypeOK, Replayable
<1>9. MemoryFollows'
  <2>1. \A b \in Acts : \/ mem.outbox[b] = disk.outbox[b]
                        \/ stale /\ mem.outbox[b] = "ambiguous" /\ disk.outbox[b] # "none"
    BY <1>1 DEF MemoryFollows, Linked
  <2>2. disk.outbox[a] \in Replayable
    BY <1>1, <1>4, <2>1 DEF Replayable
  <2>3. \A b \in Acts : Linked(b)'
    BY <1>1, <1>3, <1>4, <1>7, <2>1, <2>2 DEF Linked
  <2>4. mem'.outbox[a] # "none" /\ mem'.cursor = disk.cursor
    BY <1>1, <1>3, <1>4, <1>7 DEF MemoryFollows
  <2> QED
    BY <1>7, <2>3, <2>4 DEF MemoryFollows
<1> QED
  BY <1>1, <1>3, <1>4, <1>7, <1>8, <1>9 DEF MemoryInv, Grows, Recorded, TypeOK

LEMMA UIMemory ==
    ASSUME IInv, UISteps, ~paused', ~Restart
    PROVE  MemoryInv' /\ Grows
<1>1. /\ TypeOK /\ ~paused /\ Sound(mem, visible, done) /\ MemoryFollows
  BY NotPaused, NextKinds DEF IInv, Next, UISteps
<1> USE DEF file, desk, thread
<1>2. CASE Decline
  BY <1>1, <1>2 DEF Decline, MemoryInv, MemoryFollows, Linked, Grows
<1>3. CASE TakeReplay
  BY <1>1, <1>3 DEF TakeReplay, MemoryInv, MemoryFollows, Linked, Grows
<1>4. CASE TakeNew
  BY <1>4, TakeNewMemory
<1>5. CASE Checkpoint
  <2>1. Writing /\ UNCHANGED visible /\ ui'.at = "handling" /\ ui'.task = ui.task
    BY <1>1, <1>5 DEF Checkpoint, Saves, Published, Writing, TypeOK
  <2>2. mem.outbox[ui.task.act] = "pending"
    BY <1>1, <1>5 DEF Checkpoint, MemoryFollows
  <2> QED
    BY <1>1, <2>1, <2>2, SavedMemory DEF Replayable
<1>6. CASE CheckpointFails
  BY <1>6 DEF CheckpointFails, NotWritten, Uncertain
<1>7. CASE Handle
  BY <1>7, HandleMemory
<1>8. CASE Record
  <2>1. Writing /\ UNCHANGED visible /\ ui'.at = "idle"
    BY <1>1, <1>8 DEF Record, Saves, Published, Writing, Finish, Idle
  <2> QED
    BY <1>1, <2>1, SavedMemory
<1>9. CASE RecordFails
  BY <1>9 DEF RecordFails, NotWritten, Uncertain
<1>10. CASE SaveSettings
  <2>1. Writing /\ UNCHANGED <<visible, ui>> /\ ui.at = "idle"
    BY <1>1, <1>10 DEF SaveSettings, Saves, NotWritten, Uncertain, Published, Writing
  <2> QED
    BY <1>1, <2>1, SavedMemory
<1> QED
  BY <1>2, <1>3, <1>4, <1>5, <1>6, <1>7, <1>8, <1>9, <1>10 DEF UISteps, UIStep

LEMMA PollingMemory ==
    ASSUME IInv, Polling, ~paused'
    PROVE  MemoryInv' /\ Grows
<1>1. UNCHANGED <<visible, disk, stale, done, mem, paused, ui.at, ui.task.act>>
  BY PollingFile DEF IInv
<1>2. MemoryInv
  BY <1>1 DEF IInv, MemoryInv
<1> QED
  BY <1>1, <1>2 DEF MemoryInv, MemoryFollows, Linked, Grows

LEMMA WorldMemory ==
    ASSUME IInv, World, ~paused'
    PROVE  MemoryInv' /\ (Restart \/ Grows)
<1> USE DEF file, desk, thread
<1>1. CASE Restart
  <2>1. Sound(mem, visible, done)'
    BY <1>1 DEF IInv, Restart
  <2>2. MemoryFollows'
    BY <1>1 DEF Restart, MemoryFollows, Linked, Idle
  <2> QED
    BY <1>1, <2>1, <2>2 DEF MemoryInv
<1>2. CASE ~Restart
  <2>1. TypeOK /\ Sound(mem, visible, done) /\ MemoryFollows
    BY <1>2, NotPaused DEF IInv, Next, World
  <2>2. CASE Foreign
    BY <2>1, <2>2 DEF Foreign, MemoryInv, MemoryFollows, Linked, Grows
  <2>3. ASSUME NEW a \in Acts, Publish(a) PROVE MemoryInv' /\ Grows
    <3>1. Sound(mem, visible \cup {a}, done)
      BY <2>1, <2>3, SoundShown DEF Publish, TypeOK
    <3>2. MemoryFollows'
      BY <2>1, <2>3 DEF Publish, MemoryFollows, Linked
    <3> QED
      BY <2>3, <3>1, <3>2 DEF Publish, MemoryInv, Grows
  <2>4. ASSUME NEW a \in Acts, NEW r \in {"completed", "retryable", "rejected"}, Reconcile(a, r)
        PROVE  MemoryInv' /\ Grows
    <3>1. /\ UNCHANGED <<visible, mem, ui>> /\ done \subseteq done' /\ stale'
          /\ disk'.cursor = disk.cursor /\ disk.outbox[a] = "ambiguous"
          /\ disk'.outbox = [disk.outbox EXCEPT ![a] = r]
      BY <2>1, <2>4 DEF Reconcile, TypeOK, Configs
    <3>2. Sound(mem, visible, done')
      BY <2>1, <3>1, SoundPast
    <3>3. ASSUME NEW b \in Acts PROVE Linked(b)'
      <4>1. disk'.outbox[b] = IF b = a THEN r ELSE disk.outbox[b]
        BY <2>1, <3>1 DEF TypeOK, Configs
      <4>2. Linked(b)
        BY <2>1 DEF MemoryFollows
      <4> QED
        BY <3>1, <4>1, <4>2 DEF Linked, Conclusive, Replayable
    <3> QED
      BY <2>1, <3>1, <3>2, <3>3 DEF MemoryInv, MemoryFollows, Grows, Recorded
  <2> QED
    BY <1>2, <2>2, <2>3, <2>4 DEF World
<1> QED
  BY <1>1, <1>2

-----------------------------------------------------------------------------
(* The order of seconds.                                                   *)

LEMMA DueKept ==
    ASSUME TypeOK, Grows, visible' \subseteq Acts
    PROVE  \A a \in visible : Due(a) => Due(a)'
<1> SUFFICES ASSUME NEW a \in visible, Due(a), NEW b \in visible', Ts[b] < Ts[a]
             PROVE  Recorded(mem', b, done')
    BY DEF Due
<1>1. a \in Acts /\ visible \subseteq Acts
  BY DEF TypeOK
<1>2. CASE b \in visible
  BY <1>2 DEF Due, Grows
<1>3. CASE b \notin visible
  <2>1. Ts[a] <= Ts[b] /\ Ts[a] \in Nat /\ Ts[b] \in Nat
    BY <1>1, <1>3, ConstantsTyped DEF Grows
  <2> QED
    BY <2>1
<1> QED
  BY <1>2, <1>3

LEMMA QueueKept ==
    ASSUME TypeOK, Grows, QueueInOrder, visible' \subseteq Acts,
           \A i \in DOMAIN queue' : \E j \in DOMAIN queue : queue'[i].act = queue[j].act
    PROVE  QueueInOrder'
<1> SUFFICES ASSUME NEW i \in DOMAIN queue'
             PROVE  queue'[i].act \in visible' /\ Due(queue[i].act)'
    BY DEF QueueInOrder
<1>1. PICK j \in DOMAIN queue : queue'[i].act = queue[j].act
  OBVIOUS
<1>2. queue[j].act \in visible /\ Due(queue[j].act)
  BY DEF QueueInOrder
<1> DEFINE a == queue[j].act
<1>3. \A x \in visible : Due(x) => \A b \in visible' : Ts[b] < Ts[x] => Recorded(mem', b, done')
  BY DueKept DEF Due
<1>4. \A b \in visible' : Ts[b] < Ts[a] => Recorded(mem', b, done')
  BY <1>2, <1>3
<1> QED
  BY <1>1, <1>2, <1>4 DEF Due, Grows

LEMMA ListsKept ==
    ASSUME TypeOK, Grows, ReadingBehind, CursorShown, ReplaysInOrder, NewInOrder,
           UNCHANGED <<poller.at, todo, cursor>>, visible' \subseteq Acts,
           \A b \in visible : Awaited(b) => Awaited(b)' \/ Recorded(mem', b, done')
    PROVE  ReadingBehind' /\ CursorShown' /\ ReplaysInOrder' /\ NewInOrder'
<1>1. /\ visible \subseteq visible'
      /\ \A b \in visible : Recorded(mem, b, done) => Recorded(mem', b, done')
      /\ \A b \in visible' \ visible, a \in visible : Ts[a] <= Ts[b]
  BY DEF Grows
<1>2. \A b \in Acts : Ts[b] \in Nat /\ Ts[b] # 0
  BY ConstantsTyped
<1>3. CursorShown'
  BY <1>1 DEF CursorShown
<1>4. ReadingBehind'
  <2> SUFFICES ASSUME poller.at = "reading", NEW b \in visible', Ts[b] < cursor.ts \/ b \in cursor.seen
               PROVE  Recorded(mem', b, done')
      BY DEF ReadingBehind
  <2>1. cursor.ts \in Nat
    BY DEF TypeOK, Cursors
  <2>2. b \in visible
    BY <1>1, <1>2, <2>1 DEF CursorShown, TypeOK
  <2> QED
    BY <1>1, <2>2 DEF ReadingBehind
<1>5. ReplaysInOrder'
  BY <1>1, DueKept DEF ReplaysInOrder
<1>6. NewInOrder'
  <2> SUFFICES ASSUME poller.at \in {"new", "waiting"}, NEW a \in todo, NEW b \in visible', Ts[b] < Ts[a]
               PROVE  Recorded(mem', b, done') \/ b \in todo \/ Awaited(b)'
      BY <1>1 DEF NewInOrder
  <2>1. a \in visible
    BY DEF NewInOrder
  <2>2. b \in visible
    BY <1>1, <1>2, <2>1 DEF TypeOK
  <2> QED
    BY <1>1, <2>2 DEF NewInOrder
<1> QED
  BY <1>3, <1>4, <1>5, <1>6

\* Steps that touch neither the queue nor the poller.
LEMMA OrderKept ==
    ASSUME TypeOK, TypeOK', Grows, InOrder,
           UNCHANGED <<queue, ui.task, poller.at, todo, cursor, reply>>,
           ui.task.live => ui'.at # "idle"
    PROVE  InOrder'
<1>1. QueueInOrder'
  BY QueueKept DEF InOrder, TypeOK
<1>2. OneLive'
  BY DEF InOrder, OneLive
<1>3. \A b \in visible : Awaited(b) => Awaited(b)'
  BY DEF Awaited, InQueue, InHand
<1>4. ReadingBehind' /\ CursorShown' /\ ReplaysInOrder' /\ NewInOrder'
  BY <1>3, ListsKept DEF InOrder, TypeOK
<1> QED
  BY <1>1, <1>2, <1>4 DEF InOrder

\* The UI thread takes the first task in hand, or answers it at once.
LEMMA OrderTaken ==
    ASSUME TypeOK, TypeOK', Grows, InOrder, queue # <<>>, ui.at = "idle",
           queue' = Tail(queue), UNCHANGED <<poller, todo, cursor>>,
           \/ ui'.at # "idle" /\ ui'.task = Head(queue) /\ reply' = reply
           \/ /\ ui' = ui
              /\ Head(queue).live => \/ reply' = "no"
                                     \/ reply' = "yes" /\ Recorded(mem', Head(queue).act, done')
              /\ ~Head(queue).live => reply' = reply
    PROVE  InOrder'
<1>1. /\ Head(queue) = queue[1] /\ 1 \in DOMAIN queue
      /\ \A i \in DOMAIN Tail(queue) : i + 1 \in DOMAIN queue /\ i + 1 # 1 /\ Tail(queue)[i] = queue[i + 1]
      /\ \A j \in DOMAIN queue : j # 1 => j - 1 \in DOMAIN Tail(queue) /\ Tail(queue)[j - 1] = queue[j]
  <2>1. queue \in Seq(Tasks)
    BY DEF TypeOK
  <2> QED
    BY <2>1
<1>2. OneLive /\ ~ui.task.live
  BY DEF InOrder, OneLive
<1>3. \A i \in DOMAIN queue' : queue'[i].live => ~Head(queue).live
  BY <1>1, <1>2 DEF OneLive
<1>4. QueueInOrder'
  BY <1>1, QueueKept DEF InOrder, TypeOK
<1>5. OneLive'
  <2>1. \A i, j \in DOMAIN queue' : queue'[i].live /\ queue'[j].live => i = j
    <3> SUFFICES ASSUME NEW i \in DOMAIN queue', NEW j \in DOMAIN queue', queue'[i].live, queue'[j].live
                 PROVE  i = j
        OBVIOUS
    <3>1. i + 1 = j + 1
      BY <1>1, <1>2 DEF OneLive
    <3>2. i \in Nat /\ j \in Nat
      BY DEF TypeOK
    <3> QED
      BY <3>1, <3>2
  <2>2. ui'.task.live => ui'.at # "idle" /\ \A i \in DOMAIN queue' : ~queue'[i].live
    BY <1>2, <1>3
  <2>3. (ui'.task.live \/ \E i \in DOMAIN queue' : queue'[i].live)
            => poller'.at \in {"replaying", "waiting"} /\ reply' = "none"
    BY <1>1, <1>2, <1>3 DEF OneLive
  <2>4. poller'.at \notin {"replaying", "waiting"} => reply' = "none"
    BY <1>1, <1>2 DEF OneLive
  <2> QED
    BY <2>1, <2>2, <2>3, <2>4 DEF OneLive
<1>6. \A b \in visible : Awaited(b) => Awaited(b)' \/ Recorded(mem', b, done')
  <2> SUFFICES ASSUME NEW b \in visible, Awaited(b) PROVE Awaited(b)' \/ Recorded(mem', b, done')
      OBVIOUS
  <2>1. CASE reply = "no"
    <3>1. ~Head(queue).live
      BY <1>1, <1>2, <2>1 DEF OneLive
    <3> QED
      BY <2>1, <3>1 DEF Awaited
  <2>2. CASE reply # "no"
    <3>1. PICK j \in DOMAIN queue : queue[j].live /\ queue[j].act = b
      BY <1>2, <2>2 DEF Awaited, InQueue, InHand
    <3>2. poller.at = "waiting" /\ reply = "none"
      BY <2>2 DEF Awaited
    <3>3. CASE j = 1
      BY <1>1, <3>1, <3>2, <3>3 DEF Awaited, InHand
    <3>4. CASE j # 1
      <4>1. InQueue(b)'
        BY <1>1, <3>1, <3>4 DEF InQueue
      <4>2. ~Head(queue).live
        BY <1>1, <1>2, <3>1, <3>4 DEF OneLive
      <4> QED
        BY <3>2, <4>1, <4>2 DEF Awaited
    <3> QED
      BY <3>3, <3>4
  <2> QED
    BY <2>1, <2>2
<1>7. ReadingBehind' /\ CursorShown' /\ ReplaysInOrder' /\ NewInOrder'
  BY <1>6, ListsKept DEF InOrder, TypeOK
<1> QED
  BY <1>4, <1>5, <1>7 DEF InOrder

LEMMA OrderUI ==
    ASSUME IInv, UISteps, ~paused', ~Restart
    PROVE  InOrder'
<1>1. /\ TypeOK /\ TypeOK' /\ ~paused /\ Sound(mem, visible, done)
      /\ MemoryFollows /\ InOrder /\ Grows
  BY NotPaused, NextKinds, TypeUI, UIMemory DEF IInv, Next, UISteps
<1> USE DEF file, desk, thread
<1>2. CASE Decline
  <2> DEFINE task == Head(queue)
             a    == task.act
  <2>1. /\ queue # <<>> /\ ui.at = "idle" /\ queue' = Tail(queue)
        /\ UNCHANGED <<poller, todo, cursor, ui, mem, done>>
    BY <1>2 DEF Decline
  <2>2. reply' = IF task.live THEN (IF Settled(mem, a) THEN "yes" ELSE "no") ELSE reply
    BY <1>1, <1>2 DEF Decline, Acknowledge
  <2>3. Settled(mem, a) => Recorded(mem', a, done')
    <3>1. Head(queue) = queue[1] /\ 1 \in DOMAIN queue
      BY <1>1, <2>1 DEF TypeOK
    <3>2. a \in visible
      BY <1>1, <3>1 DEF InOrder, QueueInOrder
    <3> QED
      BY <1>1, <2>1, <3>2 DEF Settled, Recorded, Sound
  <2>4. task.live => reply' = "no" \/ (reply' = "yes" /\ Recorded(mem', a, done'))
    BY <2>2, <2>3
  <2>5. ~task.live => reply' = reply
    BY <2>2
  <2> QED
    BY <1>1, <2>1, <2>4, <2>5, OrderTaken
<1>3. CASE TakeReplay \/ TakeNew
  <2>1. /\ queue # <<>> /\ ui.at = "idle" /\ queue' = Tail(queue)
        /\ ui'.at # "idle" /\ ui'.task = Head(queue)
        /\ UNCHANGED <<poller, todo, cursor, reply>>
    BY <1>3 DEF TakeReplay, TakeNew
  <2> QED
    BY <1>1, <2>1, OrderTaken
<1>4. CASE Checkpoint \/ Handle
  <2>1. ui'.at # "idle" /\ UNCHANGED <<queue, ui.task, poller, todo, cursor, reply>>
    BY <1>1, <1>4 DEF Checkpoint, Handle, TypeOK
  <2> QED
    BY <1>1, <2>1, OrderKept
<1>5. CASE CheckpointFails \/ RecordFails
  BY <1>5 DEF CheckpointFails, RecordFails, NotWritten, Uncertain
<1>6. CASE Record
  <2>1. /\ ui.at = "outcome" /\ ui' = Idle /\ UNCHANGED <<queue, poller, todo, cursor, mem>>
        /\ reply' = IF ui.task.live THEN "yes" ELSE reply
    BY <1>6 DEF Record, Saves, Published, Finish, Acknowledge
  <2>2. OneLive /\ OneLive'
    <3>1. OneLive /\ ~ui'.task.live
      BY <1>1, <2>1 DEF InOrder, Idle, NoTask
    <3>2. \A i \in DOMAIN queue : queue[i].live => ~ui.task.live
      BY <3>1 DEF OneLive
    <3> QED
      BY <2>1, <3>1, <3>2 DEF OneLive
  <2>3. Recorded(mem', ui.task.act, done')
    BY <1>1, <2>1 DEF MemoryFollows, Recorded
  <2>4. \A b \in visible : Awaited(b) => Awaited(b)' \/ Recorded(mem', b, done')
    <3> SUFFICES ASSUME NEW b \in visible, Awaited(b), b # ui.task.act PROVE Awaited(b)'
        BY <2>3
    <3>1. CASE reply = "no"
      BY <2>1, <2>2, <3>1 DEF Awaited, OneLive
    <3>2. CASE reply # "no"
      BY <2>1, <2>2, <3>2 DEF Awaited, InQueue, InHand, OneLive
    <3> QED
      BY <3>1, <3>2
  <2>5. QueueInOrder'
    BY <1>1, <2>1, QueueKept DEF InOrder, TypeOK
  <2>6. ReadingBehind' /\ CursorShown' /\ ReplaysInOrder' /\ NewInOrder'
    BY <1>1, <2>1, <2>4, ListsKept DEF InOrder, TypeOK
  <2> QED
    BY <2>2, <2>5, <2>6 DEF InOrder
<1>7. CASE SaveSettings
  <2>1. UNCHANGED <<queue, ui, poller, todo, cursor, reply>>
    BY <1>7 DEF SaveSettings
  <2>2. ui.task.live => ui'.at # "idle"
    BY <1>1, <2>1 DEF InOrder, OneLive
  <2> QED
    BY <1>1, <2>1, <2>2, OrderKept
<1> QED
  BY <1>2, <1>3, <1>4, <1>5, <1>6, <1>7 DEF UISteps, UIStep

LEMMA OrderWorld ==
    ASSUME IInv, World, ~paused'
    PROVE  InOrder'
<1> USE DEF file, desk, thread
<1>1. CASE Restart
  BY <1>1 DEF Restart, InOrder, QueueInOrder, OneLive, ReadingBehind, CursorShown, ReplaysInOrder,
              NewInOrder, Idle, NoTask, Off
<1>2. CASE ~Restart
  <2>1. TypeOK /\ TypeOK' /\ InOrder /\ Grows
    BY <1>2, NotPaused, TypeWorld, WorldMemory DEF IInv, Next, World
  <2>2. UNCHANGED <<queue, ui, poller, todo, cursor, reply>>
    BY <1>2 DEF World, Foreign, Publish, Reconcile
  <2>3. ui.task.live => ui'.at # "idle"
    BY <2>1, <2>2 DEF InOrder, OneLive
  <2> QED
    BY <2>1, <2>2, <2>3, OrderKept
<1> QED
  BY <1>1, <1>2

\* The poller puts the activity a on ui_queue.
LEMMA OrderSent ==
    ASSUME TypeOK, OneLive, QueueInOrder, NEW a \in visible, Due(a), Send(a), UNCHANGED <<visible, mem, done>>,
           ~ \E i \in DOMAIN queue : queue[i].live, ~ui.task.live,
           poller'.at \in {"replaying", "waiting"}, reply = "none"
    PROVE  QueueInOrder' /\ OneLive' /\ InQueue(a)'
<1> DEFINE n == Len(queue)
           task == [act |-> a, live |-> TRUE]
<1>1. queue \in Seq(Tasks) /\ task \in Tasks
  BY DEF TypeOK, Tasks
<1>2. queue' = Append(queue, task) /\ UNCHANGED <<ui, reply>>
  BY DEF Send
<1>3. /\ DOMAIN queue = 1..n /\ DOMAIN queue' = 1..n+1 /\ n \in Nat
      /\ \A i \in 1..n : queue'[i] = queue[i]
      /\ queue'[n + 1] = task
  BY <1>1, <1>2
<1>4. \A i \in 1..n+1 : i \in 1..n \/ i = n + 1
  BY <1>3
<1>5. QueueInOrder'
  BY <1>3, <1>4 DEF QueueInOrder, Due
<1>6. OneLive'
  BY <1>2, <1>3, <1>4 DEF OneLive
<1>7. InQueue(a)'
  BY <1>3 DEF InQueue
<1> QED
  BY <1>5, <1>6, <1>7

LEMMA OrderPolling ==
    ASSUME IInv, Polling, ~paused'
    PROVE  InOrder'
<1>1. UNCHANGED <<visible, disk, stale, done, mem, paused, ui.at, ui.task.act>>
  BY PollingFile DEF IInv
<1>2. TypeOK /\ TypeOK' /\ Sound(mem, visible, done) /\ InOrder
  BY <1>1, TypePolling DEF IInv
<1>3. /\ OneLive /\ QueueInOrder
      /\ visible \in SUBSET Acts /\ \A b \in Acts : Ts[b] \in Nat
  BY <1>2, ConstantsTyped DEF InOrder, TypeOK
<1>4. reply # "none" \/ poller.at \notin {"replaying", "waiting"}
        => ~ui.task.live /\ ~ \E i \in DOMAIN queue : queue[i].live
  BY <1>3 DEF OneLive
<1> USE DEF file, desk, thread
<1>5. ASSUME UNCHANGED <<queue, ui>>, poller'.at \in {"off", "round"}, reply' = "none",
             ~ui.task.live, ~ \E i \in DOMAIN queue : queue[i].live
      PROVE  InOrder'
  <2>1. QueueInOrder'
    BY <1>1, <1>3, <1>5 DEF QueueInOrder, Due
  <2>2. OneLive'
    BY <1>5 DEF OneLive
  <2> QED
    BY <1>5, <2>1, <2>2 DEF InOrder, ReadingBehind, CursorShown, ReplaysInOrder, NewInOrder
<1>6. CASE Start
  BY <1>4, <1>5, <1>6 DEF Start
<1>7. CASE Stop
  <2>1. UNCHANGED <<queue, ui, poller.at, todo, cursor, reply>>
    BY <1>2, <1>7 DEF Stop, TypeOK
  <2>2. Grows
    BY <1>1 DEF Grows
  <2> QED
    BY <1>2, <1>3, <2>1, <2>2, OrderKept DEF OneLive
<1>8. CASE BeginRound
  <2>1. /\ poller.at = "round" /\ poller'.at = "replay" /\ UNCHANGED <<queue, ui, cursor, reply>>
        /\ todo' \subseteq Entries(mem.outbox)
    BY <1>2, <1>8 DEF BeginRound, Listed, Entries, EntryState, Unresolved, Replayable, TypeOK
  <2>2. \A a \in Entries(mem.outbox) : Due(a)
    <3> SUFFICES ASSUME NEW a \in Entries(mem.outbox), NEW b \in visible, Ts[b] < Ts[a]
                 PROVE  Recorded(mem, b, done)
        BY DEF Due
    <3>1. mem.cursor.ts \in Nat /\ a \in Acts
      BY <1>2 DEF TypeOK, Configs, Cursors, Entries, Listed
    <3> QED
      BY <1>2, <1>3, <3>1 DEF Sound
  <2>3. ReplaysInOrder'
    BY <1>1, <1>2, <2>1, <2>2 DEF ReplaysInOrder, Due, Sound
  <2>4. OneLive' /\ QueueInOrder'
    BY <1>1, <1>3, <2>1 DEF OneLive, QueueInOrder, Due
  <2> QED
    BY <2>1, <2>3, <2>4 DEF InOrder, ReadingBehind, CursorShown, NewInOrder
<1>9. CASE Exit \/ ListFails \/ EndRound
  <2>1. /\ UNCHANGED <<queue, ui, todo, cursor>> /\ poller'.at \in {"off", "round"}
        /\ poller.at \notin {"replaying", "waiting"} /\ UNCHANGED reply
    BY <1>2, <1>9 DEF Exit, ListFails, EndRound, Off, TypeOK
  <2> QED
    BY <1>3, <1>4, <1>5, <2>1 DEF OneLive
<1>10. CASE SendReplay
  <2>1. PICK a \in todo : Send(a)
    BY <1>10 DEF SendReplay
  <2>2. poller.at = "replay" /\ poller'.at = "replaying"
    BY <1>2, <1>10 DEF SendReplay, TypeOK
  <2>3. \A x \in todo : x \in visible /\ Due(x)
    BY <1>2, <2>2 DEF InOrder, ReplaysInOrder
  <2>4. reply = "none"
    BY <1>3, <2>2 DEF OneLive
  <2>5. QueueInOrder' /\ OneLive'
    BY <1>1, <1>2, <1>3, <1>4, <2>1, <2>2, <2>3, <2>4, OrderSent
  <2>6. ReplaysInOrder'
    BY <1>1, <2>1, <2>3 DEF Send, ReplaysInOrder, Due
  <2> QED
    BY <2>2, <2>5, <2>6 DEF InOrder, ReadingBehind, CursorShown, NewInOrder
<1>11. CASE SendNew
  <2>1. PICK a \in Oldest(todo) : Send(a)
    BY <1>11 DEF SendNew
  <2>2. poller.at = "new" /\ poller'.at = "waiting"
    BY <1>2, <1>11 DEF SendNew, TypeOK
  <2>3. a \in todo /\ \A b \in todo : ~(Ts[b] < Ts[a])
    BY <1>2, <1>3 DEF Oldest, TypeOK
  <2>4. /\ todo \subseteq visible
        /\ \A x \in todo, b \in visible : Ts[b] < Ts[x] => Recorded(mem, b, done) \/ b \in todo
    BY <1>2, <2>2 DEF InOrder, NewInOrder, Awaited
  <2>5. a \in visible /\ Due(a) /\ reply = "none"
    BY <1>3, <2>2, <2>3, <2>4 DEF Due, OneLive
  <2>6. QueueInOrder' /\ OneLive' /\ InQueue(a)'
    BY <1>1, <1>2, <1>3, <1>4, <2>1, <2>2, <2>5, OrderSent
  <2>7. todo' = todo \ {a} /\ reply' = "none"
    BY <2>1, <2>5 DEF Send
  <2>8. NewInOrder'
    <3>1. \A b \in visible : b \in todo => b \in todo' \/ Awaited(b)'
      BY <2>2, <2>6, <2>7 DEF Awaited
    <3> QED
      BY <1>1, <2>4, <2>7, <3>1 DEF NewInOrder
  <2> QED
    BY <2>2, <2>6, <2>8 DEF InOrder, ReadingBehind, CursorShown, ReplaysInOrder
<1>12. CASE Answered
  <2>1. /\ UNCHANGED <<queue, ui, todo, cursor>> /\ reply # "none" /\ reply' = "none"
        /\ \/ poller'.at = "round"
           \/ poller.at = "replaying" /\ poller'.at = "replay"
           \/ poller.at = "waiting" /\ poller'.at = "new" /\ reply # "no"
    BY <1>2, <1>12 DEF Answered, TypeOK
  <2>2. OneLive' /\ QueueInOrder'
    BY <1>1, <1>3, <1>4, <2>1 DEF OneLive, QueueInOrder, Due
  <2>3. ReplaysInOrder'
    BY <1>1, <1>2, <2>1 DEF InOrder, ReplaysInOrder, Due
  <2>4. NewInOrder'
    BY <1>1, <1>2, <2>1 DEF InOrder, NewInOrder, Awaited
  <2> QED
    BY <2>1, <2>2, <2>3, <2>4 DEF InOrder, ReadingBehind, CursorShown
<1>13. CASE StopWaiting
  <2>1. /\ poller'.at = "round" /\ reply' = "none" /\ ~ui'.task.live
        /\ DOMAIN queue' = DOMAIN queue
        /\ \A i \in DOMAIN queue : queue'[i].act = queue[i].act /\ ~queue'[i].live
    <3>1. \A i \in DOMAIN queue : queue[i] \in Tasks
      BY <1>2 DEF TypeOK
    <3>2. poller'.at = "round" /\ reply' = "none" /\ ~ui'.task.live
      BY <1>2, <1>13 DEF StopWaiting, TypeOK, Tasks
    <3>3. queue' = [i \in DOMAIN queue |-> [queue[i] EXCEPT !.live = FALSE]]
      BY <1>13 DEF StopWaiting
    <3> QED
      BY <3>1, <3>2, <3>3 DEF Tasks
  <2>2. OneLive'
    BY <2>1 DEF OneLive
  <2>3. QueueInOrder'
    BY <1>1, <1>3, <2>1 DEF QueueInOrder, Due
  <2> QED
    BY <2>1, <2>2, <2>3 DEF InOrder, ReadingBehind, CursorShown, ReplaysInOrder, NewInOrder
<1>14. CASE ReadCursor
  <2>1. /\ UNCHANGED <<queue, ui, todo, reply>> /\ cursor' = mem.cursor
        /\ poller.at = "replay" /\ poller'.at \in {"round", "reading"}
    BY <1>2, <1>14 DEF ReadCursor, TypeOK
  <2>2. OneLive' /\ QueueInOrder'
    BY <1>1, <1>3, <2>1 DEF OneLive, QueueInOrder, Due
  <2>3. ReadingBehind' /\ CursorShown'
    BY <1>1, <1>2, <2>1 DEF Sound, ReadingBehind, CursorShown
  <2> QED
    BY <2>1, <2>2, <2>3 DEF InOrder, ReplaysInOrder, NewInOrder
<1>15. CASE List
  <2>1. /\ UNCHANGED <<queue, ui, cursor, reply>> /\ todo' = Fresh(cursor)
        /\ poller.at = "reading" /\ poller'.at = "new"
    BY <1>2, <1>15 DEF List, TypeOK
  <2>2. OneLive' /\ QueueInOrder'
    BY <1>1, <1>3, <2>1 DEF OneLive, QueueInOrder, Due
  <2>3. \A b \in visible : b \notin todo' => Recorded(mem, b, done)
    <3>1. cursor.ts \in Nat
      BY <1>2 DEF TypeOK, Cursors
    <3> QED
      BY <1>2, <1>3, <2>1, <3>1 DEF Fresh, InOrder, ReadingBehind
  <2>4. NewInOrder'
    BY <1>1, <2>1, <2>3 DEF NewInOrder, Fresh
  <2> QED
    BY <2>1, <2>2, <2>4 DEF InOrder, ReadingBehind, CursorShown, ReplaysInOrder
<1> QED
  BY <1>6, <1>7, <1>8, <1>9, <1>10, <1>11, <1>12, <1>13, <1>14, <1>15 DEF Polling, PollerStep

-----------------------------------------------------------------------------
(* The theorems.                                                           *)

\* The invariant is inductive.
THEOREM Invariance == Spec => []IInv
<1>1. IInv /\ [Next]_vars => IInv'
  <2> SUFFICES ASSUME IInv, [Next]_vars PROVE IInv'
      OBVIOUS
  <2>1. CASE UNCHANGED vars
    BY <2>1 DEF vars, file, desk, thread, IInv, TypeOK, Sound, MemoryFollows, Linked, InOrder,
        QueueInOrder, Due, OneLive, ReadingBehind, CursorShown, ReplaysInOrder, NewInOrder,
        Awaited, InQueue, InHand
  <2>2. CASE Next
    <3>1. TypeOK'
      BY <2>2, NextKinds, TypeUI, TypePolling, TypeWorld DEF IInv
    <3>2. DiskInv' /\ (paused => ui.at = "idle")'
      BY <2>2, DiskStep, PausedStep
    <3>3. ASSUME ~paused' PROVE MemoryInv' /\ InOrder'
      <4>1. CASE World
        BY <3>3, <4>1, WorldMemory, OrderWorld
      <4>2. CASE UISteps /\ ~Restart
        BY <3>3, <4>2, UIMemory, OrderUI
      <4>3. CASE Polling
        BY <3>3, <4>3, PollingMemory, OrderPolling
      <4> QED
        BY <2>2, <4>1, <4>2, <4>3, NextKinds DEF World
    <3> QED
      BY <3>1, <3>2, <3>3 DEF IInv, DiskInv, MemoryInv
  <2> QED
    BY <2>1, <2>2
<1> QED
  BY <1>1, InitInv, PTL DEF Spec

\* Configuration, threads and queue keep their types: no outcome, however
\* _copy_trade_from_activity fails, leaves an entry load_config refuses.
THEOREM TypeCorrectness == Spec => []TypeOK
  BY Invariance, PTL DEF IInv

\* The durable cursor never passes an activity that was neither staged nor
\* settled, whatever fails, stops or restarts (WalletPoller and
\* _apply_wallet_activity_checkpoint together).
THEOREM NothingIsSkipped == Spec => []NothingSkipped
<1>1. IInv => NothingSkipped
  BY DEF IInv, Sound, Recorded, NothingSkipped
<1> QED
  BY <1>1, Invariance, PTL

\* An activity is handled only behind a durable entry that allows it.
THEOREM HandledBehindCheckpoint == Spec => []HandledIsDurable
<1>1. IInv => HandledIsDurable
  <2> SUFFICES ASSUME IInv, ui.at = "handling" PROVE disk.outbox[ui.task.act] \in Replayable
      BY DEF HandledIsDurable
  <2>1. MemoryFollows /\ ui.task.act \in Acts
    BY DEF IInv, TypeOK, Tasks
  <2> QED
    BY <2>1 DEF MemoryFollows, Linked, Replayable
<1> QED
  BY <1>1, Invariance, PTL

\* Unless writes are paused, memory holds nothing the file does not, but for
\* the task in hand.
THEOREM MemoryStaysDurable == Spec => []MemoryIsDurable
<1>1. IInv => MemoryIsDurable
  <2> SUFFICES ASSUME IInv, ~paused, ~stale, ui.at \in {"idle", "handling"} PROVE mem = disk
      BY DEF MemoryIsDurable
  <2>1. MemoryFollows /\ mem \in Configs /\ disk \in Configs
    BY DEF IInv, TypeOK
  <2>2. \A a \in Acts : mem.outbox[a] = disk.outbox[a]
    BY <2>1 DEF MemoryFollows, Linked
  <2>3. mem.outbox = disk.outbox
    BY <2>1, <2>2 DEF Configs
  <2>4. mem.cursor = disk.cursor
    BY <2>1 DEF MemoryFollows
  <2> QED
    BY <2>1, <2>3, <2>4 DEF Configs
<1> QED
  BY <1>1, Invariance, PTL

\* Unsettled entries are never evicted, and only the operator settles an
\* ambiguous one.
THEOREM UnresolvedNeverEvicted == Spec => UnresolvedIsKept
<1> DEFINE Kept == \A a \in Acts :
             /\ disk.outbox[a] \in Unresolved => disk'.outbox[a] # "none"
             /\ disk.outbox[a] = "ambiguous" =>
                   disk'.outbox[a] = "ambiguous" \/ (stale' /\ mem' = mem /\ ui' = ui)
<1>1. IInv /\ [Next]_vars => [Kept]_vars
  <2> SUFFICES ASSUME IInv, Next PROVE Kept
      OBVIOUS
  <2>1. CASE UNCHANGED disk
    BY <2>1 DEF Unresolved, Replayable
  <2>2. CASE Writing
    <3>1. \A a \in Acts : Linked(a)
      BY <2>2 DEF Writing, IInv, MemoryFollows
    <3>2. ui.at = "checkpoint" => mem.outbox[ui.task.act] = "pending"
      BY <2>2 DEF Writing, IInv, MemoryFollows
    <3> QED
      BY <2>2, <3>1, <3>2 DEF Writing, Linked, Unresolved, Replayable, Conclusive
  <2>3. ASSUME NEW a \in Acts, NEW r \in {"completed", "retryable", "rejected"}, Reconcile(a, r)
        PROVE  Kept
    BY <2>3 DEF Reconcile, desk, IInv, TypeOK, Configs, Unresolved, Replayable
  <2>4. CASE UISteps
    BY <2>1, <2>2, <2>4, UIFile
  <2>5. CASE Polling
    BY <2>1, <2>5, PollingFile DEF IInv
  <2>6. CASE World
    BY <2>1, <2>3, <2>6 DEF World, Restart, Foreign, Publish, file
  <2> QED
    BY <2>4, <2>5, <2>6, NextKinds
<1> QED
  BY <1>1, Invariance, PTL DEF Spec, UnresolvedIsKept

-----------------------------------------------------------------------------
(* While polling stays on, nothing settled is handled again.  A task is    *)
(* never orphaned, so the poller's list, ui_queue and memory stay in step: *)
(* what it sends as new the cursor in memory has not passed, what it sends *)
(* as a replay memory may still replay, and the cursor has passed          *)
(* everything that was ever settled.                                       *)

Passed(c, a) == Ts[a] < c.ts \/ a \in c.seen

\* No task was orphaned by a stop.
KeptOn ==
    /\ ~poller.stop
    /\ \A i \in DOMAIN queue : queue[i].live
    /\ ui.at # "idle" => ui.task.live

\* What is unsettled in the file was never settled, and the durable cursor has
\* passed everything recorded.
DiskOnce ==
    \A a \in Acts :
        /\ disk.outbox[a] \in Unresolved => a \notin done
        /\ disk.outbox[a] # "none" \/ a \in done => Passed(disk.cursor, a)

\* So in memory, but for an entry the operator has settled meanwhile.
MemOnce ==
    \A a \in Acts :
        /\ mem.outbox[a] \in Unresolved /\ a \in done => stale /\ mem.outbox[a] = "ambiguous"
        /\ mem.outbox[a] # "none" \/ a \in done => Passed(mem.cursor, a)

\* The poller's list and what it has sent, against memory.
ReplaysOnce ==
    /\ poller.at \in {"replay", "replaying"} => \A a \in todo :
          /\ mem.outbox[a] \in Replayable
          /\ \A i \in DOMAIN queue : queue[i].act # a
          /\ ui.at # "idle" => ui.task.act # a
    /\ poller.at = "replaying" => \A i \in DOMAIN queue : mem.outbox[queue[i].act] \in Replayable
NewOnce ==
    /\ poller.at = "reading" => cursor = mem.cursor
    /\ poller.at \in {"new", "waiting"} => \A a \in todo : ~Passed(mem.cursor, a)
    /\ poller.at = "waiting" => \A i \in DOMAIN queue :
          /\ ~Passed(mem.cursor, queue[i].act)
          /\ \A b \in todo : Ts[queue[i].act] <= Ts[b] /\ b # queue[i].act
ListsOnce == ReplaysOnce /\ NewOnce

OnceInv == KeptOn /\ DiskOnce /\ (~paused => MemOnce /\ ListsOnce)

\* A cursor that remembers an activity has passed what it had passed and no
\* other activity of that second or a later one.
LEMMA PassedFacts ==
    ASSUME NEW c \in Cursors, NEW a \in Acts, NEW b \in Acts
    PROVE  /\ Passed(c, b) => Passed(Remember(c, a), b)
           /\ Passed(Remember(c, a), a)
           /\ ~Passed(c, b) /\ Ts[a] <= Ts[b] /\ a # b => ~Passed(Remember(c, a), b)
<1>1. c.ts \in Nat /\ Ts[a] \in Nat /\ Ts[b] \in Nat
  BY ConstantsTyped DEF Cursors
<1> QED
  BY <1>1 DEF Passed, Remember

\* No stop, no orphan.
LEMMA KeptOnStep ==
    ASSUME TypeOK, KeptOn, Next, ~poller'.stop
    PROVE  KeptOn'
<1> USE DEF file, desk, thread
<1>1. queue \in Seq(Tasks) /\ ui.task \in Tasks
  BY DEF TypeOK
<1>2. ASSUME queue # <<>>, queue' = Tail(queue)
      PROVE  Head(queue).live /\ \A i \in DOMAIN queue' : queue'[i].live
  BY <1>1, <1>2 DEF KeptOn
<1>3. CASE Decline \/ TakeReplay \/ TakeNew
  <2>1. /\ queue # <<>> /\ queue' = Tail(queue) /\ UNCHANGED poller
        /\ ui' = ui \/ ui'.task = Head(queue)
    BY <1>3 DEF Decline, TakeReplay, TakeNew
  <2> QED
    BY <1>2, <2>1 DEF KeptOn
<1>4. CASE Checkpoint \/ Handle
  BY <1>4 DEF Checkpoint, Handle, KeptOn, TypeOK
<1>5. CASE CheckpointFails \/ Record \/ RecordFails \/ SaveSettings
  BY <1>5 DEF CheckpointFails, Record, RecordFails, SaveSettings, Finish, Idle, KeptOn
<1>6. CASE Restart
  BY <1>6 DEF Restart, Idle, Off, KeptOn
<1>7. CASE Foreign \/ (\E a \in Acts : Publish(a))
            \/ \E a \in Acts, r \in {"completed", "retryable", "rejected"} : Reconcile(a, r)
  BY <1>7 DEF Foreign, Publish, Reconcile, KeptOn
<1>8. CASE SendReplay \/ SendNew
  <2>1. PICK a \in Acts : Send(a)
    BY <1>8 DEF SendReplay, SendNew, Oldest, TypeOK
  <2>2. \A i \in DOMAIN queue' : queue'[i].live
    <3> DEFINE task == [act |-> a, live |-> TRUE]
    <3>1. task \in Tasks /\ queue' = Append(queue, task)
      BY <2>1 DEF Send, Tasks
    <3>2. \A i \in DOMAIN queue' : (i \in DOMAIN queue /\ queue'[i] = queue[i]) \/ queue'[i] = task
      BY <1>1, <3>1
    <3> QED
      BY <3>2 DEF KeptOn
  <2> QED
    BY <2>1, <2>2 DEF Send, KeptOn
<1>9. CASE Stop \/ StopWaiting
  BY <1>9 DEF Stop, StopWaiting, KeptOn, TypeOK
<1>10. CASE Start \/ BeginRound \/ Exit \/ Answered
  BY <1>10 DEF Start, BeginRound, Exit, Answered, KeptOn
<1>11. CASE ReadCursor \/ List \/ ListFails \/ EndRound
  BY <1>11 DEF ReadCursor, List, ListFails, EndRound, KeptOn
<1> QED
  BY <1>3, <1>4, <1>5, <1>6, <1>7, <1>8, <1>9, <1>10, <1>11 DEF Next, UIStep, PollerStep

\* The file: what a save publishes, and what the operator settles.
LEMMA DiskOnceStep ==
    ASSUME IInv, DiskOnce, ~paused => MemOnce, Next
    PROVE  DiskOnce'
<1>1. CASE UNCHANGED <<disk, done>>
  BY <1>1 DEF DiskOnce
<1>2. CASE Writing
  <2>1. MemOnce /\ ~stale
    BY <1>2 DEF Writing
  <2>2. /\ disk' = mem
        /\ \A a \in Acts : a \in done' => a \in done \/ mem.outbox[a] \in Conclusive
    BY <1>2 DEF Writing, Listed
  <2> QED
    BY <2>1, <2>2 DEF DiskOnce, MemOnce, Conclusive, Unresolved, Replayable
<1>3. ASSUME NEW a \in Acts, NEW r \in {"completed", "retryable", "rejected"}, Reconcile(a, r)
      PROVE  DiskOnce'
  <2>1. /\ disk.outbox[a] = "ambiguous" /\ disk'.cursor = disk.cursor
        /\ \A b \in Acts : disk'.outbox[b] = IF b = a THEN r ELSE disk.outbox[b]
    BY <1>3 DEF Reconcile, IInv, TypeOK, Configs
  <2>2. \A b \in Acts : b \in done' => b \in done \/ disk'.outbox[b] \in Conclusive
    BY <1>3 DEF Reconcile, Listed
  <2> QED
    BY <2>1, <2>2 DEF DiskOnce, Conclusive, Unresolved, Replayable
<1>4. CASE UISteps
  BY <1>1, <1>2, <1>4, UIFile
<1>5. CASE Polling
  BY <1>1, <1>5, PollingFile DEF IInv
<1>6. CASE World
  BY <1>1, <1>3, <1>6 DEF World, Restart, Foreign, Publish, file
<1> QED
  BY <1>4, <1>5, <1>6, NextKinds

\* A task that is staged as new is one the cursor in memory has not passed.
LEMMA TakenIsNew ==
    ASSUME IInv, OnceInv, TakeNew
    PROVE  LET a == Head(queue).act
           IN  /\ a \in Acts /\ a \notin done /\ poller.at = "waiting" /\ ~Passed(mem.cursor, a)
               /\ \A b \in todo : Ts[a] <= Ts[b] /\ b # a
               /\ DOMAIN queue' = {}
<1> DEFINE a == Head(queue).act
<1>1. /\ TypeOK /\ ~paused /\ queue # <<>> /\ mem.outbox[a] = "none" /\ queue' = Tail(queue)
      /\ MemOnce /\ ReplaysOnce /\ NewOnce /\ KeptOn /\ OneLive
  BY DEF IInv, InOrder, OnceInv, ListsOnce, TakeNew
<1>2. queue \in Seq(Tasks)
  BY <1>1 DEF TypeOK
<1>3. Head(queue) = queue[1] /\ 1 \in DOMAIN queue /\ queue[1] \in Tasks
  BY <1>1, <1>2
<1>4. queue[1].live /\ \A i \in DOMAIN queue : i = 1
  BY <1>1, <1>3 DEF KeptOn, OneLive
<1>5. poller.at \in {"replaying", "waiting"}
  BY <1>1, <1>3, <1>4 DEF OneLive
<1>6. poller.at = "waiting"
  BY <1>1, <1>3, <1>5 DEF ReplaysOnce, Replayable
<1>7. ~Passed(mem.cursor, a) /\ \A b \in todo : Ts[a] <= Ts[b] /\ b # a
  BY <1>1, <1>3, <1>6 DEF NewOnce
<1>8. a \in Acts
  BY <1>3 DEF Tasks
<1>9. a \notin done
  BY <1>1, <1>7, <1>8 DEF MemOnce
<1>10. DOMAIN queue' = {}
  <2>1. DOMAIN queue = 1..Len(queue) /\ Len(queue) \in Nat
    BY <1>2
  <2>2. Len(queue) = 1
    BY <1>3, <1>4, <2>1
  <2>3. DOMAIN Tail(queue) = 1..(Len(queue) - 1)
    BY <1>1, <1>2
  <2> QED
    BY <1>1, <2>2, <2>3
<1> QED
  BY <1>6, <1>7, <1>8, <1>9, <1>10

\* Memory: what the UI thread stages and handles, and what a restart reads.
LEMMA MemOnceStep ==
    ASSUME IInv, OnceInv, Next, ~paused'
    PROVE  MemOnce'
<1> USE DEF file, desk, thread
<1>1. TypeOK /\ DiskOnce
  BY DEF IInv, OnceInv
<1>2. CASE Restart
  BY <1>1, <1>2 DEF Restart, MemOnce, DiskOnce
<1>3. CASE ~Restart
  <2>1. /\ ~paused /\ MemoryFollows /\ MemOnce
        /\ mem \in Configs /\ mem.cursor \in Cursors /\ mem.outbox \in [Acts -> EntryState]
    BY <1>1, <1>3, NotPaused DEF OnceInv, TypeOK, Configs
  <2>2. CASE UNCHANGED <<mem, stale, done>>
    BY <2>1, <2>2 DEF MemOnce
  <2>3. CASE Writing
    BY <2>1, <2>3 DEF Writing, MemOnce, Listed, Conclusive, Unresolved, Replayable
  <2>4. CASE TakeNew
    <3> DEFINE a == Head(queue).act
    <3>1. a \in Acts /\ a \notin done
      BY <2>4, TakenIsNew
    <3>2. mem' \in Staged(mem, a) /\ UNCHANGED <<stale, done>>
      BY <2>4 DEF TakeNew
    <3> HIDE DEF a
    <3>3. /\ mem'.cursor = Remember(mem.cursor, a) /\ mem'.outbox[a] = "pending"
          /\ \A b \in Acts \ {a} : \/ mem'.outbox[b] = mem.outbox[b]
                                   \/ mem.outbox[b] \in Conclusive /\ mem'.outbox[b] = "none"
      BY <2>1, <3>1, <3>2, StagedFacts
    <3>4. \A b \in Acts : /\ Passed(mem.cursor, b) => Passed(mem'.cursor, b)
                          /\ Passed(mem'.cursor, a)
      BY <2>1, <3>1, <3>3, PassedFacts
    <3> QED
      BY <2>1, <3>1, <3>2, <3>3, <3>4 DEF MemOnce, Conclusive, Unresolved, Replayable
  <2>5. CASE Handle
    <3> DEFINE a == ui.task.act
    <3>1. /\ a \in Acts /\ mem.outbox[a] \in Replayable /\ UNCHANGED <<stale, done>>
      BY <1>1, <2>1, <2>5 DEF Handle, TypeOK, Tasks, MemoryFollows
    <3>2. PICK o \in Outcomes(a) :
             \E pruned \in Evict([mem.outbox EXCEPT ![a] = o], Overflow([mem.outbox EXCEPT ![a] = o], 0)) :
                mem' = [mem EXCEPT !.outbox = pruned]
      BY <2>5 DEF Handle
    <3> DEFINE box == [mem.outbox EXCEPT ![a] = o]
    <3>3. box \in [Acts -> EntryState] /\ Overflow(box, 0) \in Nat
      BY <2>1, <3>1, <3>2, OverflowType DEF Outcomes, EntryState, Unresolved, Replayable, Conclusive
    <3>4. \A b \in Acts : mem'.outbox[b] = box[b] \/ mem'.outbox[b] = "none"
      <4>1. PICK pruned \in Evict(box, Overflow(box, 0)) : mem' = [mem EXCEPT !.outbox = pruned]
        BY <3>2
      <4>2. \A b \in Acts : pruned[b] = box[b] \/ pruned[b] = "none"
        <5> HIDE DEF box
        <5> QED
          BY <3>3, EvictFacts
      <4> QED
        BY <2>1, <4>1, <4>2 DEF Configs
    <3>5. mem'.cursor = mem.cursor
      BY <2>1, <3>2 DEF Configs
    <3>6. a \notin done /\ Passed(mem.cursor, a)
      BY <2>1, <3>1 DEF MemOnce, Unresolved, Replayable
    <3>7. \A b \in Acts \ {a} : box[b] = mem.outbox[b]
      BY <2>1
    <3> HIDE DEF box
    <3> QED
      BY <2>1, <3>1, <3>4, <3>5, <3>6, <3>7 DEF MemOnce, Unresolved, Replayable
  <2>6. CASE UISteps
    <3>1. CASE Decline \/ TakeReplay \/ Checkpoint \/ CheckpointFails \/ Record \/ RecordFails \/ SaveSettings
      <4>1. Writing \/ UNCHANGED <<disk, stale, done>>
        BY <2>6, UIFile
      <4>2. Writing \/ UNCHANGED mem
        BY <3>1, <4>1 DEF Decline, TakeReplay, Checkpoint, CheckpointFails, Record, RecordFails, SaveSettings,
                          Saves, Published, NotWritten, Uncertain
      <4> QED
        BY <2>2, <2>3, <4>1, <4>2
    <3> QED
      BY <2>4, <2>5, <2>6, <3>1 DEF UISteps, UIStep
  <2>7. CASE Polling
    BY <1>1, <2>2, <2>7, PollingFile
  <2>8. ASSUME NEW a \in Acts, NEW r \in {"completed", "retryable", "rejected"}, Reconcile(a, r)
        PROVE  MemOnce'
    <3>1. /\ disk.outbox[a] = "ambiguous" /\ UNCHANGED mem /\ stale'
          /\ disk'.outbox = [disk.outbox EXCEPT ![a] = r]
          /\ done' = done \cup Listed(disk'.outbox, Conclusive)
      BY <1>1, <2>8 DEF Reconcile, TypeOK, Configs
    <3>2. Listed(disk.outbox, Conclusive) \subseteq done /\ disk.outbox \in [Acts -> EntryState]
      BY <1>1 DEF IInv, TypeOK, Configs
    <3>3. \A b \in Acts : b \in done' => b \in done \/ b = a
      BY <3>1, <3>2 DEF Listed
    <3>4. mem.outbox[a] = "ambiguous"
      BY <2>1, <3>1 DEF MemoryFollows, Linked, Conclusive, Replayable
    <3> QED
      BY <2>1, <3>1, <3>3, <3>4 DEF MemOnce
  <2>9. CASE World
    BY <1>3, <2>1, <2>2, <2>8, <2>9 DEF World, Foreign, Publish, MemOnce
  <2> QED
    BY <2>6, <2>7, <2>9, NextKinds
<1> QED
  BY <1>2, <1>3

\* The poller's list and ui_queue keep in step with memory.
LEMMA ListsOnceStep ==
    ASSUME IInv, OnceInv, Next, ~paused', ~poller'.stop
    PROVE  ListsOnce'
<1> USE DEF file, desk, thread
<1>1. TypeOK /\ KeptOn
  BY DEF IInv, OnceInv
<1>2. CASE poller'.at \in {"off", "round"}
  BY <1>2 DEF ListsOnce, ReplaysOnce, NewOnce
<1>3. CASE Restart
  BY <1>2, <1>3 DEF Restart, Off
<1>4. CASE ~Restart
  <2>1. ~paused /\ MemoryFollows /\ InOrder /\ ListsOnce
    BY <1>4, NotPaused DEF OnceInv
  <2>2. /\ queue \in Seq(Tasks) /\ todo \in SUBSET Acts /\ mem \in Configs /\ OneLive
        /\ mem.cursor \in Cursors /\ mem.outbox \in [Acts -> EntryState] /\ ui.task \in Tasks
    BY <1>1, <2>1 DEF TypeOK, InOrder, Configs
  <2>3. queue # <<>> => /\ Head(queue) = queue[1] /\ 1 \in DOMAIN queue
                        /\ \A i \in DOMAIN Tail(queue) : i + 1 \in DOMAIN queue /\ Tail(queue)[i] = queue[i + 1]
    BY <2>2
  \* The poller waits for nothing: no task is anywhere.
  <2>4. ASSUME poller.at \notin {"replaying", "waiting"}
        PROVE  DOMAIN queue = {} /\ ui.at = "idle"
    BY <1>1, <2>2, <2>4 DEF OneLive, KeptOn
  <2>5. ASSUME ui.at # "idle"
        PROVE  DOMAIN queue = {}
    BY <1>1, <2>2, <2>5 DEF OneLive, KeptOn
  <2>6. CASE Decline
    BY <2>1, <2>3, <2>6 DEF Decline, ListsOnce, ReplaysOnce, NewOnce
  <2>7. CASE TakeReplay
    BY <2>1, <2>3, <2>7 DEF TakeReplay, ListsOnce, ReplaysOnce, NewOnce
  <2>8. CASE TakeNew
    <3> DEFINE a == Head(queue).act
    <3>1. /\ a \in Acts /\ poller.at = "waiting" /\ DOMAIN queue' = {}
          /\ \A b \in todo : Ts[a] <= Ts[b] /\ b # a
      BY <2>8, TakenIsNew
    <3>2. mem' \in Staged(mem, a) /\ UNCHANGED <<poller, todo>>
      BY <2>8 DEF TakeNew
    <3> HIDE DEF a
    <3>3. mem'.cursor = Remember(mem.cursor, a)
      BY <2>2, <3>1, <3>2, StagedFacts
    <3>4. \A b \in todo : ~Passed(mem.cursor, b)
      BY <2>1, <3>1 DEF ListsOnce, NewOnce
    <3>5. \A b \in todo : ~Passed(mem'.cursor, b)
      BY <2>2, <3>1, <3>3, <3>4, PassedFacts
    <3> QED
      BY <3>1, <3>2, <3>5 DEF ListsOnce, ReplaysOnce, NewOnce
  <2>9. CASE Checkpoint \/ Record \/ SaveSettings
    <3>1. /\ UNCHANGED <<mem, queue, poller, todo, cursor>>
          /\ ui'.at = "idle" \/ (ui'.task = ui.task /\ ui.at # "idle")
      BY <2>2, <2>4, <2>9, <1>1 DEF Checkpoint, Record, SaveSettings, Saves, Published, NotWritten, Uncertain,
                         Finish, Idle, TypeOK
    <3> QED
      BY <2>1, <3>1 DEF ListsOnce, ReplaysOnce, NewOnce
  <2>10. CASE CheckpointFails \/ RecordFails
    BY <2>10 DEF CheckpointFails, RecordFails, NotWritten, Uncertain
  <2>11. CASE Handle
    <3> DEFINE a == ui.task.act
    <3>1. /\ UNCHANGED <<queue, poller, todo, cursor>> /\ ui'.task = ui.task /\ ui.at # "idle" /\ a \in Acts
      BY <1>1, <2>2, <2>11 DEF Handle, TypeOK, Tasks
    <3>2. PICK o \in Outcomes(a) :
             \E pruned \in Evict([mem.outbox EXCEPT ![a] = o], Overflow([mem.outbox EXCEPT ![a] = o], 0)) :
                mem' = [mem EXCEPT !.outbox = pruned]
      BY <2>11 DEF Handle
    <3> DEFINE box == [mem.outbox EXCEPT ![a] = o]
    <3>3. box \in [Acts -> EntryState] /\ Overflow(box, 0) \in Nat
      BY <2>2, <3>1, <3>2, OverflowType DEF Outcomes, EntryState, Unresolved, Replayable, Conclusive
    <3>4. \A b \in Acts : mem'.outbox[b] = box[b] \/ box[b] \in Conclusive
      <4>1. PICK pruned \in Evict(box, Overflow(box, 0)) : mem' = [mem EXCEPT !.outbox = pruned]
        BY <3>2
      <4>2. \A b \in Acts : pruned[b] = box[b] \/ box[b] \in Conclusive
        <5> HIDE DEF box
        <5> QED
          BY <3>3, EvictFacts
      <4> QED
        BY <2>2, <4>1, <4>2 DEF Configs
    <3>5. mem'.cursor = mem.cursor
      BY <2>2, <3>2 DEF Configs
    <3>6. \A b \in Acts \ {a} : mem.outbox[b] \in Replayable => mem'.outbox[b] = mem.outbox[b]
      BY <2>2, <3>4 DEF Conclusive, Replayable
    <3>7. DOMAIN queue = {}
      BY <2>5, <3>1
    <3> HIDE DEF box
    <3>8. ReplaysOnce'
      BY <2>1, <2>2, <3>1, <3>6, <3>7 DEF ListsOnce, ReplaysOnce
    <3>9. NewOnce'
      BY <2>1, <3>1, <3>5, <3>7 DEF ListsOnce, NewOnce
    <3> QED
      BY <3>8, <3>9 DEF ListsOnce
  <2>12. CASE Start \/ Exit \/ ListFails \/ EndRound
    BY <1>1, <1>2, <2>12 DEF Start, Exit, ListFails, EndRound, Off, TypeOK
  <2>13. CASE Stop \/ StopWaiting
    BY <1>1, <2>13 DEF Stop, StopWaiting, KeptOn, TypeOK
  <2>14. CASE BeginRound
    <3>1. /\ poller'.at = "replay" /\ UNCHANGED <<mem, queue, ui>>
          /\ \A a \in todo' : mem.outbox[a] \in Replayable
      BY <1>1, <2>14 DEF BeginRound, Listed, Replayable, TypeOK
    <3>2. DOMAIN queue = {} /\ ui.at = "idle"
      BY <2>4, <2>14 DEF BeginRound
    <3> QED
      BY <3>1, <3>2 DEF ListsOnce, ReplaysOnce, NewOnce
  <2>15. CASE SendReplay \/ SendNew
    <3>1. PICK a \in todo : Send(a) /\ (SendNew => a \in Oldest(todo))
      BY <2>15 DEF SendReplay, SendNew, Oldest
    <3> DEFINE task == [act |-> a, live |-> TRUE]
    <3>2. DOMAIN queue = {} /\ ui.at = "idle"
      BY <2>4, <2>15 DEF SendReplay, SendNew
    <3>3. /\ queue' = Append(queue, task) /\ task \in Tasks /\ todo' = todo \ {a}
          /\ UNCHANGED <<mem, ui, cursor>>
      BY <2>2, <3>1 DEF Send, Tasks
    <3>4. \A i \in DOMAIN queue' : queue'[i].act = a
      <4>1. \A i \in DOMAIN queue' : i \in DOMAIN queue \/ queue'[i] = task
        BY <2>2, <3>3
      <4> QED
        BY <3>2, <4>1
    <3>5. CASE SendReplay
      <4>1. poller.at = "replay" /\ poller'.at = "replaying"
        BY <1>1, <3>5 DEF SendReplay, TypeOK
      <4> QED
        BY <2>1, <3>2, <3>3, <3>4, <4>1 DEF ListsOnce, ReplaysOnce, NewOnce
    <3>6. CASE SendNew
      <4>1. poller.at = "new" /\ poller'.at = "waiting" /\ \A b \in todo : Ts[a] <= Ts[b]
        BY <1>1, <3>1, <3>6 DEF SendNew, Oldest, TypeOK
      <4> QED
        BY <2>1, <3>2, <3>3, <3>4, <4>1 DEF ListsOnce, ReplaysOnce, NewOnce
    <3> QED
      BY <2>15, <3>5, <3>6
  <2>16. CASE Answered
    <3>1. /\ UNCHANGED <<mem, queue, ui, todo, cursor>>
          /\ \/ poller'.at = "round"
             \/ poller.at = "replaying" /\ poller'.at = "replay"
             \/ poller.at = "waiting" /\ poller'.at = "new"
      BY <1>1, <2>16 DEF Answered, TypeOK
    <3> QED
      BY <2>1, <3>1 DEF ListsOnce, ReplaysOnce, NewOnce
  <2>17. CASE ReadCursor
    BY <1>1, <2>17 DEF ReadCursor, ListsOnce, ReplaysOnce, NewOnce, TypeOK
  <2>18. CASE List
    <3>1. /\ poller.at = "reading" /\ poller'.at = "new" /\ todo' = Fresh(cursor) /\ UNCHANGED mem
          /\ cursor = mem.cursor
      BY <1>1, <2>1, <2>18 DEF List, TypeOK, ListsOnce, NewOnce
    <3>2. \A a \in todo' : a \in Acts /\ ~Passed(mem.cursor, a)
      <4>1. mem.cursor.ts \in Nat /\ \A a \in visible : a \in Acts /\ Ts[a] \in Nat
        BY <1>1, <2>2, ConstantsTyped DEF TypeOK, Cursors
      <4> QED
        BY <3>1, <4>1 DEF Fresh, Passed
    <3> QED
      BY <3>1, <3>2 DEF ListsOnce, ReplaysOnce, NewOnce
  <2>19. CASE World
    <3>1. UNCHANGED <<mem, desk, thread>>
      BY <1>4, <2>19 DEF World, Foreign, Publish, Reconcile
    <3> QED
      BY <2>1, <3>1 DEF ListsOnce, ReplaysOnce, NewOnce
  <2> QED
    BY <2>6, <2>7, <2>8, <2>9, <2>10, <2>11, <2>12, <2>13, <2>14, <2>15, <2>16, <2>17, <2>18, <2>19, NextKinds
       DEF UISteps, UIStep, Polling, PollerStep
<1> QED
  BY <1>3, <1>4

\* The program starts with nothing settled, at a cursor that has passed the
\* entries it found.
LEMMA OnceInit == Init => OnceInv
<1> SUFFICES ASSUME Init PROVE OnceInv
    OBVIOUS
<1> USE DEF Init
<1>1. Legacy \in SUBSET Acts
  BY OutboxAssumption
<1>2. Latest(Legacy) \in Nat /\ \A a \in Legacy : Ts[a] <= Latest(Legacy) /\ Ts[a] \in Nat
  BY <1>1, LatestFacts, ConstantsTyped
<1>3. \A a \in Legacy : Passed(Initial.cursor, a)
  BY <1>2 DEF Passed, Initial, Identities
<1>4. \A a \in Acts : Initial.outbox[a] # "none" => a \in Legacy
  BY DEF Initial
<1>5. DiskOnce /\ MemOnce
  BY <1>3, <1>4 DEF DiskOnce, MemOnce
<1>6. KeptOn /\ ListsOnce
  BY DEF KeptOn, ListsOnce, ReplaysOnce, NewOnce, Off, Idle
<1> QED
  BY <1>5, <1>6 DEF OnceInv

\* While polling is left on, what was settled on disk is not handled again:
\* _run and _process_queue, with the identities remember_activity keeps, need
\* no entry of it in the outbox.
THEOREM SettledOnceWhileKeptOn == HistorySpec => []SettledOnceIfKeptOn
<1>1. HistorySpec => Spec
  <2>1. HistoryInit => Init
    BY DEF HistoryInit
  <2>2. [HistoryNext]_<<vars, toggled>> => [Next]_vars
    BY DEF HistoryNext
  <2> QED
    BY <2>1, <2>2, PTL DEF HistorySpec, Spec
<1>2. HistoryInit => (~toggled => OnceInv)
  BY OnceInit DEF HistoryInit
<1>3. IInv /\ (~toggled => OnceInv) /\ [HistoryNext]_<<vars, toggled>> => (~toggled => OnceInv)'
  <2> SUFFICES ASSUME IInv, ~toggled => OnceInv, [HistoryNext]_<<vars, toggled>>, ~toggled' PROVE OnceInv'
      OBVIOUS
  <2>1. CASE HistoryNext
    <3>1. Next /\ OnceInv /\ ~poller'.stop
      BY <2>1 DEF HistoryNext
    <3>2. TypeOK /\ KeptOn /\ DiskOnce /\ (~paused => MemOnce)
      BY <3>1 DEF IInv, OnceInv
    <3>3. KeptOn' /\ DiskOnce'
      BY <3>1, <3>2, KeptOnStep, DiskOnceStep
    <3>4. ~paused' => MemOnce' /\ ListsOnce'
      BY <3>1, MemOnceStep, ListsOnceStep
    <3> QED
      BY <3>3, <3>4 DEF OnceInv
  <2>2. CASE UNCHANGED <<vars, toggled>>
    BY <2>2 DEF vars, file, desk, thread, OnceInv, KeptOn, DiskOnce, MemOnce, ListsOnce, ReplaysOnce, NewOnce
  <2> QED
    BY <2>1, <2>2
<1>4. IInv /\ (~toggled => OnceInv) => SettledOnceIfKeptOn
  <2> SUFFICES ASSUME IInv, OnceInv, ui.at = "handling" PROVE ui.task.act \notin done
      BY DEF SettledOnceIfKeptOn, SettledOnce
  <2>1. ~paused /\ ui.task.act \in Acts /\ mem.outbox[ui.task.act] \in Replayable
    BY DEF IInv, MemoryFollows, TypeOK, Tasks
  <2> QED
    BY <2>1 DEF OnceInv, MemOnce, Unresolved, Replayable
<1> QED
  BY <1>1, <1>2, <1>3, <1>4, Invariance, PTL DEF HistorySpec
=============================================================================
