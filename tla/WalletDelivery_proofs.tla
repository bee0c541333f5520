------------------------ MODULE WalletDelivery_proofs ------------------------
(***************************************************************************)
(* Proofs about WalletDelivery for any servers, browsers, keys, wallets,   *)
(* events, batch size and journal capacity.  The argument has two halves.  *)
(* What a poll newly covers and is not filtered is exactly its batch,      *)
(* because batches are the oldest candidates and a filtered event waits    *)
(* for what precedes it in its wallet.  And a receipt goes only when its   *)
(* batch was received: a key names one batch as long as anybody refers to  *)
(* it, so what a browser acknowledges is what it received, and a poll that *)
(* was answered by another server can no longer be committed (Outrun).     *)
(***************************************************************************)
EXTENDS WalletDelivery, FiniteSetTheorems, WellFoundedInduction, TLAPS

\* A cursor has passed an event, and a configuration's cursors have.
Past(c, e) == Ts[e] < c.ts \/ e \in c.seen
Covers(d, e) == Past(d.cursor[WalletOf[e]], e)

\* Cursors stand at events the feeds have shown.
Shown(d) ==
    \A w \in Wallets :
        LET c == d.cursor[w]
        IN  /\ c.seen \subseteq visible
            /\ c.ts = 0 \/ \E v \in visible : WalletOf[v] = w /\ Ts[v] = c.ts

\* A batch whose receipt is not pinned was received.
Settled(d) == \A k \in Keys : ~Pinned(d.journal[k]) => d.batch[k] \subseteq received

\* The staged journal against the one that was read: what became of other keys' entries.
Kept(s) ==
    \A k \in Keys \ {job[s].key} :
        LET old == base[s].journal[k]
            new == work[s].journal[k]
        IN  /\ old = NoEntry => new = NoEntry
            /\ Pinned(old) /\ k # job[s].ack => new = old
            /\ new # NoEntry => new.state = old.state /\ work[s].batch[k] = base[s].batch[k]
            /\ new = NoEntry => work[s].batch[k] = {} /\ base[s].batch[k] \subseteq received
            /\ ~Pinned(new) => work[s].batch[k] \subseteq received

\* The staged cursors against those that were read: they newly cover the batch, and besides
\* it filtered events alone.
Emits(s) ==
    LET batch == work[s].batch[job[s].key]
    IN  /\ \A e \in batch : ~Covers(base[s], e) /\ Covers(work[s], e)
        /\ \A e \in Events : Covers(base[s], e) => Covers(work[s], e)
        /\ \A e \in visible \ Filtered : Covers(work[s], e) => Covers(base[s], e) \/ e \in batch

Serving(s) ==
    /\ job[s].key \in Keys
    /\ job[s].ack # NoKey => base[s].batch[job[s].ack] \subseteq received
    /\ pc[s] = "polling" => work[s] = base[s]
    /\ pc[s] \in {"collecting", "saving"} => base[s].journal[job[s].key] = NoEntry /\ Kept(s)
    /\ pc[s] = "collecting" =>
          work[s].cursor = base[s].cursor /\ work[s].journal[job[s].key] = NewEntry(Poll, "pending")
    /\ pc[s] = "saving" =>
          Emits(s) /\ work[s].journal[job[s].key] = NewEntry(Poll, "completed")

\* Somebody refers to a receipt of k: it was committed once.
Known(k) ==
    \/ disk.journal[k] # NoEntry
    \/ \E s \in Servers : base[s].journal[k] # NoEntry \/ job[s].ack = k
    \/ \E c \in Clients : receipt[c] = k

\* The file has an entry that s has not read: s can commit no more.
Outrun(s) == \E k \in Keys : disk.journal[k] # NoEntry /\ base[s].journal[k] = NoEntry

\* A key that is known was committed by another server than one that has not found it.
OneCommit ==
    \A s \in Servers :
        pc[s] # "idle" /\ base[s].journal[job[s].key] = NoEntry /\ Known(job[s].key) => Outrun(s)

\* A key names one batch while anybody has it.
OneBatch ==
    \A s \in Servers, k \in Keys :
        base[s].journal[k] # NoEntry /\ disk.journal[k] # NoEntry => base[s].batch[k] = disk.batch[k]

\* An open request's key is nobody's receipt, and its own stays pinned.
PendingOpen ==
    \A c \in Clients :
        LET k == pending[c]
        IN  k # NoKey =>
                /\ \A d \in Clients : receipt[d] # k /\ (d # c => pending[d] # k)
                /\ \A s \in Servers : job[s].ack # k
                /\ \A s \in Servers : base[s].journal[k] # NoEntry => disk.journal[k] # NoEntry
                /\ disk.journal[k] # NoEntry => Pinned(disk.journal[k])

\* What a browser holds the receipt of, it received.
ReceiptsReceived == \A c \in Clients : receipt[c] # NoKey => disk.batch[receipt[c]] \subseteq received

\* What was delivered is covered, and was delivered once.
Counted == \A e \in Events : delivered[e] <= 1 /\ (delivered[e] = 1 => Covers(disk, e))

IInv ==
    /\ TypeOK /\ NothingLost /\ Counted
    /\ Shown(disk) /\ \A s \in Servers : Shown(work[s])
    /\ Settled(disk) /\ \A s \in Servers : Settled(base[s])
    /\ \A s \in Servers : pc[s] # "idle" => Serving(s)
    /\ OneCommit /\ OneBatch /\ PendingOpen /\ ReceiptsReceived

-----------------------------------------------------------------------------
(* Cursors and batches.                                                    *)

\* A non-empty finite set of naturals has a greatest element.
LEMMA GreatestExists ==
    ASSUME NEW S \in SUBSET Nat, IsFiniteSet(S), S # {}
    PROVE  \E m \in S : \A t \in S : t <= m
<1> DEFINE Size == {n \in Nat : \E T \in SUBSET S :
                       /\ T # {} /\ Cardinality(T) = n
                       /\ ~ \E m \in T : \A t \in T : t <= m}
<1> SUFFICES ASSUME ~ \E m \in S : \A t \in S : t <= m PROVE FALSE
    OBVIOUS
<1>1. Size # {}
  <2>1. Cardinality(S) \in Nat
    BY FS_CardinalityType
  <2> QED
    BY <2>1
<1>2. PICK n \in Size : \A k \in Size : n <= k
  <2>1. \E x \in Size : \A y \in Size : ~(<<y, x>> \in OpToRel(<, Nat))
    BY <1>1, NatLessThanWellFounded, WFMin, Zenon
  <2>2. PICK x \in Size : \A y \in Size : ~(<<y, x>> \in OpToRel(<, Nat))
    BY <2>1
  <2>3. \A y \in Size : ~(y < x)
    BY <2>2, Zenon DEF OpToRel
  <2> QED
    BY <2>3
<1>3. PICK T \in SUBSET S : /\ T # {} /\ Cardinality(T) = n
                            /\ ~ \E m \in T : \A t \in T : t <= m
  BY <1>2
<1>4. PICK x \in T : TRUE
  BY <1>3
<1>5. IsFiniteSet(T) /\ IsFiniteSet(T \ {x}) /\ Cardinality(T \ {x}) = n - 1
  BY <1>3, <1>4, FS_Subset, FS_RemoveElement
<1>6. T \ {x} # {}
  BY <1>3, <1>4
<1>7. PICK m \in T \ {x} : \A t \in T \ {x} : t <= m
  <2>1. n - 1 \in Nat
    BY <1>5, FS_CardinalityType
  <2>2. n - 1 \notin Size
    BY <1>2, <2>1
  <2> QED
    BY <1>5, <1>6, <2>1, <2>2
<1>8. CASE x <= m
  BY <1>3, <1>4, <1>7, <1>8
<1>9. CASE ~(x <= m)
  <2>1. \A t \in T : t <= x
    BY <1>4, <1>7, <1>9
  <2> QED
    BY <1>3, <1>4, <2>1
<1> QED
  BY <1>8, <1>9

\* remember_activity never steps back, passes every event it is given, and passes others
\* only because they are older than one of those.
LEMMA RememberFacts ==
    ASSUME NEW c \in Cursor, NEW S \in SUBSET Events
    PROVE  /\ Remember(c, S) \in Cursor
           /\ Remember(c, S).ts >= c.ts
           /\ Remember(c, S).ts = c.ts \/ \E d \in S : Ts[d] = Remember(c, S).ts
           /\ Remember(c, S).seen \subseteq c.seen \cup S
           /\ \A e \in c.seen \cup S : Past(Remember(c, S), e)
<1> USE DeliveryAssumption
<1>1. CASE S = {}
  BY <1>1 DEF Remember, Cursor, Past
<1>2. CASE S # {}
  <2> DEFINE Times == {Ts[e] : e \in S}
             top == CHOOSE t \in Times : \A e \in S : Ts[e] <= t
             ts == IF c.ts > top THEN c.ts ELSE top
  <2>1. Times \in SUBSET Nat /\ Times # {}
    BY <1>2
  <2>2. IsFiniteSet(Times)
    <3>1. IsFiniteSet(S)
      BY FS_Subset
    <3> DEFINE f == [e \in S |-> Ts[e]]
    <3>2. f \in Surjection(S, Times)
      BY DEF Surjection
    <3> QED
      BY <3>1, <3>2, FS_Surjection
  <2>3. \E t \in Times : \A e \in S : Ts[e] <= t
    <3>1. \E t \in Times : \A u \in Times : u <= t
      BY <2>1, <2>2, GreatestExists
    <3> QED
      BY <3>1
  <2>4. top \in Times /\ \A e \in S : Ts[e] <= top
    BY <2>3
  <2>5. Remember(c, S) = [ts |-> ts, seen |-> {e \in c.seen \cup S : Ts[e] >= ts}]
    BY <1>2, Zenon DEF Remember
  <2>6. PICK d \in S : Ts[d] = top
    BY <2>4
  <2> HIDE DEF top, Times
  <2>7. c.ts \in Nat /\ c.seen \in SUBSET Events /\ top \in Nat
    BY <2>1, <2>4 DEF Cursor
  <2> DEFINE r == Remember(c, S)
  <2>8. r.ts = ts /\ r.seen = {e \in c.seen \cup S : Ts[e] >= ts}
    BY <2>5
  <2>9. /\ ts \in Nat /\ ts >= c.ts /\ ts >= top
        /\ ts = c.ts \/ ts = Ts[d]
    BY <2>6, <2>7
  <2>10. r \in Cursor
    <3> DEFINE kept == {e \in c.seen \cup S : Ts[e] >= ts}
    <3>1. kept \in SUBSET Events /\ ts \in Nat
      BY <2>7, <2>9
    <3>2. r = [ts |-> ts, seen |-> kept]
      BY <2>5
    <3> HIDE DEF kept, ts, r
    <3> QED
      BY <3>1, <3>2 DEF Cursor
  <2>11. ASSUME NEW e \in c.seen \cup S PROVE Past(r, e)
    <3>1. Ts[e] \in Nat
      BY <2>7
    <3> QED
      BY <2>8, <2>9, <3>1 DEF Past
  <2> HIDE DEF r, ts
  <2>12. r.ts >= c.ts /\ (r.ts = c.ts \/ \E x \in S : Ts[x] = r.ts)
    BY <2>8, <2>9
  <2>13. r.seen \subseteq c.seen \cup S
    BY <2>8
  <2> QED
    BY <2>10, <2>11, <2>12, <2>13 DEF r
<1> QED
  BY <1>1, <1>2

\* Of the unfiltered candidates, all that come before a member of the batch are in it.
LEMMA BatchIsPrefix ==
    ASSUME NEW cands \in SUBSET Events, NEW Cut \in SUBSET cands,
           NEW d \in Batch(cands, Cut), NEW e \in cands \ Filtered, e < d
    PROVE  e \in Batch(cands, Cut)
<1> USE DeliveryAssumption
<1> DEFINE S == cands \ Filtered
           before(x) == {y \in S : y < x}
<1>1. d \in S /\ Cardinality(before(d)) < BatchItems /\ \A x \in Cut : d < x
  BY DEF Batch, Oldest
<1>2. d \in Nat /\ e \in Nat /\ Cut \subseteq Nat /\ S \subseteq Nat
  BY <1>1
<1>3. before(e) \in SUBSET before(d)
  <2>1. ASSUME NEW y \in S, y < e PROVE y < d
    BY <1>2, <2>1
  <2> QED
    BY <2>1, Zenon
<1>4. IsFiniteSet(before(d)) /\ IsFiniteSet(before(e))
  BY FS_Subset
<1>5. Cardinality(before(e)) <= Cardinality(before(d))
  BY <1>3, <1>4, FS_Subset
<1>6. Cardinality(before(e)) \in Nat /\ Cardinality(before(d)) \in Nat
  BY <1>4, FS_CardinalityType
<1>7. Cardinality(before(e)) < BatchItems
  <2> HIDE DEF before
  <2> QED
    BY <1>1, <1>5, <1>6
<1>8. e \in Oldest(S, BatchItems)
  BY <1>7, Zenon DEF Oldest
<1>9. \A x \in Cut : e < x
  BY <1>1, <1>2
<1> QED
  BY <1>8, <1>9, Zenon DEF Batch

\* Advanced cursors are cursors.
LEMMA AdvancedType ==
    ASSUME NEW cursor \in [Wallets -> Cursor], NEW S \in SUBSET Events
    PROVE  Advanced(cursor, S) \in [Wallets -> Cursor]
<1>1. \A w \in Wallets : Remember(cursor[w], {e \in S : WalletOf[e] = w}) \in Cursor
  BY RememberFacts
<1> QED
  BY <1>1 DEF Advanced

\* What a poll newly passes and is not filtered is its batch, whatever ended the batch.
LEMMA CollectFacts ==
    ASSUME NEW cursor \in [Wallets -> Cursor], NEW feed \in SUBSET Events,
           NEW Cut \in SUBSET Candidates(cursor, feed)
    PROVE  LET cands == Candidates(cursor, feed)
               batch == Batch(cands, Cut)
               new   == Advanced(cursor, Consumed(cands, Cut))
           IN  /\ new \in [Wallets -> Cursor]
               /\ batch \in SUBSET feed
               /\ \A e \in batch : ~Past(cursor[WalletOf[e]], e) /\ Past(new[WalletOf[e]], e)
               /\ \A e \in Events : Past(cursor[WalletOf[e]], e) => Past(new[WalletOf[e]], e)
               /\ \A e \in feed \ Filtered :
                     Past(new[WalletOf[e]], e) => Past(cursor[WalletOf[e]], e) \/ e \in batch
               /\ \A w \in Wallets :
                     /\ new[w].seen \subseteq cursor[w].seen \cup feed
                     /\ new[w].ts = cursor[w].ts \/ \E v \in feed : WalletOf[v] = w /\ Ts[v] = new[w].ts
<1> USE DeliveryAssumption
<1> DEFINE cands == Candidates(cursor, feed)
           batch == Batch(cands, Cut)
           S     == Consumed(cands, Cut)
           own(w) == {e \in S : WalletOf[e] = w}
           new   == Advanced(cursor, S)
<1>1. \A e \in Events : WalletOf[e] \in Wallets /\ cursor[WalletOf[e]] \in Cursor /\ Ts[e] \in Nat
  BY Zenon DEF Cursor
<1>2. cands \in SUBSET Events /\ cands \in SUBSET feed
  BY DEF Candidates
<1>3. batch \in SUBSET (cands \ Filtered) /\ S \in SUBSET cands /\ batch \in SUBSET S
  BY <1>2 DEF Batch, Oldest, Consumed
<1>4. \A e \in cands : ~Past(cursor[WalletOf[e]], e)
  <2> TAKE e \in cands
  <2>1. Ts[e] >= cursor[WalletOf[e]].ts /\ e \notin cursor[WalletOf[e]].seen
    BY DEF Candidates
  <2>2. cursor[WalletOf[e]].ts \in Nat /\ Ts[e] \in Nat
    BY <1>1, <1>2 DEF Cursor
  <2> QED
    BY <2>1, <2>2 DEF Past
<1>5. \A e \in feed : ~Past(cursor[WalletOf[e]], e) => e \in cands
  <2> TAKE e \in feed
  <2>1. cursor[WalletOf[e]].ts \in Nat /\ Ts[e] \in Nat
    BY <1>1 DEF Cursor
  <2> QED
    BY <2>1 DEF Past, Candidates
<1>6. ASSUME NEW w \in Wallets
      PROVE  /\ new[w] \in Cursor /\ cursor[w] \in Cursor
             /\ new[w].ts >= cursor[w].ts
             /\ new[w].ts = cursor[w].ts \/ \E d \in own(w) : Ts[d] = new[w].ts
             /\ new[w].seen \subseteq cursor[w].seen \cup own(w)
             /\ \A e \in cursor[w].seen \cup own(w) : Past(new[w], e)
  <2>1. own(w) \in SUBSET Events /\ cursor[w] \in Cursor
    BY <1>2, <1>3
  <2>2. new[w] = Remember(cursor[w], own(w))
    BY Zenon DEF Advanced
  <2> HIDE DEF own, new
  <2> QED
    BY <2>1, <2>2, RememberFacts
<1>7. new \in [Wallets -> Cursor]
  BY <1>2, <1>3, AdvancedType
<1>8. ASSUME NEW e \in batch PROVE ~Past(cursor[WalletOf[e]], e) /\ Past(new[WalletOf[e]], e)
  <2>1. e \in own(WalletOf[e]) /\ e \in cands /\ WalletOf[e] \in Wallets
    BY <1>1, <1>2, <1>3
  <2> HIDE DEF own, new, batch, cands
  <2> QED
    BY <1>4, <1>6, <2>1
<1>9. ASSUME NEW e \in Events, Past(cursor[WalletOf[e]], e) PROVE Past(new[WalletOf[e]], e)
  <2> DEFINE w == WalletOf[e]
  <2>1. w \in Wallets /\ Ts[e] \in Nat
    BY <1>1
  <2> HIDE DEF new, own, w
  <2>2. cursor[w].ts \in Nat /\ new[w].ts \in Nat /\ new[w].ts >= cursor[w].ts
    BY <1>6, <2>1 DEF Cursor
  <2>3. CASE Ts[e] < cursor[w].ts
    BY <2>1, <2>2, <2>3 DEF Past, w
  <2>4. CASE e \in cursor[w].seen
    BY <1>6, <2>1, <2>4 DEF w
  <2> QED
    BY <1>9, <2>3, <2>4 DEF Past, w
<1>10. ASSUME NEW e \in feed \ Filtered, Past(new[WalletOf[e]], e), ~Past(cursor[WalletOf[e]], e)
       PROVE  e \in batch
  <2> DEFINE w == WalletOf[e]
  <2>1. e \in cands \ Filtered /\ w \in Wallets /\ Ts[e] \in Nat
    BY <1>1, <1>5, <1>10
  <2>2. e \in S => e \in batch
    BY <2>1 DEF Consumed
  <2>3. CASE e \in new[w].seen
    <3>1. e \in own(w)
      BY <1>6, <1>10, <2>1, <2>3 DEF Past
    <3> QED
      BY <2>2, <3>1
  <2>4. CASE Ts[e] < new[w].ts
    <3>1. PICK d \in own(w) : Ts[d] = new[w].ts
      <4> HIDE DEF new, own
      <4>1. ~(Ts[e] < cursor[w].ts)
        BY <1>10 DEF Past
      <4>2. new[w].ts # cursor[w].ts
        BY <2>4, <4>1
      <4> QED
        BY <1>6, <2>1, <4>2
    <3>2. d \in S /\ WalletOf[d] = w /\ d \in Events /\ e \in Events /\ Ts[e] < Ts[d]
      BY <1>2, <1>3, <2>4, <3>1
    <3>3. e < d /\ ~(d < e)
      BY <3>2
    <3>4. CASE d \in batch
      BY <1>2, <2>1, <3>3, <3>4, BatchIsPrefix
    <3>5. CASE d \notin batch /\ e \notin batch
      <4>1. \A x \in ((cands \ Filtered) \ batch) \cup Cut : WalletOf[x] = WalletOf[d] => d < x
        BY <3>2, <3>5 DEF Consumed
      <4> QED
        BY <2>1, <3>2, <3>3, <3>5, <4>1
    <3> QED
      BY <3>4, <3>5
  <2> QED
    BY <1>10, <2>3, <2>4 DEF Past
<1>11. ASSUME NEW w \in Wallets
       PROVE  /\ new[w].seen \subseteq cursor[w].seen \cup feed
              /\ new[w].ts = cursor[w].ts \/ \E v \in feed : WalletOf[v] = w /\ Ts[v] = new[w].ts
  <2>1. own(w) \subseteq feed /\ \A d \in own(w) : WalletOf[d] = w
    BY <1>2, <1>3
  <2> HIDE DEF own, new
  <2> QED
    BY <1>6, <2>1
<1>12. batch \in SUBSET feed
  BY <1>2, <1>3
<1> HIDE DEF new, batch
<1>13. /\ new \in [Wallets -> Cursor]
       /\ batch \in SUBSET feed
       /\ \A e \in batch : ~Past(cursor[WalletOf[e]], e) /\ Past(new[WalletOf[e]], e)
       /\ \A e \in Events : Past(cursor[WalletOf[e]], e) => Past(new[WalletOf[e]], e)
       /\ \A e \in feed \ Filtered :
             Past(new[WalletOf[e]], e) => Past(cursor[WalletOf[e]], e) \/ e \in batch
       /\ \A w \in Wallets :
             /\ new[w].seen \subseteq cursor[w].seen \cup feed
             /\ new[w].ts = cursor[w].ts \/ \E v \in feed : WalletOf[v] = w /\ Ts[v] = new[w].ts
  BY <1>7, <1>8, <1>9, <1>10, <1>11, <1>12
<1> QED
  BY <1>13 DEF new, batch

-----------------------------------------------------------------------------
(* The journal.                                                            *)

Poller == NewEntry(Poll, "pending")
Polled == NewEntry(Poll, "completed")

\* The entries a poll and another mutation write.
LEMMA EntryFacts ==
    /\ Poller \in Entry /\ Polled \in Entry /\ NewEntry(Other, "completed") \in Entry
    /\ NoEntry \notin Entry /\ ~Pinned(NoEntry)
    /\ NoEntry.state # "completed"
    /\ Pinned(Polled) /\ Polled.state = "completed"
    /\ [Poller EXCEPT !.state = "completed"] = Polled
    /\ Poller.req = Poll /\ Polled.req = Poll
<1>1. Poll \in Reqs /\ Poll \in PollReqs /\ Other \in Reqs /\ "none" \notin Reqs
  BY DeliveryAssumption, JournalAssumption, RequestNames
<1>2. Poller \in Entry /\ Polled \in Entry /\ NewEntry(Other, "completed") \in Entry
  BY <1>1 DEF NewEntry, Entry, EntryStates, Terminal, Unresolved, Codes, Poller, Polled
<1>3. NoEntry \notin Entry /\ ~Pinned(NoEntry) /\ NoEntry.state # "completed"
  BY DEF NoEntry, Entry, EntryStates, Terminal, Unresolved, Pinned
<1>4. /\ Pinned(Polled) /\ Polled.state = "completed"
      /\ Poller.req = Poll /\ Polled.req = Poll
  BY <1>1 DEF NewEntry, Pinned, Poller, Polled
<1>5. [Poller EXCEPT !.state = "completed"] = Polled
  <2>1. \A e \in Entry : [e EXCEPT !.state = "completed"]
            = [req |-> e.req, state |-> "completed", authorized |-> e.authorized, code |-> e.code]
    BY DEF Entry
  <2>2. [Poller EXCEPT !.state = "completed"]
            = [req |-> Poller.req, state |-> "completed", authorized |-> Poller.authorized, code |-> Poller.code]
    BY <1>2, <2>1, Zenon
  <2>3. Poller.req = Poll /\ Poller.authorized = FALSE /\ Poller.code = "plain"
    BY DEF NewEntry, Poller
  <2> QED
    BY <2>2, <2>3, Zenon DEF NewEntry, Polled
<1> QED
  BY <1>2, <1>3, <1>4, <1>5, Zenon

\* An appended journal holds the entry; other entries stay or were removable.
LEMMA AppendedFacts ==
    ASSUME NEW j \in Journals, NEW k \in Keys, NEW e \in Entry, NEW new \in Appended(j, k, e)
    PROVE  /\ new \in Journals
           /\ new[k] = e
           /\ \A x \in Keys \ {k} : new[x] = j[x] \/ (~Pinned(j[x]) /\ new[x] = NoEntry)
<1>1. CASE new = [j EXCEPT ![k] = e]
  BY <1>1 DEF Journals
<1>2. ASSUME NEW old \in Recorded(j), Removable(j[old]), new = [j EXCEPT ![old] = NoEntry, ![k] = e]
      PROVE  /\ new \in Journals
             /\ new[k] = e
             /\ \A x \in Keys \ {k} : new[x] = j[x] \/ (~Pinned(j[x]) /\ new[x] = NoEntry)
  BY <1>2 DEF Journals, Recorded, Removable
<1> QED
  BY <1>1, <1>2 DEF Appended

\* An acknowledged entry is no longer pinned, and the same otherwise.
LEMMA AcknowledgedFacts ==
    ASSUME NEW e \in Entry
    PROVE  /\ [e EXCEPT !.code = "acknowledged"] \in Entry
           /\ [e EXCEPT !.code = "acknowledged"].state = e.state
  BY DEF Entry, Codes

\* Swept batches are batches.
LEMMA SweepFacts ==
    ASSUME NEW j \in Journals, NEW batch \in [Keys -> SUBSET Events]
    PROVE  /\ Sweep(j, batch) \in [Keys -> SUBSET Events]
           /\ \A k \in Keys : Sweep(j, batch)[k] = IF j[k] = NoEntry THEN {} ELSE batch[k]
  BY DEF Sweep

\* The empty configuration covers nothing and holds nothing.
LEMMA InitialFacts ==
    /\ Initial \in Store
    /\ \A k \in Keys : Initial.journal[k] = NoEntry /\ Initial.batch[k] = {}
    /\ \A w \in Wallets : Initial.cursor[w].ts = 0 /\ Initial.cursor[w].seen = {}
    /\ Shown(Initial) /\ Settled(Initial)
<1>1. \A w \in Wallets : Initial.cursor[w].ts = 0 /\ Initial.cursor[w].seen = {}
  BY DEF Initial
<1>2. \A k \in Keys : Initial.journal[k] = NoEntry /\ Initial.batch[k] = {}
  BY DEF Initial, EmptyJournal
<1>3. Initial \in Store
  BY DEF Initial, Store, Cursor, Journals, EmptyJournal
<1>4. Shown(Initial)
  BY <1>1 DEF Shown
<1>5. Settled(Initial)
  BY <1>2 DEF Settled
<1> QED
  BY <1>1, <1>2, <1>3, <1>4, <1>5

\* The parts of a configuration.
LEMMA StoreParts ==
    ASSUME NEW d \in Store
    PROVE  /\ d.cursor \in [Wallets -> Cursor]
           /\ d.journal \in Journals
           /\ d.batch \in [Keys -> SUBSET Events]
           /\ \A k \in Keys : d.journal[k] \in Entry \cup {NoEntry} /\ d.batch[k] \in SUBSET Events
  BY DEF Store, Journals

-----------------------------------------------------------------------------
(* Steps that end a request or save the file.                              *)

\* A save puts an entry under a key nobody refers to, and drops only what was received.
FileGrows(k) ==
    /\ disk.journal[k] = NoEntry /\ disk'.journal[k] # NoEntry
    /\ ~Known(k)
    /\ \A c \in Clients : pending[c] = k => Pinned(disk'.journal[k])
    /\ ~Pinned(disk'.journal[k]) => disk'.batch[k] \subseteq received
    /\ \A x \in Keys \ {k} :
          LET old == disk.journal[x]
              new == disk'.journal[x]
          IN  /\ old = NoEntry => new = NoEntry
              /\ Pinned(old) /\ (\A s \in Servers : job[s].ack # x) => new = old
              /\ new # NoEntry => new.state = old.state /\ disk'.batch[x] = disk.batch[x]
              /\ new = NoEntry => disk'.batch[x] = {} /\ disk.batch[x] \subseteq received
              /\ ~Pinned(new) => disk'.batch[x] \subseteq received
    /\ \A e \in visible \ Filtered :
          Covers(disk', e) =>
              Covers(disk, e) \/ (e \in disk'.batch[k] /\ disk'.journal[k].state = "completed")

\* A server is left alone by a step, or its request ends.
Untouched(s) == pc'[s] = pc[s] /\ job'[s] = job[s] /\ base'[s] = base[s] /\ work'[s] = work[s]
Gone(s) == pc'[s] = "idle" /\ job'[s] = NoJob /\ base'[s] = Initial /\ work'[s] = Initial

\* Some requests end, possibly with an answer, and the file may be saved.
Finishes ==
    /\ visible' = visible /\ received \subseteq received'
    /\ \A s \in Servers : Untouched(s) \/ Gone(s)
    /\ \A c \in Clients :
          /\ pending'[c] \in {pending[c], NoKey}
          /\ \/ receipt'[c] = receipt[c]
             \/ /\ receipt'[c] = pending[c] /\ receipt'[c] \in Keys /\ pending'[c] = NoKey
                /\ disk'.journal[receipt'[c]] # NoEntry
                /\ disk'.batch[receipt'[c]] \subseteq received'
    /\ disk' = disk \/ \E k \in Keys : FileGrows(k)
    /\ \A e \in Events :
          /\ Covers(disk, e) => Covers(disk', e)
          /\ \/ delivered'[e] = delivered[e]
             \/ delivered'[e] = delivered[e] + 1 /\ ~Covers(disk, e) /\ Covers(disk', e)

\* NothingLost, with the cursors' events by name.
Lossless ==
    \A e \in visible \ Filtered :
        Covers(disk, e) =>
            \/ e \in received
            \/ \E k \in Keys : Completed(disk.journal, k) /\ e \in disk.batch[k]

LEMMA NothingLostIsLossless == (NothingLost <=> Lossless) /\ (NothingLost' <=> Lossless')
<1>1. NothingLost <=> Lossless
  BY DEF NothingLost, Lossless, Passed, Covers, Past
<1>2. NothingLost' <=> Lossless'
  BY DEF NothingLost, Lossless, Passed, Covers, Past
<1> QED
  BY <1>1, <1>2

LEMMA FinishNothingLost == ASSUME IInv, Finishes PROVE NothingLost'
<1>1. Lossless
  BY NothingLostIsLossless DEF IInv
<1> SUFFICES ASSUME NEW e \in visible \ Filtered, Covers(disk', e), e \notin received'
             PROVE  \E k \in Keys : Completed(disk'.journal, k) /\ e \in disk'.batch[k]
  <2>1. visible' = visible
    BY DEF Finishes
  <2> QED
    BY <2>1, NothingLostIsLossless DEF Lossless, Covers, Completed
<1>2. e \notin received
  BY DEF Finishes
<1>3. CASE disk' = disk
  BY <1>1, <1>2, <1>3 DEF Lossless
<1>4. ASSUME NEW k \in Keys, FileGrows(k)
      PROVE  \E x \in Keys : Completed(disk'.journal, x) /\ e \in disk'.batch[x]
  <2>1. CASE e \in disk'.batch[k] /\ disk'.journal[k].state = "completed"
    BY <2>1 DEF Completed
  <2>2. CASE Covers(disk, e)
    <3>1. PICK x \in Keys : Completed(disk.journal, x) /\ e \in disk.batch[x]
      BY <1>1, <1>2, <2>2 DEF Lossless
    <3>2. x # k
      BY <1>4, <3>1, EntryFacts DEF FileGrows, Completed
    <3>3. disk'.journal[x] # NoEntry
      BY <1>2, <1>4, <3>1, <3>2 DEF FileGrows
    <3> QED
      BY <1>4, <3>1, <3>2, <3>3 DEF FileGrows, Completed
  <2> QED
    BY <1>4, <2>1, <2>2 DEF FileGrows
<1> QED
  BY <1>3, <1>4 DEF Finishes

LEMMA FinishCounted == ASSUME IInv, Finishes PROVE Counted'
<1> SUFFICES ASSUME NEW e \in Events
             PROVE  delivered'[e] <= 1 /\ (delivered'[e] = 1 => Covers(disk', e))
  BY DEF Counted, Covers
<1>1. delivered[e] \in Nat /\ delivered[e] <= 1 /\ (delivered[e] = 1 => Covers(disk, e))
  BY DEF IInv, Counted, TypeOK
<1> QED
  BY <1>1 DEF Finishes

LEMMA FinishSettled == ASSUME IInv, Finishes PROVE Settled(disk)' /\ \A s \in Servers : Settled(base[s])'
<1>1. Settled(disk)'
  <2>1. CASE disk' = disk
    BY <2>1 DEF IInv, Finishes, Settled
  <2>2. ASSUME NEW k \in Keys, FileGrows(k) PROVE Settled(disk)'
    BY <2>2 DEF FileGrows, Finishes, Settled
  <2> QED
    BY <2>1, <2>2 DEF Finishes
<1>2. ASSUME NEW s \in Servers PROVE Settled(base[s])'
  <2>1. CASE base'[s] = base[s]
    BY <2>1 DEF IInv, Finishes, Settled
  <2>2. CASE base'[s] = Initial
    BY <2>2, InitialFacts DEF Settled
  <2> QED
    BY <2>1, <2>2 DEF Finishes, Untouched, Gone
<1> QED
  BY <1>1, <1>2

LEMMA FinishServing ==
    ASSUME IInv, Finishes, NEW s \in Servers
    PROVE  Shown(work[s])' /\ (pc'[s] # "idle" => Serving(s)')
<1>1. CASE Untouched(s)
  <2>1. pc'[s] # "idle" => Serving(s)'
    BY <1>1 DEF IInv, Finishes, Untouched, Serving, Kept, Emits, Covers
  <2>2. Shown(work[s])'
    BY <1>1 DEF IInv, Finishes, Untouched, Shown
  <2> QED
    BY <2>1, <2>2
<1>2. CASE Gone(s)
  BY <1>2, InitialFacts DEF Finishes, Gone, Shown
<1> QED
  BY <1>1, <1>2 DEF Finishes

\* A server that stays busy is untouched, and serves a key.
LEMMA BusyUntouched ==
    ASSUME IInv, Finishes, NEW s \in Servers, pc'[s] # "idle"
    PROVE  Untouched(s) /\ job[s].key \in Keys
<1>1. Untouched(s)
  BY DEF Finishes, Gone
<1> QED
  BY <1>1 DEF Untouched, IInv, Serving

\* A step that ends requests reads no file and acknowledges nothing.
LEMMA FinishReads ==
    ASSUME Finishes, NEW s \in Servers, NEW k \in Keys
    PROVE  /\ base'[s].journal[k] # NoEntry => base'[s] = base[s]
           /\ job'[s].ack = k => job[s].ack = k
<1>1. CASE Untouched(s)
  BY <1>1 DEF Untouched
<1>2. CASE Gone(s)
  BY <1>2, InitialFacts, DeliveryAssumption DEF Gone, NoJob
<1> QED
  BY <1>1, <1>2 DEF Finishes

LEMMA FinishOneCommit == ASSUME IInv, Finishes PROVE OneCommit'
<1> SUFFICES ASSUME NEW s \in Servers, pc'[s] # "idle",
                    base'[s].journal[job'[s].key] = NoEntry, Known(job[s].key)'
             PROVE  Outrun(s)'
  BY DEF OneCommit
<1> DEFINE key == job[s].key
<1>1. Untouched(s) /\ key \in Keys
  BY BusyUntouched
<1>2. CASE disk' = disk
  <2>1. Known(key)
    <3>1. CASE \E c \in Clients : receipt'[c] = key
      BY <1>1, <1>2, <3>1 DEF Finishes, Known
    <3>2. CASE \E u \in Servers : base'[u].journal[key] # NoEntry \/ job'[u].ack = key
      BY <1>1, <3>2, FinishReads DEF Known
    <3> QED
      BY <1>1, <1>2, <3>1, <3>2 DEF Known, Untouched
  <2> QED
    BY <1>1, <1>2, <2>1 DEF IInv, OneCommit, Outrun, Untouched
<1>3. ASSUME NEW k \in Keys, FileGrows(k) PROVE Outrun(s)'
  BY <1>1, <1>3 DEF FileGrows, Known, Outrun, Untouched
<1> QED
  BY <1>2, <1>3 DEF Finishes

LEMMA FinishOneBatch == ASSUME IInv, Finishes PROVE OneBatch'
<1> SUFFICES ASSUME NEW s \in Servers, NEW x \in Keys,
                    base'[s].journal[x] # NoEntry, disk'.journal[x] # NoEntry
             PROVE  base'[s].batch[x] = disk'.batch[x]
  BY DEF OneBatch
<1>1. base'[s] = base[s]
  BY FinishReads
<1>2. CASE disk' = disk
  BY <1>1, <1>2 DEF IInv, OneBatch
<1>3. ASSUME NEW k \in Keys, FileGrows(k) PROVE base'[s].batch[x] = disk'.batch[x]
  <2>1. x # k
    BY <1>1, <1>3 DEF FileGrows, Known
  <2>2. disk.journal[x] # NoEntry /\ disk'.batch[x] = disk.batch[x]
    BY <1>3, <2>1 DEF FileGrows
  <2> QED
    BY <1>1, <2>2 DEF IInv, OneBatch
<1> QED
  BY <1>2, <1>3 DEF Finishes

LEMMA FinishPendingOpen == ASSUME IInv, TypeOK', Finishes PROVE PendingOpen'
<1> SUFFICES ASSUME NEW c \in Clients, pending'[c] # NoKey
             PROVE  LET k == pending'[c]
                    IN  /\ \A d \in Clients : receipt'[d] # k /\ (d # c => pending'[d] # k)
                        /\ \A s \in Servers : job'[s].ack # k
                        /\ \A s \in Servers : base'[s].journal[k] # NoEntry => disk'.journal[k] # NoEntry
                        /\ disk'.journal[k] # NoEntry => Pinned(disk'.journal[k])
  BY DEF PendingOpen
<1> DEFINE k == pending[c]
<1>1. pending'[c] = k /\ k \in Keys
  BY DEF Finishes, TypeOK
<1>2. /\ \A d \in Clients : receipt[d] # k /\ (d # c => pending[d] # k)
      /\ \A s \in Servers : job[s].ack # k
      /\ \A s \in Servers : base[s].journal[k] # NoEntry => disk.journal[k] # NoEntry
      /\ disk.journal[k] # NoEntry => Pinned(disk.journal[k])
  BY <1>1 DEF IInv, PendingOpen
<1> HIDE DEF k
<1>3. ASSUME NEW d \in Clients PROVE receipt'[d] # k /\ (d # c => pending'[d] # k)
  BY <1>1, <1>2 DEF Finishes
<1>4. ASSUME NEW s \in Servers PROVE job'[s].ack # k
  BY <1>1, <1>2, FinishReads
<1>5. /\ disk.journal[k] # NoEntry => disk'.journal[k] # NoEntry
      /\ disk'.journal[k] # NoEntry => Pinned(disk'.journal[k])
  <2>1. CASE disk' = disk
    BY <1>2, <2>1
  <2>2. ASSUME NEW x \in Keys, FileGrows(x)
        PROVE  /\ disk.journal[k] # NoEntry => disk'.journal[k] # NoEntry
               /\ disk'.journal[k] # NoEntry => Pinned(disk'.journal[k])
    <3>1. CASE k = x
      BY <2>2, <3>1 DEF FileGrows, k
    <3>2. CASE k # x
      BY <1>1, <1>2, <2>2, <3>2 DEF FileGrows
    <3> QED
      BY <3>1, <3>2
  <2> QED
    BY <2>1, <2>2 DEF Finishes
<1>6. ASSUME NEW s \in Servers, base'[s].journal[k] # NoEntry PROVE disk'.journal[k] # NoEntry
  BY <1>1, <1>2, <1>5, <1>6, FinishReads
<1> QED
  BY <1>1, <1>3, <1>4, <1>5, <1>6

LEMMA FinishReceiptsReceived == ASSUME IInv, TypeOK, Finishes PROVE ReceiptsReceived'
<1> SUFFICES ASSUME NEW c \in Clients, receipt'[c] # NoKey
             PROVE  disk'.batch[receipt'[c]] \subseteq received'
  BY DEF ReceiptsReceived
<1>1. CASE receipt'[c] = receipt[c]
  <2> DEFINE x == receipt[c]
  <2>1. x \in Keys /\ disk.batch[x] \subseteq received
    BY <1>1 DEF IInv, TypeOK, ReceiptsReceived
  <2>2. CASE disk' = disk
    BY <1>1, <2>1, <2>2 DEF Finishes
  <2>3. ASSUME NEW k \in Keys, FileGrows(k) PROVE disk'.batch[x] \subseteq received
    <3>1. x # k
      BY <2>3 DEF FileGrows, Known
    <3> QED
      BY <2>1, <2>3, <3>1 DEF FileGrows
  <2> QED
    BY <1>1, <2>2, <2>3 DEF Finishes
<1> QED
  BY <1>1 DEF Finishes

\* A step that ends requests keeps the invariant.
LEMMA FinishPreserves == ASSUME IInv, TypeOK', Shown(disk)', Finishes PROVE IInv'
<1>1. NothingLost' /\ Counted'
  BY FinishNothingLost, FinishCounted
<1>2. Settled(disk)' /\ \A s \in Servers : Settled(base[s])'
  BY FinishSettled
<1>3. \A s \in Servers : Shown(work[s])' /\ (pc'[s] # "idle" => Serving(s)')
  BY FinishServing
<1>4. OneCommit' /\ OneBatch' /\ PendingOpen'
  BY FinishOneCommit, FinishOneBatch, FinishPendingOpen
<1>5. ReceiptsReceived'
  BY FinishReceiptsReceived DEF IInv
<1> QED
  BY <1>1, <1>2, <1>3, <1>4, <1>5 DEF IInv

-----------------------------------------------------------------------------
(* The actions.                                                            *)

ServerTypes ==
    /\ pc \in [Servers -> {"idle", "polling", "collecting", "saving"}]
    /\ job \in [Servers -> [client : Clients \cup {NoKey}, key : Keys, ack : Keys \cup {NoKey}] \cup {NoJob}]
    /\ base \in [Servers -> Store] /\ work \in [Servers -> Store]

BrowserTypes ==
    /\ pending \in [Clients -> Keys \cup {NoKey}]
    /\ receipt \in [Clients -> Keys \cup {NoKey}]
    /\ received \subseteq Events

FileTypes == visible \subseteq Events /\ disk \in Store /\ delivered \in [Events -> Nat]

LEMMA TypeParts == TypeOK <=> ServerTypes /\ BrowserTypes /\ FileTypes
  BY Zenon DEF TypeOK, ServerTypes, BrowserTypes, FileTypes

LEMMA TypePartsNext == ASSUME ServerTypes', BrowserTypes', FileTypes' PROVE TypeOK'
  BY Zenon DEF TypeOK, ServerTypes, BrowserTypes, FileTypes

\* A server that leaves drops everything it held; the others keep theirs.
LEMMA LeaveFacts ==
    ASSUME ServerTypes, NEW s \in Servers, Leave(s)
    PROVE  /\ ServerTypes'
           /\ Gone(s) /\ \A u \in Servers \ {s} : Untouched(u)
<1>1. ServerTypes'
  BY InitialFacts DEF Leave, ServerTypes
<1>2. Gone(s) /\ \A u \in Servers \ {s} : Untouched(u)
  BY DEF Leave, ServerTypes, Gone, Untouched
<1> QED
  BY <1>1, <1>2

\* The browsers at the end of a request: a receipt is stored for an open key alone.
BrowsersHear(s, batch) ==
    /\ BrowserTypes' /\ received \subseteq received'
    /\ \A c \in Clients :
          /\ pending'[c] \in {pending[c], NoKey}
          /\ \/ receipt'[c] = receipt[c]
             \/ /\ receipt'[c] = pending[c] /\ pending'[c] = NoKey
                /\ receipt'[c] = job[s].key /\ batch \subseteq received'

LEMMA NoAnswerFacts ==
    ASSUME BrowserTypes, NEW s \in Servers, NEW batch, NoAnswer(s)
    PROVE  Leave(s) /\ BrowsersHear(s, batch)
  BY DEF NoAnswer, BrowserTypes, BrowsersHear, client

LEMMA RefusedFacts ==
    ASSUME BrowserTypes, NEW s \in Servers, NEW batch, Refused(s)
    PROVE  Leave(s) /\ BrowsersHear(s, batch)
<1>1. CASE NoAnswer(s)
  BY <1>1, NoAnswerFacts
<1>2. CASE /\ pending' = [pending EXCEPT ![job[s].client] = NoKey]
           /\ Leave(s)
           /\ UNCHANGED <<receipt, received>>
  BY <1>2 DEF BrowserTypes, BrowsersHear
<1> QED
  BY <1>1, <1>2 DEF Refused

LEMMA AnsweredFacts ==
    ASSUME BrowserTypes, NEW s \in Servers, job[s].key \in Keys,
           NEW batch \in SUBSET Events, Answered(s, batch)
    PROVE  Leave(s) /\ BrowsersHear(s, batch)
<1>1. CASE NoAnswer(s)
  BY <1>1, NoAnswerFacts
<1>2. CASE /\ pending[job[s].client] = job[s].key
           /\ received' = received \cup batch
           /\ receipt' = [receipt EXCEPT ![job[s].client] = job[s].key]
           /\ pending' = [pending EXCEPT ![job[s].client] = NoKey]
           /\ Leave(s)
  BY <1>2 DEF BrowserTypes, BrowsersHear
<1> QED
  BY <1>1, <1>2 DEF Answered

\* A request that ends while the file stays as it is.
LEMMA LeaveUnsaved ==
    ASSUME IInv, NEW s \in Servers, NEW batch, Leave(s), BrowsersHear(s, batch),
           UNCHANGED <<visible, disk, delivered>>,
           \A c \in Clients : receipt'[c] # receipt[c] =>
               /\ job[s].key \in Keys /\ disk.journal[job[s].key] # NoEntry
               /\ batch = disk.batch[job[s].key]
    PROVE  IInv'
<1>1. ServerTypes /\ BrowserTypes /\ FileTypes
  BY TypeParts DEF IInv
<1>2. Gone(s) /\ \A u \in Servers \ {s} : Untouched(u)
  BY <1>1, LeaveFacts
<1>3. TypeOK'
  <2>1. ServerTypes'
    BY <1>1, LeaveFacts
  <2>2. FileTypes'
    BY <1>1 DEF FileTypes
  <2> QED
    BY <2>1, <2>2, TypePartsNext DEF BrowsersHear
<1>4. Shown(disk)'
  BY DEF IInv, Shown
<1>5. Finishes
  <2>1. ASSUME NEW c \in Clients
        PROVE  /\ pending'[c] \in {pending[c], NoKey}
               /\ \/ receipt'[c] = receipt[c]
                  \/ /\ receipt'[c] = pending[c] /\ receipt'[c] \in Keys /\ pending'[c] = NoKey
                     /\ disk'.journal[receipt'[c]] # NoEntry
                     /\ disk'.batch[receipt'[c]] \subseteq received'
    BY DEF BrowsersHear
  <2> QED
    BY <1>2, <2>1 DEF BrowsersHear, Finishes
<1> QED
  BY <1>3, <1>4, <1>5, FinishPreserves

\* A request that ends without an answer, or with a refusal.
LEMMA RefusedPreserves ==
    ASSUME IInv, NEW s \in Servers, Refused(s), UNCHANGED <<visible, disk, delivered>>
    PROVE  IInv'
<1>1. BrowserTypes
  BY TypeParts DEF IInv
<1>2. Leave(s) /\ BrowsersHear(s, {})
  BY <1>1, RefusedFacts
<1>3. receipt' = receipt
  BY DEF Refused, NoAnswer, client
<1> QED
  BY <1>2, <1>3, LeaveUnsaved

LEMMA NoAnswerPreserves ==
    ASSUME IInv, NEW s \in Servers, NoAnswer(s), UNCHANGED <<visible, disk, delivered>>
    PROVE  IInv'
  BY RefusedPreserves DEF Refused

\* A replay answers with the batch the file still holds under the open key.
LEMMA ReplayPreserves == ASSUME IInv, NEW s \in Servers, Replay(s) PROVE IInv'
<1> DEFINE key == job[s].key
           batch == work[s].batch[key]
<1>1. Serving(s) /\ work[s] = base[s] /\ key \in Keys
  BY DEF IInv, Replay, Serving
<1>2. CASE Refused(s)
  BY <1>2, RefusedPreserves DEF Replay
<1>3. CASE Answered(s, batch)
  <2>1. BrowserTypes /\ ServerTypes
    BY TypeParts DEF IInv
  <2>2. batch \in SUBSET Events
    BY <1>1, <2>1, StoreParts DEF ServerTypes
  <2>3. Leave(s) /\ BrowsersHear(s, batch)
    BY <1>1, <1>3, <2>1, <2>2, AnsweredFacts
  <2>4. ASSUME NEW c \in Clients, receipt'[c] # receipt[c]
        PROVE  disk.journal[key] # NoEntry /\ batch = disk.batch[key]
    <3>1. pending[c] = key /\ key # NoKey
      BY <1>1, <2>3, <2>4, DeliveryAssumption DEF BrowsersHear
    <3>2. base[s].journal[key] # NoEntry
      BY <1>1 DEF Replay, EntryOf
    <3>3. disk.journal[key] # NoEntry
      BY <3>1, <3>2 DEF IInv, PendingOpen
    <3> QED
      BY <1>1, <3>2, <3>3 DEF IInv, OneBatch
  <2>5. UNCHANGED <<visible, disk, delivered>>
    BY DEF Replay
  <2> HIDE DEF batch
  <2> QED
    BY <1>1, <2>3, <2>4, <2>5, LeaveUnsaved
<1> QED
  BY <1>2, <1>3 DEF Replay

\* A server that has read the file as it is, saves.
LEMMA SaveGrows ==
    ASSUME IInv, NEW s \in Servers, pc[s] = "saving", Commit(s)
    PROVE  /\ FileGrows(job[s].key) /\ job[s].key \in Keys
           /\ Shown(disk')
           /\ \A e \in Events :
                 /\ Covers(disk, e) => Covers(disk', e)
                 /\ \/ delivered'[e] = delivered[e]
                    \/ delivered'[e] = delivered[e] + 1 /\ ~Covers(disk, e) /\ Covers(disk', e)
<1> DEFINE key == job[s].key
<1>1. /\ Serving(s) /\ key \in Keys /\ Kept(s) /\ Emits(s)
      /\ base[s].journal[key] = NoEntry /\ work[s].journal[key] = Polled
  BY DEF IInv, Serving, Polled
<1>2. base[s] = disk /\ disk' = work[s]
  BY DEF Commit
<1>3. ~Known(key)
  BY <1>1, <1>2 DEF IInv, OneCommit, Outrun
<1>4. Polled # NoEntry /\ Pinned(Polled) /\ Polled.state = "completed"
  BY EntryFacts
<1>5. FileGrows(key)
  <2>1. ASSUME NEW x \in Keys \ {key}
        PROVE  LET old == disk.journal[x]
                   new == disk'.journal[x]
               IN  /\ old = NoEntry => new = NoEntry
                   /\ Pinned(old) /\ (\A u \in Servers : job[u].ack # x) => new = old
                   /\ new # NoEntry => new.state = old.state /\ disk'.batch[x] = disk.batch[x]
                   /\ new = NoEntry => disk'.batch[x] = {} /\ disk.batch[x] \subseteq received
                   /\ ~Pinned(new) => disk'.batch[x] \subseteq received
    BY <1>1, <1>2 DEF Kept
  <2>2. ASSUME NEW e \in visible \ Filtered, Covers(disk', e)
        PROVE  Covers(disk, e) \/ (e \in disk'.batch[key] /\ disk'.journal[key].state = "completed")
    BY <1>1, <1>2, <1>4, <2>2 DEF Emits
  <2> QED
    BY <1>1, <1>2, <1>3, <1>4, <2>1, <2>2 DEF FileGrows
<1>6. Shown(disk')
  BY <1>2 DEF IInv
<1>7. ASSUME NEW e \in Events
      PROVE  /\ Covers(disk, e) => Covers(disk', e)
             /\ \/ delivered'[e] = delivered[e]
                \/ delivered'[e] = delivered[e] + 1 /\ ~Covers(disk, e) /\ Covers(disk', e)
  <2>1. delivered'[e] = IF e \in work[s].batch[key] THEN delivered[e] + 1 ELSE delivered[e]
    BY DEF Commit
  <2> QED
    BY <1>1, <1>2, <2>1 DEF Emits
<1> QED
  BY <1>1, <1>5, <1>6, <1>7

\* A save, whatever the browser hears of it.
LEMMA LeaveSaved ==
    ASSUME IInv, NEW s \in Servers, pc[s] = "saving", Commit(s), visible' = visible,
           Leave(s), BrowsersHear(s, work[s].batch[job[s].key])
    PROVE  IInv'
<1> DEFINE key == job[s].key
<1>1. ServerTypes /\ BrowserTypes /\ FileTypes
  BY TypeParts DEF IInv
<1>2. Gone(s) /\ \A u \in Servers \ {s} : Untouched(u)
  BY <1>1, LeaveFacts
<1>3. FileGrows(key) /\ key \in Keys /\ disk' = work[s]
  BY SaveGrows DEF Commit
<1>4. TypeOK'
  <2>1. ServerTypes'
    BY <1>1, LeaveFacts
  <2>2. FileTypes'
    BY <1>1 DEF FileTypes, ServerTypes, Commit
  <2> QED
    BY <2>1, <2>2, TypePartsNext DEF BrowsersHear
<1>5. Shown(disk)'
  BY SaveGrows DEF Shown
<1>6. Finishes
  <2>1. ASSUME NEW c \in Clients
        PROVE  /\ pending'[c] \in {pending[c], NoKey}
               /\ \/ receipt'[c] = receipt[c]
                  \/ /\ receipt'[c] = pending[c] /\ receipt'[c] \in Keys /\ pending'[c] = NoKey
                     /\ disk'.journal[receipt'[c]] # NoEntry
                     /\ disk'.batch[receipt'[c]] \subseteq received'
    BY <1>3 DEF BrowsersHear, FileGrows
  <2>2. /\ \A u \in Servers : Untouched(u) \/ Gone(u)
        /\ received \subseteq received'
    BY <1>2 DEF BrowsersHear
  <2> QED
    BY <1>3, <2>1, <2>2, SaveGrows DEF Finishes
<1> QED
  BY <1>4, <1>5, <1>6, FinishPreserves

LEMMA SaveBatchPreserves == ASSUME IInv, NEW s \in Servers, SaveBatch(s) PROVE IInv'
<1> DEFINE key == job[s].key
           batch == work[s].batch[key]
<1>1. pc[s] = "saving" /\ visible' = visible
  BY DEF SaveBatch
<1>2. key \in Keys /\ BrowserTypes /\ batch \in SUBSET Events
  <2>1. ServerTypes /\ BrowserTypes
    BY TypeParts DEF IInv
  <2>2. key \in Keys
    BY <1>1 DEF IInv, Serving
  <2> QED
    BY <2>1, <2>2, StoreParts DEF ServerTypes
<1>3. CASE Commit(s) /\ Answered(s, batch)
  BY <1>1, <1>2, <1>3, AnsweredFacts, LeaveSaved
<1>4. CASE Commit(s) /\ NoAnswer(s)
  BY <1>1, <1>2, <1>4, NoAnswerFacts, LeaveSaved
<1>5. CASE UNCHANGED <<disk, delivered>> /\ Refused(s)
  BY <1>1, <1>5, RefusedPreserves
<1>6. CASE UNCHANGED <<disk, delivered>> /\ NoAnswer(s)
  BY <1>1, <1>6, NoAnswerPreserves
<1> QED
  BY <1>3, <1>4, <1>5, <1>6 DEF SaveBatch

\* A mutation of another process uses a key nobody refers to, and evicts what was received.
LEMMA OtherMutationPreserves == ASSUME IInv, NEW k \in Keys, OtherMutation(k) PROVE IInv'
<1> DEFINE entry == NewEntry(Other, "completed")
<1>1. ServerTypes /\ BrowserTypes /\ FileTypes
  BY TypeParts DEF IInv
<1>2. PICK j \in Appended(disk.journal, k, entry) :
          disk' = [disk EXCEPT !.journal = j, !.batch = Sweep(j, @)]
  BY DEF OtherMutation
<1>3. /\ disk.cursor \in [Wallets -> Cursor] /\ disk.journal \in Journals
      /\ disk.batch \in [Keys -> SUBSET Events]
  BY <1>1, StoreParts DEF FileTypes
<1>4. /\ j \in Journals /\ j[k] = entry /\ entry \in Entry
      /\ \A x \in Keys \ {k} : j[x] = disk.journal[x] \/ (~Pinned(disk.journal[x]) /\ j[x] = NoEntry)
  BY <1>3, EntryFacts, AppendedFacts
<1>5. /\ disk'.cursor = disk.cursor /\ disk'.journal = j /\ disk'.batch = Sweep(j, disk.batch)
      /\ disk' \in Store
  <2>1. Sweep(j, disk.batch) \in [Keys -> SUBSET Events]
    BY <1>3, <1>4, SweepFacts
  <2>2. disk' = [cursor |-> disk.cursor, journal |-> j, batch |-> Sweep(j, disk.batch)]
    BY <1>1, <1>2 DEF FileTypes, Store
  <2> QED
    BY <1>3, <1>4, <2>1, <2>2 DEF Store
<1>6. \A x \in Keys : disk'.batch[x] = IF j[x] = NoEntry THEN {} ELSE disk.batch[x]
  BY <1>3, <1>4, <1>5, SweepFacts
<1>7. \A x \in Keys : ~Pinned(disk.journal[x]) => disk.batch[x] \subseteq received
  BY DEF IInv, Settled
<1>8. FileGrows(k)
  <2>1. disk.journal[k] = NoEntry /\ ~Known(k) /\ \A c \in Clients : pending[c] # k
    BY DEF OtherMutation, Unused, Known
  <2>2. disk'.journal[k] # NoEntry
    BY <1>4, <1>5, EntryFacts
  <2>3. disk'.batch[k] \subseteq received
    BY <1>6, <1>7, <2>1, EntryFacts
  <2>4. ASSUME NEW x \in Keys \ {k}
        PROVE  LET old == disk.journal[x]
                   new == disk'.journal[x]
               IN  /\ old = NoEntry => new = NoEntry
                   /\ Pinned(old) /\ (\A u \in Servers : job[u].ack # x) => new = old
                   /\ new # NoEntry => new.state = old.state /\ disk'.batch[x] = disk.batch[x]
                   /\ new = NoEntry => disk'.batch[x] = {} /\ disk.batch[x] \subseteq received
                   /\ ~Pinned(new) => disk'.batch[x] \subseteq received
    BY <1>4, <1>5, <1>6, <1>7, EntryFacts
  <2>5. \A e \in visible \ Filtered : Covers(disk', e) => Covers(disk, e)
    BY <1>5 DEF Covers
  <2> QED
    BY <2>1, <2>2, <2>3, <2>4, <2>5 DEF FileGrows
<1>9. TypeOK'
  <2>1. ServerTypes' /\ BrowserTypes'
    BY <1>1 DEF OtherMutation, client, ServerTypes, BrowserTypes
  <2>2. FileTypes'
    BY <1>1, <1>5 DEF OtherMutation, FileTypes
  <2> QED
    BY <2>1, <2>2, TypePartsNext
<1>10. Shown(disk)'
  BY <1>5 DEF IInv, OtherMutation, Shown
<1>11. Finishes
  BY <1>5, <1>8 DEF OtherMutation, client, Finishes, Untouched, Covers
<1> QED
  BY <1>9, <1>10, <1>11, FinishPreserves

\* A new event sorts behind everything its feed has shown, so no cursor has passed it.
LEMMA PublishedUncovered ==
    ASSUME NEW e \in Events, Publish(e), NEW d \in Store, Shown(d)
    PROVE  ~Covers(d, e)
<1> DEFINE w == WalletOf[e]
           c == d.cursor[w]
<1>1. /\ w \in Wallets /\ c \in Cursor /\ e \notin visible /\ Ts[e] \in Nat \ {0}
      /\ \A v \in visible : WalletOf[v] = w => Ts[v] <= Ts[e]
  BY DeliveryAssumption, StoreParts DEF Publish
<1>2. c.seen \subseteq visible /\ (c.ts = 0 \/ \E v \in visible : WalletOf[v] = w /\ Ts[v] = c.ts)
  BY <1>1 DEF Shown
<1>3. c.ts \in Nat
  BY <1>1 DEF Cursor
<1> HIDE DEF c
<1>4. e \notin c.seen /\ ~(Ts[e] < c.ts)
  BY <1>1, <1>2, <1>3
<1> QED
  BY <1>4 DEF Covers, Past, c

LEMMA PublishPreserves == ASSUME IInv, NEW e \in Events, Publish(e) PROVE IInv'
<1>1. ServerTypes /\ BrowserTypes /\ FileTypes
  BY TypeParts DEF IInv
<1>2. /\ visible' = visible \cup {e}
      /\ UNCHANGED <<disk, pc, job, base, work, pending, receipt, received, delivered>>
  BY DEF Publish, client
<1>3. ~Covers(disk, e) /\ \A s \in Servers : ~Covers(work[s], e)
  BY <1>1, PublishedUncovered DEF FileTypes, ServerTypes, IInv
<1>4. TypeOK'
  <2>1. ServerTypes' /\ BrowserTypes' /\ FileTypes'
    BY <1>1, <1>2 DEF ServerTypes, BrowserTypes, FileTypes
  <2> QED
    BY <2>1, TypePartsNext
<1>5. NothingLost'
  <2>1. Lossless
    BY NothingLostIsLossless DEF IInv
  <2>2. Lossless'
    BY <1>2, <1>3, <2>1 DEF Lossless, Covers, Completed
  <2> QED
    BY <2>2, NothingLostIsLossless
<1>6. Counted' /\ Settled(disk)' /\ \A s \in Servers : Settled(base[s])'
  BY <1>2 DEF IInv, Counted, Settled, Covers
<1>7. Shown(disk)' /\ \A s \in Servers : Shown(work[s])'
  BY <1>2 DEF IInv, Shown
<1>8. ASSUME NEW s \in Servers, pc'[s] # "idle" PROVE Serving(s)'
  <2>1. Serving(s) /\ pc'[s] = pc[s]
    BY <1>2, <1>8 DEF IInv
  <2>2. Emits(s) => Emits(s)'
    BY <1>2, <1>3 DEF Emits, Covers
  <2>3. Kept(s) => Kept(s)'
    BY <1>2 DEF Kept
  <2> QED
    BY <1>2, <2>1, <2>2, <2>3 DEF Serving
<1>9. OneCommit' /\ OneBatch' /\ PendingOpen' /\ ReceiptsReceived'
  BY <1>2 DEF IInv, OneCommit, OneBatch, PendingOpen, ReceiptsReceived, Known, Outrun
<1> QED
  BY <1>4, <1>5, <1>6, <1>7, <1>8, <1>9 DEF IInv

\* What depends on the file, the feeds and what was received alone.
FileInvariant ==
    NothingLost /\ Counted /\ Shown(disk) /\ Settled(disk)

LEMMA FileUnchanged ==
    ASSUME IInv, UNCHANGED <<visible, disk, received, delivered>>
    PROVE  FileInvariant'
<1>1. NothingLost'
  BY NothingLostIsLossless DEF IInv, Lossless, Covers, Completed
<1>2. Counted' /\ Shown(disk)' /\ Settled(disk)'
  BY DEF IInv, Counted, Shown, Settled, Covers
<1> QED
  BY <1>1, <1>2 DEF FileInvariant

\* A browser that forgets, or gives up waiting.
LEMMA ForgetPreserves ==
    ASSUME IInv, TypeOK', UNCHANGED <<visible, disk, pc, base, work, received, delivered>>,
           \A s \in Servers : job'[s].key = job[s].key /\ job'[s].ack = job[s].ack,
           \A c \in Clients : pending'[c] \in {pending[c], NoKey} /\ receipt'[c] \in {receipt[c], NoKey}
    PROVE  IInv'
<1>1. FileInvariant'
  BY FileUnchanged
<1>2. \A s \in Servers : Shown(work[s])' /\ Settled(base[s])'
  BY DEF IInv, Shown, Settled
<1>3. ASSUME NEW s \in Servers, pc'[s] # "idle" PROVE Serving(s)'
  <2>1. Serving(s)
    BY <1>3 DEF IInv
  <2> QED
    BY <2>1 DEF Serving, Kept, Emits, Covers
<1>4. OneCommit'
  <2> SUFFICES ASSUME NEW s \in Servers, pc[s] # "idle", base[s].journal[job[s].key] = NoEntry,
                      Known(job[s].key)'
               PROVE  Outrun(s)
    BY DEF OneCommit, Outrun
  <2>1. job[s].key \in Keys
    BY DEF IInv, Serving
  <2>2. Known(job[s].key)
    BY <2>1, DeliveryAssumption DEF Known
  <2> QED
    BY <2>2 DEF IInv, OneCommit
<1>5. OneBatch'
  BY DEF IInv, OneBatch
<1>6. PendingOpen'
  BY DEF IInv, PendingOpen
<1>7. ReceiptsReceived'
  BY DEF IInv, ReceiptsReceived
<1> QED
  BY <1>1, <1>2, <1>3, <1>4, <1>5, <1>6, <1>7 DEF IInv, FileInvariant

LEMMA ClientTimeoutPreserves == ASSUME IInv, NEW s \in Servers, ClientTimeout(s) PROVE IInv'
<1>1. ServerTypes /\ BrowserTypes /\ FileTypes
  BY TypeParts DEF IInv
<1>2. /\ job' = [job EXCEPT ![s].client = NoKey] /\ job[s].client # NoKey
      /\ UNCHANGED <<visible, disk, pc, base, work, pending, receipt, received, delivered>>
  BY DEF ClientTimeout, client
<1>3. \A u \in Servers : job'[u].key = job[u].key /\ job'[u].ack = job[u].ack
  BY <1>1, <1>2 DEF ServerTypes, NoJob
<1>4. ServerTypes'
  <2>1. job[s] \in [client : Clients \cup {NoKey}, key : Keys, ack : Keys \cup {NoKey}]
    BY <1>1, <1>2 DEF ServerTypes, NoJob
  <2>2. [job[s] EXCEPT !.client = NoKey] \in [client : Clients \cup {NoKey}, key : Keys, ack : Keys \cup {NoKey}]
    BY <2>1
  <2> QED
    BY <1>1, <1>2, <2>2 DEF ServerTypes
<1>5. TypeOK'
  BY <1>1, <1>2, <1>4, TypePartsNext DEF BrowserTypes, FileTypes
<1> QED
  BY <1>2, <1>3, <1>5, ForgetPreserves

LEMMA CloseTabPreserves == ASSUME IInv, NEW c \in Clients, CloseTab(c) PROVE IInv'
<1>1. ServerTypes /\ BrowserTypes /\ FileTypes
  BY TypeParts DEF IInv
<1>2. /\ job' = [s \in Servers |-> IF job[s].client = c THEN [job[s] EXCEPT !.client = NoKey] ELSE job[s]]
      /\ pending' = [pending EXCEPT ![c] = NoKey] /\ receipt' = [receipt EXCEPT ![c] = NoKey]
      /\ UNCHANGED <<visible, disk, pc, base, work, received, delivered>>
  BY DEF CloseTab
<1> DEFINE Job == [client : Clients \cup {NoKey}, key : Keys, ack : Keys \cup {NoKey}]
<1>3. ASSUME NEW s \in Servers
      PROVE  job'[s].key = job[s].key /\ job'[s].ack = job[s].ack /\ job'[s] \in Job \cup {NoJob}
  <2>1. CASE job[s] \in Job
    BY <1>2, <2>1
  <2>2. CASE job[s] = NoJob
    <3>1. [job[s] EXCEPT !.client = NoKey] = job[s]
      BY <2>2 DEF NoJob
    <3> QED
      BY <1>2, <2>2, <3>1
  <2> QED
    BY <1>1, <2>1, <2>2 DEF ServerTypes
<1>4. TypeOK'
  <2>1. ServerTypes'
    BY <1>1, <1>2, <1>3 DEF ServerTypes
  <2>2. BrowserTypes' /\ FileTypes'
    BY <1>1, <1>2 DEF BrowserTypes, FileTypes
  <2> QED
    BY <2>1, <2>2, TypePartsNext
<1>5. \A d \in Clients : pending'[d] \in {pending[d], NoKey} /\ receipt'[d] \in {receipt[d], NoKey}
  BY <1>1, <1>2 DEF BrowserTypes
<1> QED
  BY <1>2, <1>3, <1>4, <1>5, ForgetPreserves

\* A request is sent under a key that is new, or that no file it can meet has forgotten.
LEMMA SendPreserves == ASSUME IInv, NEW c \in Clients, NEW s \in Servers, Send(c, s) PROVE IInv'
<1>1. ServerTypes /\ BrowserTypes /\ FileTypes
  BY TypeParts DEF IInv
<1>2. PICK k \in Keys :
          /\ IF pending[c] = NoKey THEN Unused(k) ELSE k = pending[c]
          /\ pending' = [pending EXCEPT ![c] = k]
          /\ job' = [job EXCEPT ![s] = [client |-> c, key |-> k, ack |-> receipt[c]]]
  BY DEF Send
<1>3. /\ pc' = [pc EXCEPT ![s] = "polling"]
      /\ base' = [base EXCEPT ![s] = disk] /\ work' = [work EXCEPT ![s] = disk]
      /\ UNCHANGED <<visible, disk, receipt, received, delivered>>
  BY DEF Send
<1>4. /\ pc'[s] = "polling" /\ base'[s] = disk /\ work'[s] = disk
      /\ job'[s].key = k /\ job'[s].ack = receipt[c]
      /\ \A u \in Servers \ {s} : Untouched(u)
      /\ pending'[c] = k /\ \A d \in Clients \ {c} : pending'[d] = pending[d]
  BY <1>1, <1>2, <1>3 DEF ServerTypes, BrowserTypes, Untouched
<1>5. TypeOK'
  <2>1. ServerTypes'
    <3>1. [client |-> c, key |-> k, ack |-> receipt[c]]
              \in [client : Clients \cup {NoKey}, key : Keys, ack : Keys \cup {NoKey}]
      BY <1>1 DEF BrowserTypes
    <3> QED
      BY <1>1, <1>2, <1>3, <3>1 DEF ServerTypes, FileTypes
  <2>2. BrowserTypes' /\ FileTypes'
    BY <1>1, <1>2, <1>3 DEF BrowserTypes, FileTypes
  <2> QED
    BY <2>1, <2>2, TypePartsNext
\* Nobody holds a receipt of the key, and no reader saw one that the file has not.
<1>6. /\ k # NoKey
      /\ \A d \in Clients : receipt[d] # k /\ (d # c => pending[d] # k)
      /\ \A u \in Servers : job[u].ack # k
      /\ \A u \in Servers : base[u].journal[k] # NoEntry => disk.journal[k] # NoEntry
      /\ disk.journal[k] # NoEntry => Pinned(disk.journal[k])
  <2>1. k # NoKey
    BY DeliveryAssumption
  <2>2. CASE pending[c] = NoKey
    BY <1>2, <2>1, <2>2 DEF Unused
  <2>3. CASE pending[c] # NoKey
    BY <1>2, <2>1, <2>3 DEF IInv, PendingOpen
  <2> QED
    BY <2>1, <2>2, <2>3
<1>7. FileInvariant'
  BY <1>3, FileUnchanged
<1>8. ASSUME NEW u \in Servers PROVE Shown(work[u])' /\ Settled(base[u])'
  <2>1. CASE u = s
    BY <1>3, <1>4, <2>1 DEF IInv, Shown, Settled
  <2>2. CASE u # s
    BY <1>3, <1>4, <2>2 DEF IInv, Shown, Settled, Untouched
  <2> QED
    BY <2>1, <2>2
<1>9. ASSUME NEW u \in Servers, pc'[u] # "idle" PROVE Serving(u)'
  <2>1. CASE u = s
    BY <1>3, <1>4, <2>1 DEF IInv, ReceiptsReceived, Serving
  <2>2. CASE u # s
    BY <1>3, <1>4, <1>9, <2>2 DEF IInv, Untouched, Serving, Kept, Emits, Covers
  <2> QED
    BY <2>1, <2>2
<1>10. OneCommit'
  <2> SUFFICES ASSUME NEW u \in Servers, pc'[u] # "idle",
                      base'[u].journal[job'[u].key] = NoEntry, Known(job[u].key)'
               PROVE  Outrun(u)'
    BY DEF OneCommit
  <2>1. CASE u = s
    BY <1>3, <1>4, <1>6, <2>1 DEF Known, Untouched
  <2>2. CASE u # s
    <3>1. Untouched(u) /\ job[u].key \in Keys
      BY <1>4, <2>2 DEF Untouched, IInv, Serving
    <3>2. Known(job[u].key)
      BY <1>3, <1>4, <3>1 DEF Known, Untouched
    <3> QED
      BY <1>3, <3>1, <3>2 DEF IInv, OneCommit, Outrun, Untouched
  <2> QED
    BY <2>1, <2>2
<1>11. OneBatch'
  BY <1>3, <1>4 DEF IInv, OneBatch, Untouched
<1>12. PendingOpen'
  <2> SUFFICES ASSUME NEW d \in Clients, NEW x, x = pending'[d], x # NoKey
               PROVE  /\ \A e \in Clients : receipt[e] # x /\ (e # d => pending'[e] # x)
                      /\ \A u \in Servers : job'[u].ack # x
                      /\ \A u \in Servers : base'[u].journal[x] # NoEntry => disk.journal[x] # NoEntry
                      /\ disk.journal[x] # NoEntry => Pinned(disk.journal[x])
    BY <1>3 DEF PendingOpen
  <2>1. CASE d = c
    <3>1. x = k
      BY <1>4, <2>1
    <3>2. ASSUME NEW u \in Servers
          PROVE  job'[u].ack # x /\ (base'[u].journal[x] # NoEntry => disk.journal[x] # NoEntry)
      BY <1>4, <1>6, <3>1 DEF Untouched
    <3> QED
      BY <1>4, <1>6, <2>1, <3>1, <3>2
  <2>2. CASE d # c
    <3>1. x = pending[d] /\ x # k
      BY <1>4, <1>6, <2>2
    <3>2. /\ \A e \in Clients : receipt[e] # x /\ (e # d => pending[e] # x)
          /\ \A u \in Servers : job[u].ack # x
          /\ \A u \in Servers : base[u].journal[x] # NoEntry => disk.journal[x] # NoEntry
          /\ disk.journal[x] # NoEntry => Pinned(disk.journal[x])
      BY <3>1 DEF IInv, PendingOpen
    <3>3. ASSUME NEW u \in Servers
          PROVE  job'[u].ack # x /\ (base'[u].journal[x] # NoEntry => disk.journal[x] # NoEntry)
      BY <1>4, <3>2 DEF Untouched
    <3> QED
      BY <1>4, <3>1, <3>2, <3>3
  <2> QED
    BY <2>1, <2>2
<1>13. ReceiptsReceived'
  BY <1>3 DEF IInv, ReceiptsReceived
<1> QED
  BY <1>5, <1>7, <1>8, <1>9, <1>10, <1>11, <1>12, <1>13 DEF IInv, FileInvariant

\* A server that stages its poll: what it read, and what others see, stays.
LEMMA StagePreserves ==
    ASSUME IInv, NEW s \in Servers, pc[s] # "idle",
           NEW store \in Store, work' = [work EXCEPT ![s] = store],
           NEW place \in {"collecting", "saving"}, pc' = [pc EXCEPT ![s] = place],
           UNCHANGED <<visible, disk, job, base, client, received, delivered>>,
           Shown(store), Serving(s)'
    PROVE  IInv'
<1>1. ServerTypes /\ BrowserTypes /\ FileTypes
  BY TypeParts DEF IInv
<1>2. /\ work'[s] = store /\ pc'[s] = place
      /\ \A u \in Servers \ {s} : work'[u] = work[u] /\ pc'[u] = pc[u]
      /\ UNCHANGED <<visible, disk, job, base, pending, receipt, received, delivered>>
  BY <1>1 DEF ServerTypes, client
<1>3. TypeOK'
  <2>1. ServerTypes' /\ BrowserTypes' /\ FileTypes'
    BY <1>1, <1>2 DEF ServerTypes, BrowserTypes, FileTypes
  <2> QED
    BY <2>1, TypePartsNext
<1>4. FileInvariant'
  BY <1>2, FileUnchanged
<1>5. ASSUME NEW u \in Servers PROVE Shown(work[u])' /\ Settled(base[u])'
  BY <1>2 DEF IInv, Shown, Settled
<1>6. ASSUME NEW u \in Servers, pc'[u] # "idle" PROVE Serving(u)'
  <2>1. CASE u # s
    BY <1>2, <1>6, <2>1 DEF IInv, Serving, Kept, Emits, Covers
  <2> QED
    BY <2>1
<1>7. OneCommit'
  BY <1>2 DEF IInv, OneCommit, Known, Outrun
<1>8. OneBatch' /\ PendingOpen' /\ ReceiptsReceived'
  BY <1>2 DEF IInv, OneBatch, PendingOpen, ReceiptsReceived
<1> QED
  BY <1>3, <1>4, <1>5, <1>6, <1>7, <1>8 DEF IInv, FileInvariant

\* The staged journal after the acknowledgement: only a valid receipt's code has changed.
LEMMA AcknowledgedJournal ==
    ASSUME NEW s \in Servers, work[s] \in Store, job[s].ack \in Keys \cup {NoKey},
           job[s].ack # NoKey => AckIsValid(s)
    PROVE  /\ Acknowledged(s) \in Journals
           /\ \A x \in Keys \ {job[s].ack} : Acknowledged(s)[x] = work[s].journal[x]
           /\ job[s].ack # NoKey =>
                 LET old == work[s].journal[job[s].ack]
                 IN  /\ old \in Entry /\ old.state = "completed"
                     /\ Acknowledged(s)[job[s].ack] \in Entry
                     /\ Acknowledged(s)[job[s].ack].state = old.state
<1> DEFINE ack == job[s].ack
           j   == work[s].journal
<1>1. j \in Journals
  BY StoreParts
<1>2. CASE ack = NoKey
  BY <1>1, <1>2 DEF Acknowledged
<1>3. CASE ack # NoKey
  <2>1. ack \in Keys /\ j[ack].state = "completed" /\ j[ack] \in Entry
    BY <1>1, <1>3, EntryFacts DEF AckIsValid, Journals
  <2> DEFINE new == [j[ack] EXCEPT !.code = "acknowledged"]
  <2>2. new \in Entry /\ new.state = j[ack].state
    BY <2>1, AcknowledgedFacts
  <2>3. Acknowledged(s) = [j EXCEPT ![ack] = new]
    BY <1>3, Zenon DEF Acknowledged
  <2> HIDE DEF new, j, ack
  <2>4. /\ Acknowledged(s) \in Journals
        /\ \A x \in Keys \ {ack} : Acknowledged(s)[x] = j[x]
        /\ Acknowledged(s)[ack] = new
    BY <1>1, <2>1, <2>2, <2>3 DEF Journals
  <2> QED
    BY <2>1, <2>2, <2>4 DEF j, ack
<1> QED
  BY <1>2, <1>3

\* A reservation keeps what is pinned, but for the receipt that the browser acknowledges.
LEMMA ReservePreserves == ASSUME IInv, NEW s \in Servers, Reserve(s) PROVE IInv'
<1> DEFINE key == job[s].key
           ack == job[s].ack
<1>1. ServerTypes /\ BrowserTypes /\ FileTypes
  BY TypeParts DEF IInv
<1>2. pc[s] = "polling" /\ EntryOf(s) = NoEntry /\ UNCHANGED <<visible, disk, delivered>>
  BY DEF Reserve
<1>3. CASE Refused(s)
  BY <1>2, <1>3, RefusedPreserves
<1>4. CASE NoAnswer(s)
  BY <1>2, <1>4, NoAnswerPreserves
<1>5. ASSUME ack # NoKey => AckIsValid(s),
             NEW j \in Appended(Acknowledged(s), key, NewEntry(Poll, "pending")),
             work' = [work EXCEPT ![s].journal = j, ![s].batch = Sweep(j, @)],
             pc' = [pc EXCEPT ![s] = "collecting"],
             UNCHANGED <<job, base, client, received>>
      PROVE  IInv'
  <2>1. /\ Serving(s) /\ key \in Keys /\ work[s] = base[s] /\ work[s] \in Store
        /\ Shown(work[s]) /\ Settled(base[s])
        /\ ack \in Keys \cup {NoKey}
    BY <1>1, <1>2 DEF IInv, Serving, ServerTypes, NoJob
  <2>2. /\ work[s].cursor \in [Wallets -> Cursor] /\ work[s].journal \in Journals
        /\ work[s].batch \in [Keys -> SUBSET Events]
    BY <2>1, StoreParts
  <2> DEFINE A == Acknowledged(s)
  <2>3. /\ A \in Journals /\ \A x \in Keys \ {ack} : A[x] = work[s].journal[x]
        /\ ack # NoKey =>
               /\ work[s].journal[ack] \in Entry /\ A[ack] \in Entry
               /\ work[s].journal[ack].state = "completed" /\ A[ack].state = "completed"
    BY <1>5, <2>1, AcknowledgedJournal
  <2>4. /\ j \in Journals /\ j[key] = Poller
        /\ \A x \in Keys \ {key} : j[x] = A[x] \/ (~Pinned(A[x]) /\ j[x] = NoEntry)
    BY <1>5, <2>1, <2>3, EntryFacts, AppendedFacts DEF Poller
  <2> DEFINE store == [cursor |-> work[s].cursor, journal |-> j, batch |-> Sweep(j, work[s].batch)]
  <2>5. store \in Store /\ \A x \in Keys : store.batch[x] = IF j[x] = NoEntry THEN {} ELSE work[s].batch[x]
    BY <2>2, <2>4, SweepFacts DEF Store
  <2>6. work' = [work EXCEPT ![s] = store]
    <3>1. work'[s] = store
      BY <1>1, <1>5, <2>1 DEF ServerTypes, Store
    <3> HIDE DEF store
    <3>2. work' = [work EXCEPT ![s] = work'[s]]
      BY <1>1, <1>5 DEF ServerTypes
    <3> QED
      BY <3>1, <3>2
  <2>7. store.cursor = work[s].cursor /\ store.journal = j
    OBVIOUS
  <2>8. work'[s] = store /\ pc'[s] = "collecting" /\ job' = job /\ base' = base /\ received' = received
    BY <1>1, <1>5, <2>6 DEF ServerTypes
  <2> HIDE DEF store, A
  <2>9. base[s].journal[key] = NoEntry
    BY <1>2, <2>1 DEF EntryOf
  <2>10. ASSUME NEW x \in Keys \ {key}
         PROVE  LET old == base[s].journal[x]
                    new == j[x]
                IN  /\ old = NoEntry => new = NoEntry
                    /\ Pinned(old) /\ x # ack => new = old
                    /\ new # NoEntry => new.state = old.state /\ store.batch[x] = base[s].batch[x]
                    /\ new = NoEntry => store.batch[x] = {} /\ base[s].batch[x] \subseteq received
                    /\ ~Pinned(new) => store.batch[x] \subseteq received
    <3>1. j[x] = A[x] \/ (~Pinned(A[x]) /\ j[x] = NoEntry)
      BY <2>4
    <3>2. store.batch[x] = IF j[x] = NoEntry THEN {} ELSE base[s].batch[x]
      BY <2>1, <2>5
    <3>3. CASE x = ack
      <4>1. ack # NoKey /\ base[s].batch[x] \subseteq received
        BY <2>1, <3>3, DeliveryAssumption DEF Serving
      <4>2. base[s].journal[x] # NoEntry /\ A[x] # NoEntry /\ A[x].state = base[s].journal[x].state
        BY <2>1, <2>3, <3>3, <4>1, EntryFacts
      <4> QED
        BY <3>1, <3>2, <3>3, <4>1, <4>2
    <3>4. CASE x # ack
      <4>1. A[x] = base[s].journal[x]
        BY <2>1, <2>3, <3>4
      <4>2. ~Pinned(base[s].journal[x]) => base[s].batch[x] \subseteq received
        BY <2>1 DEF Settled
      <4> QED
        BY <3>1, <3>2, <4>1, <4>2, EntryFacts
    <3> QED
      BY <3>3, <3>4
  <2>11. Kept(s)'
    BY <2>7, <2>8, <2>10 DEF Kept
  <2>12. Serving(s)'
    BY <2>1, <2>4, <2>7, <2>8, <2>9, <2>11 DEF Serving, Poller
  <2>13. Shown(store)
    BY <2>1, <2>7 DEF Shown
  <2> QED
    BY <1>2, <1>5, <2>5, <2>6, <2>12, <2>13, StagePreserves
<1> QED
  BY <1>3, <1>4, <1>5 DEF Reserve

\* Collecting stages a batch that is exactly what the cursors newly pass.
LEMMA CollectPreserves == ASSUME IInv, NEW s \in Servers, Collect(s) PROVE IInv'
<1> DEFINE key == job[s].key
           cursor == work[s].cursor
           cands == Candidates(cursor, visible)
<1>1. ServerTypes /\ BrowserTypes /\ FileTypes
  BY TypeParts DEF IInv
<1>2. /\ pc[s] = "collecting" /\ pc' = [pc EXCEPT ![s] = "saving"]
      /\ UNCHANGED <<visible, disk, job, base, client, received, delivered>>
  BY DEF Collect
<1>3. PICK Cut \in SUBSET cands :
          work' = [work EXCEPT ![s] =
              [cursor  |-> Advanced(@.cursor, Consumed(cands, Cut)),
               journal |-> [@.journal EXCEPT ![key].state = "completed"],
               batch   |-> [@.batch EXCEPT ![key] = Batch(cands, Cut)]]]
  BY DEF Collect
<1>4. /\ Serving(s) /\ key \in Keys /\ Kept(s) /\ base[s].journal[key] = NoEntry
      /\ cursor = base[s].cursor /\ work[s].journal[key] = Poller
      /\ work[s] \in Store /\ Shown(work[s])
  BY <1>1, <1>2 DEF IInv, Serving, ServerTypes, Poller
<1>5. /\ cursor \in [Wallets -> Cursor] /\ work[s].journal \in Journals
      /\ work[s].batch \in [Keys -> SUBSET Events] /\ visible \in SUBSET Events
  BY <1>1, <1>4, StoreParts DEF FileTypes
<1> DEFINE batch == Batch(cands, Cut)
           new   == Advanced(cursor, Consumed(cands, Cut))
           j     == [work[s].journal EXCEPT ![key].state = "completed"]
           b     == [work[s].batch EXCEPT ![key] = batch]
           store == [cursor |-> new, journal |-> j, batch |-> b]
<1>6. /\ new \in [Wallets -> Cursor]
      /\ batch \in SUBSET visible
      /\ \A e \in batch : ~Past(cursor[WalletOf[e]], e) /\ Past(new[WalletOf[e]], e)
      /\ \A e \in Events : Past(cursor[WalletOf[e]], e) => Past(new[WalletOf[e]], e)
      /\ \A e \in visible \ Filtered :
            Past(new[WalletOf[e]], e) => Past(cursor[WalletOf[e]], e) \/ e \in batch
      /\ \A w \in Wallets :
            /\ new[w].seen \subseteq cursor[w].seen \cup visible
            /\ new[w].ts = cursor[w].ts \/ \E v \in visible : WalletOf[v] = w /\ Ts[v] = new[w].ts
  BY <1>5, CollectFacts
<1>7. /\ j \in Journals /\ j[key] = Polled
      /\ \A x \in Keys \ {key} : j[x] = work[s].journal[x]
  <2>1. j = [work[s].journal EXCEPT ![key] = Polled]
    BY <1>4, EntryFacts
  <2> HIDE DEF j
  <2> QED
    BY <1>4, <1>5, <2>1, EntryFacts DEF Journals
<1>8. b \in [Keys -> SUBSET Events] /\ b[key] = batch /\ \A x \in Keys \ {key} : b[x] = work[s].batch[x]
  <2> HIDE DEF batch
  <2> QED
    BY <1>4, <1>5, <1>6
<1>9. work' = [work EXCEPT ![s] = store]
  BY <1>1, <1>3, Zenon DEF ServerTypes
<1> HIDE DEF batch, new, j, b
<1>10. store \in Store /\ store.cursor = new /\ store.journal = j /\ store.batch = b
  BY <1>6, <1>7, <1>8 DEF Store
<1> HIDE DEF store
<1>11. work'[s] = store /\ pc'[s] = "saving" /\ job' = job /\ base' = base
       /\ visible' = visible /\ received' = received
  BY <1>1, <1>2, <1>9 DEF ServerTypes
<1>12. Kept(s)'
  BY <1>4, <1>7, <1>8, <1>10, <1>11 DEF Kept
<1>13. Emits(s)'
  BY <1>4, <1>6, <1>8, <1>10, <1>11 DEF Emits, Covers
<1>14. Serving(s)'
  BY <1>4, <1>7, <1>10, <1>11, <1>12, <1>13 DEF Serving, Polled
<1>15. Shown(store)
  BY <1>4, <1>6, <1>10 DEF Shown
<1> QED
  BY <1>2, <1>9, <1>10, <1>14, <1>15, StagePreserves

-----------------------------------------------------------------------------
(* The invariant and the theorems.                                         *)

LEMMA InitIInv == Init => IInv
<1> SUFFICES ASSUME Init PROVE IInv
    OBVIOUS
<1> USE DEF Init
<1>1. \A s \in Servers : pc[s] = "idle" /\ job[s] = NoJob /\ base[s] = Initial /\ work[s] = Initial
  OBVIOUS
<1>2. \A c \in Clients : pending[c] = NoKey /\ receipt[c] = NoKey
  OBVIOUS
<1>3. TypeOK
  BY InitialFacts DEF TypeOK
<1>4. NothingLost /\ Counted
  BY NothingLostIsLossless DEF Lossless, Counted
<1>5. Shown(disk) /\ Settled(disk) /\ \A s \in Servers : Shown(work[s]) /\ Settled(base[s])
  BY <1>1, InitialFacts
<1>6. OneCommit /\ PendingOpen /\ ReceiptsReceived
  BY <1>1, <1>2 DEF OneCommit, PendingOpen, ReceiptsReceived
<1>7. OneBatch
  BY <1>1, InitialFacts DEF OneBatch
<1> QED
  BY <1>1, <1>3, <1>4, <1>5, <1>6, <1>7 DEF IInv

\* A step that leaves every variable alone.
LEMMA StutterPreserves == ASSUME IInv, UNCHANGED vars PROVE IInv'
<1>1. UNCHANGED <<visible, disk, pc, job, base, work, pending, receipt, received, delivered>>
  BY DEF vars, client
<1>2. TypeOK'
  BY <1>1 DEF IInv, TypeOK
<1> QED
  BY <1>1, <1>2, ForgetPreserves

LEMMA NextPreserves == IInv /\ [Next]_vars => IInv'
<1> SUFFICES ASSUME IInv, [Next]_vars PROVE IInv'
    OBVIOUS
<1>1. ASSUME NEW e \in Events, Publish(e) PROVE IInv'
  BY <1>1, PublishPreserves
<1>2. ASSUME NEW c \in Clients, NEW s \in Servers, Send(c, s) PROVE IInv'
  BY <1>2, SendPreserves
<1>3. ASSUME NEW c \in Clients, CloseTab(c) PROVE IInv'
  BY <1>3, CloseTabPreserves
<1>4. ASSUME NEW s \in Servers, Serve(s) PROVE IInv'
  <2>1. CASE Replay(s)
    BY <2>1, ReplayPreserves
  <2>2. CASE Reserve(s)
    BY <2>2, ReservePreserves
  <2>3. CASE Collect(s)
    BY <2>3, CollectPreserves
  <2>4. CASE CollectFails(s)
    BY <2>4, NoAnswerPreserves DEF CollectFails
  <2>5. CASE SaveBatch(s)
    BY <2>5, SaveBatchPreserves
  <2> QED
    BY <1>4, <2>1, <2>2, <2>3, <2>4, <2>5 DEF Serve
<1>5. ASSUME NEW s \in Servers, ClientTimeout(s) PROVE IInv'
  BY <1>5, ClientTimeoutPreserves
<1>6. ASSUME NEW s \in Servers, Crash(s) PROVE IInv'
  BY <1>6, NoAnswerPreserves DEF Crash
<1>7. ASSUME NEW k \in Keys, OtherMutation(k) PROVE IInv'
  BY <1>7, OtherMutationPreserves
<1>8. CASE UNCHANGED vars
  BY <1>8, StutterPreserves
<1> QED
  BY <1>1, <1>2, <1>3, <1>4, <1>5, <1>6, <1>7, <1>8 DEF Next

\* The inductive invariant: what a poll emits, keeps and is outrun by, with the properties.
THEOREM Invariance == Spec => []IInv
  BY InitIInv, NextPreserves, PTL DEF Spec

\* Every variable keeps its type: cursors, journals and batches stay well-formed.
THEOREM TypeCorrect == Spec => []TypeOK
<1>1. IInv => TypeOK
  BY DEF IInv
<1> QED
  BY <1>1, Invariance, PTL

\* No wallet event is lost by poll_wallet_activity: one that a saved cursor has passed was
\* filtered, was received, or is in a durable receipt that a retry of its key returns.
THEOREM EventsAreKept == Spec => []NothingLost
<1>1. IInv => NothingLost
  BY DEF IInv
<1> QED
  BY <1>1, Invariance, PTL

\* No wallet event is in two saved batches, whoever polls, retries or crashes.
THEOREM EventsAreEmittedOnce == Spec => []DeliveredOnce
<1>1. IInv => DeliveredOnce
  BY DEF IInv, Counted, DeliveredOnce
<1> QED
  BY <1>1, Invariance, PTL

\* A poll acknowledges a batch that a browser received: what one acknowledgement unpins was
\* stored by pollWallets before the key was forgotten, by whichever server it was committed.
AcknowledgesReceived ==
    \A s \in Servers :
        pc[s] # "idle" /\ job[s].ack # NoKey => base[s].batch[job[s].ack] \subseteq received

THEOREM OnlyReceivedIsAcknowledged == Spec => []AcknowledgesReceived
<1>1. IInv => AcknowledgesReceived
  BY DEF IInv, Serving, AcknowledgesReceived
<1> QED
  BY <1>1, Invariance, PTL

-----------------------------------------------------------------------------
(* Unacknowledged receipts stay within their limit.                        *)

\* The saved journal is within the limit, and so is what a server will save.
Bounded(j, n) == Cardinality(Receipts(j)) <= n
ReceiptsBounded == Bounded(disk.journal, MaxReceipts)
StagedBounded ==
    \A s \in Servers :
        /\ pc[s] = "collecting" => Bounded(work[s].journal, MaxReceipts - 1)
        /\ pc[s] = "saving" => Bounded(work[s].journal, MaxReceipts)

LEMMA ReceiptsSmall ==
    ASSUME NEW j
    PROVE  Receipts(j) \in SUBSET Keys /\ IsFiniteSet(Receipts(j)) /\ Cardinality(Receipts(j)) \in Nat
<1>1. Receipts(j) \in SUBSET Keys
  BY DEF Receipts
<1> QED
  BY <1>1, JournalAssumption, FS_Subset, FS_CardinalityType

\* An entry that is no receipt adds none, whatever is evicted for it.
LEMMA AppendedReceipts ==
    ASSUME NEW j \in Journals, NEW k \in Keys, NEW e \in Entry, ~Pinned(e),
           NEW new \in Appended(j, k, e), NEW n \in Int, Bounded(j, n)
    PROVE  Bounded(new, n)
<1>1. Receipts(new) \in SUBSET Receipts(j)
  BY AppendedFacts, EntryFacts DEF Receipts
<1>2. Cardinality(Receipts(new)) <= Cardinality(Receipts(j))
  BY <1>1, ReceiptsSmall, FS_Subset
<1> QED
  BY <1>2, ReceiptsSmall DEF Bounded

\* One entry more is one receipt more at most.
LEMMA OneReceiptMore ==
    ASSUME NEW j \in Journals, NEW k \in Keys, NEW e \in Entry, NEW n \in Int, Bounded(j, n - 1)
    PROVE  Bounded([j EXCEPT ![k] = e], n)
<1> DEFINE new == [j EXCEPT ![k] = e]
<1>1. Receipts(new) \in SUBSET (Receipts(j) \cup {k})
  BY DEF Receipts, Journals
<1>2. /\ IsFiniteSet(Receipts(j) \cup {k})
      /\ Cardinality(Receipts(j) \cup {k}) <= Cardinality(Receipts(j)) + 1
      /\ Cardinality(Receipts(j) \cup {k}) \in Nat
  <2>1. IsFiniteSet(Receipts(j)) /\ Cardinality(Receipts(j)) \in Nat
    BY ReceiptsSmall
  <2> DEFINE S == Receipts(j)
  <2> HIDE DEF S
  <2>2. IsFiniteSet(S) /\ Cardinality(S) \in Nat
    BY <2>1 DEF S
  <2>3. /\ IsFiniteSet(S \cup {k})
        /\ Cardinality(S \cup {k}) = IF k \in S THEN Cardinality(S) ELSE Cardinality(S) + 1
    BY <2>2, FS_AddElement
  <2> QED
    BY <2>2, <2>3 DEF S
<1> HIDE DEF new
<1>3. Cardinality(Receipts(new)) <= Cardinality(Receipts(j) \cup {k})
  BY <1>1, <1>2, FS_Subset
<1>4. Cardinality(Receipts(new)) <= n
  BY <1>2, <1>3, ReceiptsSmall DEF Bounded
<1> QED
  BY <1>4 DEF Bounded, new

\* Steps that stage nothing and save nothing, or what a server has staged.
LEMMA LeaveBounded ==
    ASSUME IInv, ReceiptsBounded, StagedBounded, NEW s \in Servers, Leave(s),
           disk' = disk \/ (pc[s] = "saving" /\ disk' = work[s])
    PROVE  ReceiptsBounded' /\ StagedBounded'
<1>1. ServerTypes
  BY TypeParts DEF IInv
<1>2. ReceiptsBounded'
  BY DEF ReceiptsBounded, StagedBounded
<1>3. \A u \in Servers : pc'[u] = "idle" \/ (pc'[u] = pc[u] /\ work'[u] = work[u])
  BY <1>1, LeaveFacts DEF Gone, Untouched
<1>4. StagedBounded'
  BY <1>3 DEF StagedBounded
<1> QED
  BY <1>2, <1>4

LEMMA ReserveBounded ==
    ASSUME IInv, ReceiptsBounded, StagedBounded, NEW s \in Servers, Reserve(s)
    PROVE  ReceiptsBounded' /\ StagedBounded'
<1> DEFINE key == job[s].key
<1>1. ServerTypes
  BY TypeParts DEF IInv
<1>2. CASE Leave(s)
  BY <1>2, LeaveBounded DEF Reserve
<1>3. ASSUME job[s].ack # NoKey => AckIsValid(s),
             Cardinality(Receipts(Acknowledged(s))) < MaxReceipts,
             NEW j \in Appended(Acknowledged(s), key, NewEntry(Poll, "pending")),
             work' = [work EXCEPT ![s].journal = j, ![s].batch = Sweep(j, @)],
             pc' = [pc EXCEPT ![s] = "collecting"]
      PROVE  ReceiptsBounded' /\ StagedBounded'
  <2>1. work[s] \in Store /\ key \in Keys /\ job[s].ack \in Keys \cup {NoKey} /\ MaxReceipts \in Nat
    BY <1>1, DeliveryAssumption DEF IInv, Serving, Reserve, ServerTypes, NoJob
  <2>2. Acknowledged(s) \in Journals
    BY <1>3, <2>1, AcknowledgedJournal
  <2>3. Bounded(Acknowledged(s), MaxReceipts - 1)
    BY <1>3, <2>1, ReceiptsSmall DEF Bounded
  <2>4. Poller \in Entry /\ ~Pinned(Poller)
    BY EntryFacts DEF Poller, NewEntry, Pinned
  <2>5. Bounded(j, MaxReceipts - 1)
    BY <1>3, <2>1, <2>2, <2>3, <2>4, AppendedReceipts DEF Poller
  <2>6. work'[s].journal = j /\ pc'[s] = "collecting"
        /\ \A u \in Servers \ {s} : work'[u] = work[u] /\ pc'[u] = pc[u]
    BY <1>1, <1>3, <2>1 DEF ServerTypes, Store
  <2>7. StagedBounded'
    BY <2>5, <2>6 DEF StagedBounded
  <2> QED
    BY <2>7 DEF ReceiptsBounded, Reserve
<1> QED
  BY <1>2, <1>3 DEF Reserve, Refused, NoAnswer

LEMMA CollectBounded ==
    ASSUME IInv, ReceiptsBounded, StagedBounded, NEW s \in Servers, Collect(s)
    PROVE  ReceiptsBounded' /\ StagedBounded'
<1> DEFINE key == job[s].key
           j   == [work[s].journal EXCEPT ![key].state = "completed"]
<1>1. ServerTypes
  BY TypeParts DEF IInv
<1>2. /\ key \in Keys /\ work[s].journal \in Journals /\ work[s].journal[key] = Poller
      /\ Bounded(work[s].journal, MaxReceipts - 1) /\ MaxReceipts \in Int
  BY <1>1, StoreParts, DeliveryAssumption
     DEF IInv, Serving, Collect, ServerTypes, Poller, StagedBounded
<1>3. j = [work[s].journal EXCEPT ![key] = Polled]
  BY <1>2, EntryFacts
<1> HIDE DEF j
<1>4. Bounded(j, MaxReceipts)
  BY <1>2, <1>3, EntryFacts, OneReceiptMore
<1>5. work'[s].journal = j /\ pc'[s] = "saving"
      /\ \A u \in Servers \ {s} : work'[u] = work[u] /\ pc'[u] = pc[u]
  BY <1>1 DEF Collect, ServerTypes, j
<1>6. StagedBounded'
  BY <1>4, <1>5 DEF StagedBounded
<1> QED
  BY <1>6 DEF ReceiptsBounded, Collect

LEMMA NextBounded == IInv /\ ReceiptsBounded /\ StagedBounded /\ [Next]_vars => (ReceiptsBounded /\ StagedBounded)'
<1> SUFFICES ASSUME IInv, ReceiptsBounded, StagedBounded, [Next]_vars
             PROVE  ReceiptsBounded' /\ StagedBounded'
    OBVIOUS
<1>1. ServerTypes /\ FileTypes
  BY TypeParts DEF IInv
<1>2. ASSUME UNCHANGED <<disk, pc, work>> PROVE ReceiptsBounded' /\ StagedBounded'
  BY <1>2 DEF ReceiptsBounded, StagedBounded
<1>3. ASSUME NEW c \in Clients, NEW s \in Servers, Send(c, s) PROVE ReceiptsBounded' /\ StagedBounded'
  <2>1. \A u \in Servers : pc'[u] = "polling" \/ (pc'[u] = pc[u] /\ work'[u] = work[u])
    BY <1>1, <1>3 DEF Send, ServerTypes
  <2> QED
    BY <1>3, <2>1 DEF ReceiptsBounded, StagedBounded, Send
<1>4. ASSUME NEW s \in Servers, Serve(s) PROVE ReceiptsBounded' /\ StagedBounded'
  <2>1. CASE Replay(s)
    BY <2>1, LeaveBounded DEF Replay, Answered, Refused, NoAnswer
  <2>2. CASE Reserve(s)
    BY <2>2, ReserveBounded
  <2>3. CASE Collect(s)
    BY <2>3, CollectBounded
  <2>4. CASE CollectFails(s)
    BY <2>4, LeaveBounded DEF CollectFails, NoAnswer
  <2>5. CASE SaveBatch(s)
    BY <2>5, LeaveBounded DEF SaveBatch, Commit, Answered, Refused, NoAnswer
  <2> QED
    BY <1>4, <2>1, <2>2, <2>3, <2>4, <2>5 DEF Serve
<1>5. ASSUME NEW s \in Servers, Crash(s) PROVE ReceiptsBounded' /\ StagedBounded'
  BY <1>5, LeaveBounded DEF Crash, NoAnswer
<1>6. ASSUME NEW k \in Keys, OtherMutation(k) PROVE ReceiptsBounded' /\ StagedBounded'
  <2>1. PICK j \in Appended(disk.journal, k, NewEntry(Other, "completed")) :
            disk' = [disk EXCEPT !.journal = j, !.batch = Sweep(j, @)]
    BY <1>6 DEF OtherMutation
  <2>2. disk.journal \in Journals /\ disk'.journal = j
    BY <1>1, <2>1, StoreParts DEF FileTypes, Store
  <2>3. NewEntry(Other, "completed") \in Entry /\ ~Pinned(NewEntry(Other, "completed")) /\ MaxReceipts \in Int
    BY EntryFacts, DeliveryAssumption DEF NewEntry, Pinned
  <2>4. Bounded(j, MaxReceipts)
    BY <2>2, <2>3, AppendedReceipts DEF ReceiptsBounded
  <2> QED
    BY <1>6, <2>2, <2>4 DEF ReceiptsBounded, StagedBounded, OtherMutation
<1>7. CASE \/ \E e \in Events : Publish(e)
           \/ \E c \in Clients : CloseTab(c)
           \/ \E s \in Servers : ClientTimeout(s)
           \/ UNCHANGED vars
  BY <1>2, <1>7 DEF Publish, CloseTab, ClientTimeout, vars
<1> QED
  BY <1>3, <1>4, <1>5, <1>6, <1>7 DEF Next

\* The file never pins more than MAX_UNACKNOWLEDGED_WALLET_POLL_RECEIPTS batches: the
\* capacity is looked at before the feeds are read, and no other poll is saved in between.
THEOREM ReceiptsStayBounded == Spec => []ReceiptsBounded
<1>1. Init => ReceiptsBounded /\ StagedBounded
  <2> SUFFICES ASSUME Init PROVE ReceiptsBounded /\ StagedBounded
    OBVIOUS
  <2>1. Receipts(disk.journal) = {}
    BY InitialFacts, EntryFacts DEF Init, Receipts
  <2>2. ReceiptsBounded
    BY <2>1, FS_EmptySet, DeliveryAssumption DEF ReceiptsBounded, Bounded
  <2> QED
    BY <2>2 DEF Init, StagedBounded
<1> QED
  BY <1>1, Invariance, NextBounded, PTL DEF Spec
=============================================================================
