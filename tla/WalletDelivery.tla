--------------------------- MODULE WalletDelivery ---------------------------
(***************************************************************************)
(* Replayable delivery of wallet activity: POST /api/wallets/poll and      *)
(* poll_wallet_activity (web_api.py), the cursors of                       *)
(* core/wallet_activity.py and the browser's pollWallets and               *)
(* requestIdempotentMutation (frontend/src/api.ts).  A poll reads every    *)
(* wallet's feed from its cursor, emits the oldest events that fit a       *)
(* batch, and commits cursors and the batch receipt in one configuration   *)
(* save; the next poll acknowledges the receipt it received.  Responses    *)
(* get lost, browsers close, servers crash, saves fail or conflict.        *)
(***************************************************************************)
EXTENDS JournalOps

CONSTANTS Servers, Clients, Wallets,
          Events,       \* activity records: positions in global sort order
          WalletOf,     \* the wallet of an event
          Ts,           \* its timestamp in whole seconds
          Filtered,     \* events that only_market_slug skips
          BatchItems,   \* WALLET_POLL_BATCH_ITEMS
          MaxReceipts,  \* MAX_UNACKNOWLEDGED_WALLET_POLL_RECEIPTS
          Poll, Other,  \* the poll request and any other local mutation
          TabsClose,    \* browsers may lose their session storage
          NoKey

ASSUME DeliveryAssumption ==
    /\ Events \subseteq Nat /\ IsFiniteSet(Events)
    /\ WalletOf \in [Events -> Wallets]
    /\ Ts \in [Events -> Nat \ {0}]
    /\ Filtered \subseteq Events
    /\ BatchItems \in Nat \ {0} /\ MaxReceipts \in Nat \ {0}
    /\ Poll \in PollReqs /\ Other \in Reqs \ (PollReqs \cup LiveReqs)
    /\ TabsClose \in BOOLEAN
    /\ NoKey \notin Keys
    \* the event number is the order candidates are sorted in
    /\ \A d, e \in Events : Ts[d] < Ts[e] => d < e

VARIABLES
    visible,    \* events the upstream feeds show
    disk,       \* configuration: cursors, journal, receipt batches
    pc, job,    \* per server: position, and the client and key it serves
    base, work, \* per server: the file content read and the staged one
    pending,    \* per client: idempotency key kept for the open request
    receipt,    \* per client: receipt of the last batch it received
    received,   \* events some client received
    delivered   \* ghost: in how many committed batches an event was

client == <<pending, receipt>>
vars   == <<visible, disk, pc, job, base, work, client, received, delivered>>

Cursor  == [ts : Nat, seen : SUBSET Events]
Store   == [cursor : [Wallets -> Cursor], journal : Journals, batch : [Keys -> SUBSET Events]]
Initial == [cursor |-> [w \in Wallets |-> [ts |-> 0, seen |-> {}]],
            journal |-> EmptyJournal,
            batch |-> [k \in Keys |-> {}]]
NoJob   == [client |-> NoKey, key |-> NoKey, ack |-> NoKey]

Init ==
    /\ visible = {}
    /\ disk = Initial
    /\ pc = [s \in Servers |-> "idle"]
    /\ job = [s \in Servers |-> NoJob]
    /\ base = [s \in Servers |-> Initial] /\ work = [s \in Servers |-> Initial]
    /\ pending = [c \in Clients |-> NoKey] /\ receipt = [c \in Clients |-> NoKey]
    /\ received = {}
    /\ delivered = [e \in Events |-> 0]

-----------------------------------------------------------------------------
(* Cursors and batches.                                                    *)

\* The events of a poll that its cursors do not cover yet.
Candidates(cursor, feed) ==
    {e \in feed : LET c == cursor[WalletOf[e]] IN Ts[e] >= c.ts /\ e \notin c.seen}

\* The n oldest of the events S.
Oldest(S, n) == {e \in S : Cardinality({d \in S : d < e}) < n}

\* The batch of a poll: the oldest unfiltered candidates, up to the batch limit
\* and the first event in Cut, whose response would exceed the budget.
Batch(cands, Cut) ==
    {e \in Oldest(cands \ Filtered, BatchItems) : \A c \in Cut : e < c}

\* Mutant: a filtered event is consumed whatever its wallet still owes.
ConsumedUnblocked(cands, Cut) == Batch(cands, Cut) \cup ((cands \cap Filtered) \ Cut)

\* What the poll consumes: the batch, and the filtered events no undelivered
\* event of their wallet precedes (blocked_wallets).
Consumed(cands, Cut) ==
    LET left == ((cands \ Filtered) \ Batch(cands, Cut)) \cup Cut
    IN  Batch(cands, Cut) \cup {e \in (cands \cap Filtered) \ Cut :
                                  \A d \in left : WalletOf[d] = WalletOf[e] => e < d}

\* Mutant: only the identities of the last poll are remembered.
RememberLatest(c, S) ==
    IF S = {} THEN c
    ELSE LET top == CHOOSE t \in {Ts[e] : e \in S} : \A e \in S : Ts[e] <= t
         IN  [ts |-> top, seen |-> {e \in S : Ts[e] >= top}]

\* remember_activity over the events S: identities at the newest timestamp.
Remember(c, S) ==
    IF S = {} THEN c
    ELSE LET top == CHOOSE t \in {Ts[e] : e \in S} : \A e \in S : Ts[e] <= t
             ts  == IF c.ts > top THEN c.ts ELSE top
         IN  [ts |-> ts, seen |-> {e \in c.seen \cup S : Ts[e] >= ts}]

Advanced(cursor, S) ==
    [w \in Wallets |-> Remember(cursor[w], {e \in S : WalletOf[e] = w})]

Passed(cursor) ==
    {e \in visible : LET c == cursor[WalletOf[e]] IN Ts[e] < c.ts \/ e \in c.seen}

Completed(j, k) == j[k].state = "completed"
Receipts(j) == {k \in Keys : Pinned(j[k])}

\* Batches of evicted receipts are gone.
Sweep(j, batch) == [k \in Keys |-> IF j[k] = NoEntry THEN {} ELSE batch[k]]

-----------------------------------------------------------------------------
(* The upstream and the browser.                                           *)

\* A feed shows a new event; feeds do not insert behind what they showed.
Publish(e) ==
    /\ e \notin visible
    /\ \A d \in visible : WalletOf[d] = WalletOf[e] => Ts[d] <= Ts[e]
    /\ visible' = visible \cup {e}
    /\ UNCHANGED <<disk, pc, job, base, work, client, received, delivered>>

\* A new key is a random UUID: the name of a forgotten one may stand for it
\* once nothing refers to that any more.
Unused(k) ==
    /\ disk.journal[k] = NoEntry
    /\ \A c \in Clients : k \notin {pending[c], receipt[c]}
    /\ \A s \in Servers : k \notin {job[s].key, job[s].ack} /\ base[s].journal[k] = NoEntry

\* pollWallets: the open request keeps its key until it is answered for good;
\* the body acknowledges the last received receipt.
Send(c, s) ==
    /\ pc[s] = "idle"
    /\ \A u \in Servers : job[u].client # c
    /\ \E k \in Keys :
          /\ IF pending[c] = NoKey THEN Unused(k) ELSE k = pending[c]
          /\ pending' = [pending EXCEPT ![c] = k]
          /\ job' = [job EXCEPT ![s] = [client |-> c, key |-> k, ack |-> receipt[c]]]
    /\ pc' = [pc EXCEPT ![s] = "polling"]
    /\ base' = [base EXCEPT ![s] = disk]
    /\ work' = [work EXCEPT ![s] = disk]
    /\ UNCHANGED <<visible, disk, receipt, received, delivered>>

\* The browser gives up waiting; the server goes on with the request.
ClientTimeout(s) ==
    /\ job[s].client # NoKey
    /\ job' = [job EXCEPT ![s].client = NoKey]
    /\ UNCHANGED <<visible, disk, pc, base, work, client, received, delivered>>

Leave(s) ==
    /\ pc' = [pc EXCEPT ![s] = "idle"]
    /\ job' = [job EXCEPT ![s] = NoJob]
    /\ base' = [base EXCEPT ![s] = Initial]
    /\ work' = [work EXCEPT ![s] = Initial]

\* Mutant: every failed request forgets its key.
NoAnswerForgets(s) ==
    /\ Leave(s)
    /\ pending' = [c \in Clients |-> IF c = job[s].client THEN NoKey ELSE pending[c]]
    /\ UNCHANGED <<receipt, received>>

\* The response never reaches the browser, or is a 5xx: the key is kept.
NoAnswer(s) == Leave(s) /\ UNCHANGED <<client, received>>

\* A 4xx that arrives is final: the browser forgets the key.
Refused(s) ==
    \/ NoAnswer(s)
    \/ /\ job[s].client # NoKey
       /\ pending' = [pending EXCEPT ![job[s].client] = NoKey]
       /\ Leave(s)
       /\ UNCHANGED <<receipt, received>>

\* The browser stores the receipt before it forgets the key.
Answered(s, batch) ==
    LET c == job[s].client IN
    \/ NoAnswer(s)
    \/ /\ c # NoKey /\ pending[c] = job[s].key
       /\ received' = received \cup batch
       /\ receipt' = [receipt EXCEPT ![c] = job[s].key]
       /\ pending' = [pending EXCEPT ![c] = NoKey]
       /\ Leave(s)

CloseTab(c) ==
    /\ TabsClose
    /\ pending' = [pending EXCEPT ![c] = NoKey]
    /\ receipt' = [receipt EXCEPT ![c] = NoKey]
    /\ job' = [s \in Servers |-> IF job[s].client = c THEN [job[s] EXCEPT !.client = NoKey] ELSE job[s]]
    /\ UNCHANGED <<visible, disk, pc, base, work, received, delivered>>

-----------------------------------------------------------------------------
(* The poll route.                                                         *)

EntryOf(s) == work[s].journal[job[s].key]

\* The key's receipt is durable: the same batch is answered again.
Replay(s) ==
    /\ pc[s] = "polling" /\ EntryOf(s) # NoEntry
    /\ IF Completed(work[s].journal, job[s].key) /\ EntryOf(s).req = Poll
       THEN Answered(s, work[s].batch[job[s].key])
       ELSE Refused(s)
    /\ UNCHANGED <<visible, disk, delivered>>

AckIsValid(s) ==
    LET e == work[s].journal[job[s].ack] IN e.req = Poll /\ e.state = "completed"

\* The staged journal after the acknowledgement of the poll's body.
Acknowledged(s) ==
    IF job[s].ack = NoKey THEN work[s].journal
    ELSE [work[s].journal EXCEPT ![job[s].ack].code = "acknowledged"]

\* Capacity is reserved before any upstream work.
Reserve(s) ==
    /\ pc[s] = "polling" /\ EntryOf(s) = NoEntry
    /\ IF job[s].ack # NoKey /\ ~AckIsValid(s)
       THEN Refused(s)
       ELSE \/ /\ \/ Cardinality(Receipts(Acknowledged(s))) >= MaxReceipts
                  \/ Appended(Acknowledged(s), job[s].key, NewEntry(Poll, "pending")) = {}
               /\ NoAnswer(s)
            \/ /\ Cardinality(Receipts(Acknowledged(s))) < MaxReceipts
               /\ \E j \in Appended(Acknowledged(s), job[s].key, NewEntry(Poll, "pending")) :
                     work' = [work EXCEPT ![s].journal = j, ![s].batch = Sweep(j, @)]
               /\ pc' = [pc EXCEPT ![s] = "collecting"]
               /\ UNCHANGED <<job, base, client, received>>
    /\ UNCHANGED <<visible, disk, delivered>>

\* Every feed was read to its cursor. An oversized event ends the batch, but
\* one that no batch could hold fails the poll.
Collect(s) ==
    /\ pc[s] = "collecting"
    /\ LET cands == Candidates(work[s].cursor, visible)
       IN  \E Cut \in SUBSET cands :
              /\ Cut # {} => Batch(cands, Cut) # {}
              /\ work' = [work EXCEPT ![s] =
                      [cursor  |-> Advanced(@.cursor, Consumed(cands, Cut)),
                       journal |-> [@.journal EXCEPT ![job[s].key].state = "completed"],
                       batch   |-> [@.batch EXCEPT ![job[s].key] = Batch(cands, Cut)]]]
    /\ pc' = [pc EXCEPT ![s] = "saving"]
    /\ UNCHANGED <<visible, disk, job, base, client, received, delivered>>

\* Incomplete history, an exhausted deadline, an oversized event: 503 and
\* everything staged is discarded, the acknowledgement included.
CollectFails(s) ==
    /\ pc[s] = "collecting"
    /\ NoAnswer(s)
    /\ UNCHANGED <<visible, disk, delivered>>

Commit(s) ==
    /\ base[s] = disk
    /\ disk' = work[s]
    /\ delivered' = [e \in Events |->
          IF e \in work[s].batch[job[s].key] THEN delivered[e] + 1 ELSE delivered[e]]

\* One save publishes cursors, acknowledgement and receipt.
SaveBatch(s) ==
    /\ pc[s] = "saving"
    /\ \/ Commit(s) /\ Answered(s, work[s].batch[job[s].key])
       \/ Commit(s) /\ NoAnswer(s)                            \* ConfigCommitError
       \/ UNCHANGED <<disk, delivered>> /\ Refused(s)         \* ConfigConflictError
       \/ UNCHANGED <<disk, delivered>> /\ NoAnswer(s)        \* any other error
    /\ UNCHANGED visible

Crash(s) ==
    /\ pc[s] # "idle"
    /\ NoAnswer(s)
    /\ UNCHANGED <<visible, disk, delivered>>

\* Another process completes an unrelated local mutation.
OtherMutation(k) ==
    /\ Unused(k)
    /\ \E j \in Appended(disk.journal, k, NewEntry(Other, "completed")) :
          disk' = [disk EXCEPT !.journal = j, !.batch = Sweep(j, @)]
    /\ UNCHANGED <<visible, pc, job, base, work, client, received, delivered>>

Serve(s) == Replay(s) \/ Reserve(s) \/ Collect(s) \/ CollectFails(s) \/ SaveBatch(s)

Next ==
    \/ \E e \in Events : Publish(e)
    \/ \E c \in Clients, s \in Servers : Send(c, s)
    \/ \E c \in Clients : CloseTab(c)
    \/ \E s \in Servers : Serve(s) \/ ClientTimeout(s) \/ Crash(s)
    \/ \E k \in Keys : OtherMutation(k)

Spec == Init /\ [][Next]_vars

\* The batch is committed, or found again, and the browser gets it.
BatchArrives(s) == Serve(s) /\ receipt' # receipt

\* Handlers run, the browser polls again and again, reads succeed again and
\* again and so do save and response; crashes and foreign saves stop at last.
Fairness ==
    /\ \A s \in Servers :
          WF_vars(Serve(s)) /\ SF_vars(Collect(s)) /\ SF_vars(BatchArrives(s))
    /\ \A c \in Clients : SF_vars(\E s \in Servers : Send(c, s))
    /\ <>[][~(\E s \in Servers : Crash(s) \/ ClientTimeout(s)) /\ ~(\E k \in Keys : OtherMutation(k))]_vars

FairSpec == Spec /\ Fairness

-----------------------------------------------------------------------------
(* Properties.                                                             *)

\* Types of the delivery state.
TypeOK ==
    /\ visible \subseteq Events /\ received \subseteq Events
    /\ disk \in Store
    /\ pc \in [Servers -> {"idle", "polling", "collecting", "saving"}]
    /\ job \in [Servers -> [client : Clients \cup {NoKey}, key : Keys, ack : Keys \cup {NoKey}] \cup {NoJob}]
    /\ base \in [Servers -> Store] /\ work \in [Servers -> Store]
    /\ pending \in [Clients -> Keys \cup {NoKey}]
    /\ receipt \in [Clients -> Keys \cup {NoKey}]
    /\ delivered \in [Events -> Nat]

\* No event is lost: what a cursor has passed was filtered, was received, or
\* is in a retained receipt that a retry of its key returns.
NothingLost ==
    \A e \in Passed(disk.cursor) \ Filtered :
        \/ e \in received
        \/ \E k \in Keys : Completed(disk.journal, k) /\ e \in disk.batch[k]

\* No event is emitted in two batches, whoever polls and whatever fails.
DeliveredOnce == \A e \in Events : delivered[e] <= 1

\* What the feeds show reaches a browser that keeps polling (the retained
\* receipt of requestIdempotentMutation's retry, the cursors of later polls).
EventuallyReceived == \A e \in Events \ Filtered : e \in visible ~> e \in received
=============================================================================
