# Market Sentinel: verification project

TLA+ specifications of the parts of Market Sentinel in which several actors,
crashes or lost messages meet durable state: the configuration file, the
idempotent mutation journal in front of live venues, the delivery of wallet
activity to a browser, the desktop's copy-trading outbox, price alerts and their
notifications, the admission and drain of HTTP requests, the supervisor of the
unattended jobs, and what carries requests to the venues: market streams, pacing,
deadlines and cancellation.

## The system

| component | code | state it keeps | operations |
|---|---|---|---|
| configuration store | `core/storage.py`, `core/atomic_files.py` | the JSON file, the revision each `AppConfig` derives from, a process lock and a file lock | `load_config`, `save_config` |
| mutation journal | `web_api.py` 6200-6670, `core/models.py` 470-850 | `AppConfig.mutation_journal` (256 entries) inside the configuration file | idempotent mutations, retries, reconciliation |
| wallet activity delivery | `web_api.py` 4018-4155 and 6800-6905, `core/wallet_activity.py`, `frontend/src/api.ts` | per-wallet cursors, poll receipts, the browser's pending key and receipt to acknowledge | poll, acknowledge, retry |
| HTTP admission | `web_api.py` 5380-5560, 6240-6320, 7500-7560 | worker slots, mutation slots, admitted counter, draining flag, mutation lock | accept, admit, finish, drain |
| copy trading (desktop) | `app.py` 300-960, 4828-5460 | `AppConfig.copy_activity_outbox`, wallet cursors | poll, checkpoint, dispatch, outcome |
| alerts | `web_api.py` 2051-2240 and 6713-6795, `app.py` 673-755 and 5147-5206, `core/models.py` 703-728 | alerts and the notification history (1,000 entries), fields of the configuration file | refresh, evaluate, add, edit, delete, acknowledge |
| unattended worker | `core/unattended_worker.py`, `deploy/systemd` | lock file, one state file with an entry per task, the attempt process | start, lock, attempt, retry, stop, publish |
| market streams | `polymarket/ws_market.py`, `ws_user.py`, `ws_sports.py`, `ws_transport.py` | generation, stop event, registered and marked connection, subscriptions | start, stop, subscribe, reconnect |
| venue pacing | `market_adapters/runtime.py` 53-175 | a registry of schedules by venue, their weak owners and reservations | construct, strengthen, request slot, prune |
| request control | `core/request_control.py`, `market_adapters/runtime.py` 178-300, `polymarket/http_client.py` 188-400 | deadline, reason, watched sockets, lookup slots, watcher thread | check, resolve, watch, abort, retry, close |
| caches | `polymarket/memory_cache.py`, `analytics_cache.py` | bounded entries | get, put, evict |
| leaderboard scan | `polymarket/leaderboard_scan.py`, `leaderboard_state.py` | resumable cursor and results | resume, advance, save |
| live verification | `polymarket/live_verification.py`, `live_reports.py` | reports on disk | run, replay, audit |
| paper accounting | `core/paper_accounting.py` | positions computed from fills | pure functions |

How they interact. Everything durable except reports and caches is one JSON
document: the journal, the cursors, the receipts and the copy outbox are fields
of `AppConfig`, so every commit of theirs is one `save_config`, and their crash
behaviour is the store's. The web server runs a thread per HTTP request; a
mutation passes admission (worker slot, mutation slot, drain counter), takes
`mutation_lock`, loads the file, decides by the journal, and saves once (a
local mutation, a poll) or twice (a live mutation: barrier, then disposition)
before it answers. The browser keeps the idempotency key of a poll it has no
answer to, and the receipt of the last answer to acknowledge it with the next
poll. Nothing prevents a second server, the desktop program or the command
line from using the same file: only the file lock and the revision check do.
Alerts are the meeting point: the server's refresh routes, the command line and
the worker's attempts evaluate them on a file they loaded, the desktop on its
memory, and each saves through the store. Prices reach the desktop by the market
stream and, while that is not connected, by a poller. Outbound requests take a
venue's slot, then run under a request control, which a stream's connection
attempt uses as well.

What is hard here: the interleavings of processes over one file; a crash
between a durable barrier, a venue call and its disposition; lost answers and
retries under the same key; eviction from bounded journals; the order of fsync
and rename; the race of a drain with admissions; loss of a wake-up; a deadline
that passes while a connection changes hands; a stop that meets a connection
being opened; a registry pruned while somebody joins; a full notification
history. Each such point is listed with its line and the properties that cover it under `hazards`
in `PROJECT.json`.

What makes each component correct:

* store: no committed update is lost, an outcome says whether the file was
  replaced, an acknowledged save survives power loss, no torn file, no deadlock;
* journal: a key runs once, venues are called only behind a fresh durable
  barrier, answers agree with the file, unresolved entries are kept, outcomes are final;
* delivery: nothing lost, nothing in two batches, only received batches are
  acknowledged, receipts are bounded, everything eventually arrives;
* copy outbox: nothing is skipped, nothing handled without a durable entry,
  memory never drifts from the file, unresolved entries stay, all is settled at last;
* admission: nothing leaks, a finished drain is quiet, admitted mutations alone never
  hold the whole pool, no wake-up is lost, requests and drains end;
* alerts: a trigger and its notification are one commit, one arming notifies
  once, unread notifications stay, a standing condition notifies at last;
* worker: runs end within their deadline, stops are prompt, a healthy entry speaks for
  the last attempt started, the failure count is that of the published runs;
* pacing: one schedule per venue, every adapter's interval is honoured, whatever
  is pruned;
* request control: an abort cuts its own request and only that, nobody blocks
  unwatched, a cut is reported as one, every request ends;
* streams: `is_connected` is true, a stop reaches the thread and ends it,
  subscriptions converge.

## Modules and the code

| module | role |
|---|---|
| `ConfigRegister` | abstract: a compare-and-set register whose power loss may restore an unstabilised value |
| `ConfigStore` | `load_config` / `save_config`, one action per step a crash or another thread can fall between |
| `ConfigStore_proofs` | its inductive invariant, theorems and the refinement proof |
| `OnceLedger` | abstract: a key is due, started, run |
| `JournalOps` | journal entries, eviction, reconciliation as operators |
| `MutationJournal` | servers handling idempotent mutations over one file, venue included |
| `MutationJournal_proofs` | its inductive invariant, theorems and the refinement of the ledger |
| `WalletDelivery` | browser tabs, servers and the file: poll, answer, acknowledge, retry |
| `WalletDelivery_proofs` | its inductive invariant and theorems |
| `MutationAdmission` | request threads, worker pool, drain |
| `CopyOutbox` | the desktop's wallet poller and UI thread over the copy outbox |
| `CopyOutboxHistory` | the same with a history variable: whether polling was ever switched off |
| `CopyOutbox_proofs` | the inductive invariant and theorems of both |
| `Alerts` | refreshers, the desktop and users over alerts and their history |
| `Alerts_proofs` | its inductive invariant and theorems |
| `UnattendedWorker` | runs, attempts, the lock, the state file, stops and kills, with time |
| `UnattendedWorker_proofs` | its inductive invariant and theorems |
| `VenuePacing` | adapters, the registry and the schedules, with time |
| `RequestControl` | requests, watchers, lookups and pooled connections |
| `MarketStream` | callers, threads and connections of a stream client |
| `Transport_proofs` | the inductive invariants and theorems of `VenuePacing`, `RequestControl` and `MarketStream` |
| `MutationAdmission_proofs` | the inductive invariant and theorems of `MutationAdmission` |
| `MC*` | instances for TLC: symmetry, owners, event tables |

`ConfigStore`. `threadLock` and `fileLock` are the per-path `RLock` and the
`flock`; `pc` walks `save_config` from the snapshot (`TakeSnapshot`, 115-128)
over the file lock (`LockFile`), the comparison of the file with the expected
revision (`CheckRevision`), the temporary file (`WriteTemp`, `SyncTemp`), the
rename (`Replace`) and the directory fsync (`SyncDirectory`). Loads are two
steps, the stat and the open, since another process can replace the file
between them. `survivors` is the set of versions a power loss may leave.
A revision is the digest of the file, so it is modelled by the content itself.
`wrote`, `synced`, `acked`, `inode` and `answer` are ghosts.

`MutationJournal`. A server works on one mutation at a time (`mutation_lock`);
several servers share the file. `base` is what it loaded and `work` what it will
save; `Commit` is the store's compare-and-set, which is how `ConfigStore` is
composed in: the register it implements is what `Commit` uses. `token` is the
barrier a server has armed, `sent` the barriers that reached the venue,
`disk.effects` the local effects. `authorized` and `forgotten` count retry
authorisations and evictions of final entries; they are the only ways a key
may run again.

`WalletDelivery`. Events have a wallet, a second and a filter flag; the feed of
a wallet is published in time order. `Batch` is the loop of
`poll_wallet_activity`: at most `BatchItems` items, oldest first, a wallet blocked
as soon as one of its items is left out. Journal entries are those of `JournalOps`,
with the poll receipts pinned until acknowledged. The network loses answers
(`ClientTimeout`), and `NoAnswer`, `Refused`, `Answered` are the branches of
`requestIdempotentMutation`.

`MutationAdmission`. A request goes through `process_request`, the handler,
`try_admit_mutation` (whose two looks at the flag are separate steps),
the body, the lock and `finish_mutation_admission`; the main thread goes through the
signal, `serve_forever` returning, `begin_drain` and the condition wait.

`CopyOutbox`. One watched wallet. `poller.at` is the place of `WalletPoller._run`
(replays first, then the feed), `queue` the `wallet_activity` part of `ui_queue`,
a task being `live` while its poller still waits for it. `TakeNew`, `Checkpoint`,
`Handle` and `Record` are what `_process_queue` does between its two saves, which
fail before or after the file is replaced; a failure sets `paused`, and nothing
is saved until a restart. `Outcomes` stands for `_copy_trade_from_activity`:
the outcomes it can return or have mapped from an exception. The live branch
refuses everything at this revision, so the `before_live_dispatch` hook has no
caller and no action. `Evict` lets any conclusive entries go where the code
takes the oldest by a whole-second clock, on which entries tie.

`Alerts`. A refresher is one run of `refresh_all_alert_prices` between its load
and its save (server route, command line, or an attempt of the unattended
worker); `Evaluated` is `evaluate_alerts_for_contract` with `append_alert_events`:
it fails as a whole when unread notifications fill the history. The desktop
evaluates a copy of its memory, saves it and adopts it, and a failed save pauses it
until a restart; `Hear` is the stream or the poller putting a price on the queue
of the UI thread. `Edit` covers the routes and the desktop's buttons;
`Rewatched` is the part of `alert_from_payload` that forgets the old price. The
history is kept as numbers of unread and read notifications per alert: which of the
acknowledged ones go first is left open. `Commit` is the store's compare-and-set
again. An alert deleted and added again under one name stands for two alerts.

`UnattendedWorker`. One unit per task (`deploy/systemd`), one lock, one state file.
`BeginEntry`, `AttemptEntry` and `TerminalEntry` are the three shapes of an entry.
An entry is written by reading the whole file and writing it again; both are inside the
lock, so `Write` replaces one entry in one step. The ghost `earned` says of the last attempt
started that it reported success with its save done. `Tick` passes only when nobody but sleepers is left, so a second of the model is a
second in which nothing was done late by the supervisor itself. `Crash` kills the
supervisor; `Reap` is what the service manager does to the attempt it leaves.

`VenuePacing`. An adapter stands for its object and its one thread: `Lookup` is
`_venue_rate_limiter` under the registry's lock, with the pruning of what nobody
owns, and `Construct` the `strengthen_interval` after it, which reads the interval
before it takes the schedule's lock. `Collect` is the garbage collector, which
empties the weak set. `gap` is a ghost.

`RequestControl`. `pc` follows a request through `resolve_with_deadline`, the
pool, `watch_socket` (check, attach, start the watcher are three steps), the
exchange, release and the retries of `http_client`. `due` is what the clock and the
callback say, the first of them; `Abort` acts on it for whoever calls `check()` first,
the caller or the watcher. (`check()` asks the callback before the clock: one that cancels after
the deadline and before anybody looked is reported as cancelled, here as over its
deadline; both are the abort.) Peers answer, break or stay silent for ever, resolvers too; a
lookup whose caller gave up keeps its slot as an orphan.

`MarketStream`. `Generations` are the starts; each has a thread, a stop event and at
most one connection. `Register`, `Mark` and `Clear` are the three locked sections.
`stop()` is two steps, the locked one and the close of what it found. `sent` is what
the client believes it has subscribed to and `peer` what the connection carried.

## Runs

| run | instance | shows |
|---|---|---|
| `config_store` | 3 threads in 2 processes, 2 objects, one shared by two threads, 2 values, 1 commit | truthful outcomes, durability, refinement of the register under crashes and power loss, every call returns |
| `journal_servers` | 2 servers, 1 key, a journal of 1 entry, 2 live requests and 1 local one, 3 barriers | freshness, answers that agree with the file (no power loss here, see `config_store`), once-only, refinement of the ledger |
| `journal_operator` | 1 server, 2 keys, a journal of 1 entry, a truthful operator | the journal agrees with the venue, unresolved entries are kept |
| `wallet_delivery` | 2 servers, 1 tab that may close, 3 keys, 4 events over 2 wallets, two in one second, one filtered, batches of 2, 1 receipt | exactly-once delivery |
| `wallet_liveness` | 1 server, a tab that stays, 2 keys | everything arrives |
| `mutation_admission` | 3 mutations, any of which may be refused like a read, and a read, 3 workers, 2 mutation slots | quiet drain, permits accounted for and never all with admitted mutations, requests and drains end |
| `copy_outbox` | 3 activities, two in one second, one staged by an older release, an outbox of 1, polling switched off and on | nothing skipped, memory follows the file, nothing handled twice while polling is left on, all is settled |
| `alerts` | 2 alerts on a contract, one repeating and kept, one that may be added, a history of 1, 1 refresher and the desktop, 1 edit | notifications are atomic, once per arming, kept and eventually given |
| `unattended_worker` | 2 tasks, 3 runs, 3 attempts each, a deadline of 6 with a shutdown budget of 2 | deadlines, prompt stops, health of the last attempt, counts of published runs |
| `venue_pacing` | 2 adapters over 2 venues, room for 1 schedule, intervals 0, 1 and 3, clock to 6 | one schedule, intervals honoured, requests apart |
| `request_control` | 2 requests with a retry each, 1 connection, 1 lookup slot | cuts, watches, reports, every request ends |
| `market_stream` | 1 caller, 2 starts, 2 tokens, 1 change | truth of `is_connected`, stops, convergence |

Bounds. Two processes suffice to have a writer and an overtaken writer, and the
third thread shares an object with another of its process, which is the case the
process lock exists for. A commit makes every other loaded object stale. A
journal of one entry makes every append an eviction decision. Three barriers on
a key allow a first run, an authorised retry and a third attempt. A batch of two with four
events leaves some out, in the middle of a second shared by three events. Three workers
and two slots are the smallest pool in which admitted mutations contend for the lock and
others for their slots; a fourth connection finds all workers taken. An outbox, and a notification history, of one entry is full at once; a
desktop, a refresher and users are three writers of one file. One edit re-points, adds,
removes, or toggles an alert while an evaluation is under way. A deadline of 6 falls
inside an attempt, a back-off and a stop. In a registry with room for one schedule
every look-up of the other venue prunes or is refused; the clock reaches past two of
the longest intervals. With one connection every second request gets the first
one's; with one lookup slot a hung resolver blocks the other request. Two starts
have a thread that outlives its stop beside a later start.

`MaxCommits`, `MaxBarriers`, `MaxEffects`, `MaxQueue`, `MaxEdits`, `MaxInflight`, `MaxRuns`,
`MaxTime`, `MaxStarts` and `MaxChanges` are the artificial bounds; they guard
publications, barriers, local effects, the length of `ui_queue`, edits, prices on
their way to the UI thread, runs, the clock, starts and changes of a subscription.
`CHECK_DEADLOCK FALSE` is in the runs whose system may stop: a drained server,
requests that have ended, a stopped stream, and the runs whose bound on time or on
runs is used up.

Fairness. `ConfigStore`: weak fairness of each thread's steps, strong fairness
of acquiring the process lock (an `RLock` released again and again is handed on;
the `flock` is polled with a deadline, so a waiter leaves either way); nothing is
assumed to succeed. `WalletDelivery`: a tab that
polls keeps polling, a server that has a request serves it, and an answer that is
possible again and again arrives at last; crashes and foreign saves do not
continue forever. Without these the browser may simply never be answered.
`MutationAdmission`: weak fairness of each request thread and of the main
thread's steps. The wait for the mutation lock ends by the lock or by its timeout,
either of which is a step of the thread; the drain deadline is not assumed to
pass. `CopyOutbox`: weak fairness of the two threads, strong fairness of the
steps that can fail each time (a feed read, a save, a conclusive outcome); the
operator restarts a program that paused and reconciles what is ambiguous, and users
and other processes leave it alone in the end. `Alerts`: refreshes are scheduled and
finish, a feed answers again and again, users read their notifications; in the end
prices settle and attempts are not killed any more. Without the second a price
may cross and return unseen, which the code does not promise to notice.
`RequestControl`: threads are scheduled and clocks advance; no peer and no resolver
is assumed to answer. `MarketStream`: threads are scheduled, since each of their waits
has a timeout; no connection is assumed to succeed or to last.

## Proofs

`ConfigStore_proofs` proves, for any finite or infinite sets of threads, processes,
objects and values, the theorem `Invariance`: its inductive invariant joins the
types, who holds which lock at which step, what a loaded object derives from, and
what may survive a power loss (a version at least as new as the last acknowledged
one, and the current one until the directory is synced). From it follow
`TypeCorrectness`, `OutcomesAreTruthful`, `AcknowledgedSavesSurvive`,
`FileIsNeverTorn`, the action property `NoUpdateIsLost` and the refinement
`StoreImplementsRegister`. The strengthening is needed because none of these is
inductive: that a commit replaces what the snapshot derives from rests on the
checker still holding the file lock when it renames.

`MutationJournal_proofs` proves `Invariance` for any servers, keys, requests and
journal size. The invariant says, beside the types, that what a server will save
differs from what it loaded only as its step allows (`Staged`), that runs are paid
for (`Balance`), that an armed token is the newest barrier when the file has not
moved on (`Counted`), and that terminal entries a server saw are still there or
were evicted (`Remembered`). From it: `MutationsRunOnce`,
`VenueCallsAreFresh`, `AnswersAreDurableAlways`, `UnresolvedNeverDropped`,
`OutcomesAreFinal`, and `JournalImplementsLedger`, the refinement of `OnceLedger` step
by step. `JournalAgreesWithVenue` has the hypotheses of its run, one server
and a truthful operator: with two servers, the operator of one may reconcile a
mutation while the other is calling the venue, which is what the run's
instance leaves out as well. The assumptions are those named in the modules:
distinct model constants, finitely many servers (a ledger step counts who is calling),
a positive journal size, request sets that partition.

`WalletDelivery_proofs` proves `Invariance` for any servers, browsers, keys, wallets,
events, filter, batch size and journal capacity, and from it `EventsAreKept` and
`EventsAreEmittedOnce`. The argument has two halves. What the cursors newly pass and
is not filtered is exactly the batch (`Emits`): `CollectFacts` shows it of any feed and
any place where the batch is cut, because batches are the oldest candidates and a
filtered event waits for what precedes it in its wallet. And a receipt goes only when its
batch was received (`Kept`, `Settled`): a key names one batch while somebody refers to it
(`OneBatch`), so what a browser acknowledges is what it received, and a request whose key
was committed by another server can no longer be committed itself (`OneCommit`, `Outrun`).
`OnlyReceivedIsAcknowledged` states the consequence for acknowledgements, and
`ReceiptsStayBounded` that the file never pins more receipts than the limit, which rests
on the save being a compare-and-set of what the capacity was counted in.
The assumption it needs of the feeds is the one the module states: events are numbered in
the order candidates are sorted, and `Publish` shows none behind what its feed has shown.

`CopyOutbox_proofs` proves `Invariance` for any activities, timestamps, outbox limit
and queue bound, polling switched on and off included. Its parts: the file, and memory
while writes are not paused, is `Sound` (the cursor has passed recorded activities
only and reached every entry, the outbox is within its limit); memory differs from
the file as the UI thread's step allows (`Linked`); and every task on the queue,
every replay and every new item on the poller's list comes after recorded activities
(`InOrder`), since at most one task is awaited (`OneLive`) and a refusal ends the
round. From it: `NothingIsSkipped`, `HandledBehindCheckpoint`, `MemoryStaysDurable`,
`UnresolvedNeverEvicted`. `SettledOnceWhileKeptOn` is about `CopyOutboxHistory`, whose
variable `toggled` remembers that polling was switched off once: until then no activity is
handled twice. The strengthening is needed because a cursor is
moved long after the feed was read, past activities the step does not look at.
That a greatest timestamp exists is proved from the well-foundedness of the naturals.

`Transport_proofs` has three parts. Venue pacing, for any adapters, venues, set of
intervals and registry size. A schedule a live adapter refers to is the registry's (`OneSchedule`), its interval is
at least that of every adapter in use (`Strict`), and the slot it has reserved keeps
that interval (`Reserved`). `PacedApart` needs `Waited` beside them: a distance still
owed to an adapter is in the registry's schedule or has passed by the clock.

Request control, for any finite set of requests and any connections, lookup
slots and retries. `Wires` says whose connection each one is, `Guarded` that a
request watches its own or closed ones only, `Watched` that from its arming on a
connection is watched or cut, and that no exchange starts before its watcher, `Cuts`
that a cut exchange has its reason on record, `Lookups` that resolver
threads, orphans included, never exceed the permits.

Market streams, for any callers, tokens and number of starts. A start waits for
the last thread to die, so the registered and the marked connection are the only
thread's (`Registered`, `Marked`, `Held`); a stop looks under the lock that registers,
so it either finds the connection or the thread will see the event. From it:
`OneThreadLives`, `ConnectionsAreClosed`, `StopsReachTheThread`,
`ConnectedMeansSubscribed`.

`Alerts_proofs`, for any finite set of alerts, any prices, processes and history size.
What a refresher will save differs from what it loaded, alert by alert, as one
evaluation allows (`Moved`); files are `Sound` (an alert that
remembers a price past its threshold is triggered), and untriggered alerts are
those the ghost counts as `Armed`. The revision check makes what was loaded
the file that is replaced, so the actions of the file inherit `Moved`: a trigger and
its notification come together, once per arming, and unread ones stay.

`UnattendedWorker_proofs`, for any tasks, deadlines, timeouts, back-off, shutdown budget and
number of attempts. Task by task: what is left of a run covers the wait it is in, and an
attempt leaves the shutdown budget besides (`Timed`); a run writes over the entry it
published itself (`Known`); a success is that of an attempt which had saved (`Honest`). From
it: `RunsEndInTime`, `StopsArePrompt`, `HealthIsEarned`, `FailuresAddUp`. `HealthIsEarned`
rests on the order of the code, which publishes a run's start before its first attempt and ends
the run when it cannot: an attempt is started only behind an entry that is not healthy. A run
that ends before that entry is written (the lock was busy, the first write failed, a kill)
leaves the health and the counters of the file as they were, and neither theorem
claims otherwise.

`MutationAdmission_proofs`, for any finite set of requests and any pool with fewer mutation
slots than workers, or one of each. `NothingLeaks` counts permits and the admitted counter by
the places of the threads; with `Drained`, that nobody is admitted after the drain was
answered, it is inductive. `PoolIsShared` adds that an empty pool is not held by admitted
mutations alone. It does not say that a read finds a worker: a mutation takes one in
`process_request`, before it is admitted, and keeps it until it is answered, so mutations on
their way in or out may hold what the admitted ones leave.

Model-checked only: liveness (`CallsReturn`, `EventuallyReceived`, `RequestsEnd`,
`DrainEnds`, `EventuallySettled`, `StopEnds`, `SubscriptionsConverge`,
`EventuallyNoticed`), which the prover does not reach. Every safety and action property
of the runs is a theorem. But for the two
hypotheses of `JournalAgreesWithVenue`, the theorems rest only on the named `ASSUME`s of
their modules, which TLC evaluates in the runs as well.

## Plan

1. Done: store, journal, delivery, admission, copy outbox, alerts, worker, pacing,
   request control, streams.
2. An abstract ledger for the copy outbox; `CopyOutbox` with several wallets; alerts
   over several contracts with the desktop's separate price sources.
3. `LeaderboardScan`, bounded caches, paper accounting against a reference
   definition, the on-call receipt bridge.
4. Proofs: what the runs check of safety is proved; left is the abstract ledger of the
   copy outbox with its refinement.

## Not modelled

Adapters and REST clients translate JSON and keep no protocol state; drawdown
analytics are floating-point; views and widgets are layout; build, release and
evidence scripts are not part of the running program. Leaderboard scans, caches,
paper accounting, live verification and the receipt bridge run one caller at a time
over data of their own; they are in the plan. The Windows branch of the
store (no directory fsync) is left out, and so are feeds that publish an activity
below a cursor already advanced, which the code does not claim to recover. The
alerts run leaves out a case in which `EventuallyNoticed` does not hold: when more
alerts cross in one refresh than the notification history has entries, each refresh
is discarded as a whole (`web_api.py` 2230), and reading notifications does not help;
it is listed among the hazards.
