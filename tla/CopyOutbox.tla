----------------------------- MODULE CopyOutbox -----------------------------
(***************************************************************************)
(* The desktop program's copy-trading outbox (app.py): a WalletPoller      *)
(* thread reads one watched wallet's feed and hands activities, one at a   *)
(* time, to the UI thread through ui_queue; the UI thread checkpoints each *)
(* in the configuration (cursor and outbox entry in one save), handles it  *)
(* and saves the outcome.  Saves fail, the configuration is shared with    *)
(* other processes, polling is switched off and on, the program dies.      *)
(***************************************************************************)
EXTENDS Naturals, Sequences, FiniteSets

CONSTANTS Acts,        \* wallet activities
          Ts,          \* their timestamps in whole seconds
          Legacy,      \* activities staged by a release without bound policies
          Limit,       \* _COPY_OUTBOX_HISTORY_LIMIT
          Toggles,     \* the user may switch polling off and on again
          MaxQueue     \* bound on ui_queue, for model checking

ASSUME OutboxAssumption ==
    /\ IsFiniteSet(Acts) /\ Acts # {}
    /\ Ts \in [Acts -> Nat \ {0}]
    /\ Legacy \subseteq Acts /\ Cardinality(Legacy) <= Limit
    /\ Limit \in Nat \ {0} /\ Toggles \in BOOLEAN /\ MaxQueue \in Nat \ {0}

VARIABLES
    visible,  \* activities the wallet's feed shows
    disk,     \* the configuration file: cursor and outbox
    mem,      \* the AppConfig object the threads of the program share
    stale,    \* another process has replaced the file since mem was loaded
    paused,   \* _config_persistence_error
    queue,    \* wallet_activity tasks in ui_queue
    ui,       \* the UI thread: its step and its task
    prev,     \* what WalletActivityCheckpoint restores
    poller,   \* the poller thread: its step and its _stop event
    todo,     \* what is left of its list of replays or of new items
    cursor,   \* the cursor it read before the network call
    startup,  \* startup_pending_ids
    reply,    \* the completion of the task it waits for
    done      \* ghost: activities with a conclusive outcome ever on disk

file   == <<disk, stale, done>>
desk   == <<queue, ui, prev>>
thread == <<poller, todo, cursor, startup, reply>>
vars   == <<visible, file, mem, paused, desk, thread>>

Replayable == {"pending", "retryable"}
Conclusive == {"completed", "rejected"}
Unresolved == Replayable \cup {"ambiguous"}
EntryState == {"none"} \cup Unresolved \cup Conclusive
Cursors    == [ts : Nat, seen : SUBSET Acts]
Configs    == [cursor : Cursors, outbox : [Acts -> EntryState]]
Tasks      == [act : Acts, live : BOOLEAN]
NoTask     == [act |-> CHOOSE a \in Acts : TRUE, live |-> FALSE]

Listed(box, S) == {a \in Acts : box[a] \in S}
Entries(box)   == Listed(box, EntryState \ {"none"})
Latest(S)      == IF S = {} THEN 0 ELSE CHOOSE t \in {Ts[a] : a \in S} : \A a \in S : Ts[a] <= t
Identities(S)  == {a \in S : Ts[a] = Latest(S)}

\* A first start, or one that finds entries of an older release.
Initial == [cursor |-> [ts |-> Latest(Legacy), seen |-> Identities(Legacy)],
            outbox |-> [a \in Acts |-> IF a \in Legacy THEN "pending" ELSE "none"]]
Idle    == [at |-> "idle", task |-> NoTask]
Off     == [at |-> "off", stop |-> FALSE]

Init ==
    /\ visible = Legacy
    /\ disk = Initial /\ mem = Initial
    /\ stale = FALSE /\ paused = FALSE
    /\ queue = <<>> /\ ui = Idle /\ prev = Initial
    /\ poller = Off /\ todo = {} /\ cursor = Initial.cursor
    /\ startup = {} /\ reply = "none"
    /\ done = {}

-----------------------------------------------------------------------------
(* Pure operations on a configuration.                                     *)

\* remember_activity: identities below the cursor's new second are dropped.
RememberLatest(c, a) == [ts |-> IF Ts[a] > c.ts THEN Ts[a] ELSE c.ts, seen |-> {a}]   \* Mutant: forgets its second.
Remember(c, a) ==
    LET ts == IF Ts[a] > c.ts THEN Ts[a] ELSE c.ts
    IN  [ts |-> ts, seen |-> {b \in c.seen : Ts[b] >= ts} \cup {a}]

\* Outboxes left when n conclusive entries, or all there are, make room.
Evict(box, n) ==
    LET old  == Listed(box, Conclusive)
        size == IF Cardinality(old) < n THEN Cardinality(old) ELSE n
    IN  {[a \in Acts |-> IF a \in R THEN "none" ELSE box[a]] :
            R \in {S \in SUBSET old : Cardinality(S) = size}}

Overflow(box, room) ==
    IF Cardinality(Entries(box)) + room > Limit
    THEN (Cardinality(Entries(box)) + room) - Limit ELSE 0

\* What _apply_wallet_activity_checkpoint stages for a new activity: nothing
\* when the outbox is full of unresolved entries.
Staged(c, a) ==
    {[cursor |-> Remember(c.cursor, a), outbox |-> [box EXCEPT ![a] = "pending"]] :
        box \in {b \in Evict(c.outbox, Overflow(c.outbox, 1)) : Cardinality(Entries(b)) < Limit}}

\* The activity was handled before, or a legacy checkpoint says it may have been.
Settled(c, a) ==
    \/ c.outbox[a] \notin Replayable \cup {"none"}
    \/ c.outbox[a] = "none" /\ a \in c.cursor.seen

\* Items the poller emits for a cursor; those of one second have no order.
Fresh(c)  == {a \in visible : Ts[a] >= c.ts /\ a \notin c.seen}
Oldest(S) == {a \in S : \A b \in S : Ts[a] <= Ts[b]}

-----------------------------------------------------------------------------
(* The UI thread: _process_queue on a wallet_activity task.                *)

Acknowledge(task, persisted) ==
    reply' = IF task.live THEN persisted ELSE reply

\* The task is over; the UI thread takes the next one.
Finish(persisted) ==
    /\ Acknowledge(ui.task, persisted)
    /\ ui' = Idle
    /\ prev' = disk'

\* App._save_runtime_config: nothing is saved once a save has failed.
Published ==
    /\ disk' = mem
    /\ done' = done \cup Listed(mem.outbox, Conclusive)
    /\ UNCHANGED <<stale, mem>>
Saves ==
    /\ ~stale
    /\ Published
    /\ UNCHANGED paused

\* save_config refuses (conflict, I/O error): nothing was written.
NotWritten == UNCHANGED file /\ paused' = TRUE

\* save_config published the file and could not make it durable.
Uncertain == ~stale /\ Published /\ paused' = TRUE

\* A task that needs no handling: persistence is paused, the activity is
\* settled, or the outbox has no room for it.
Decline ==
    /\ ui.at = "idle" /\ queue # <<>>
    /\ LET task == Head(queue)
           a    == task.act
       IN  /\ \/ paused
              \/ Settled(mem, a)
              \/ mem.outbox[a] = "none" /\ Staged(mem, a) = {}
           /\ Acknowledge(task, IF ~paused /\ Settled(mem, a) THEN "yes" ELSE "no")
    /\ queue' = Tail(queue)
    /\ UNCHANGED <<visible, file, mem, paused, ui, prev, poller, todo, cursor, startup>>

\* A replay is handled at once: its entry is durable already.
TakeReplay ==
    /\ ui.at = "idle" /\ queue # <<>> /\ ~paused
    /\ mem.outbox[Head(queue).act] \in Replayable
    /\ ui' = [at |-> "handling", task |-> Head(queue)]
    /\ queue' = Tail(queue)
    /\ UNCHANGED <<visible, file, mem, paused, prev, thread>>

\* A new activity is staged in memory, with what to restore.
TakeNew ==
    /\ ui.at = "idle" /\ queue # <<>> /\ ~paused
    /\ LET a == Head(queue).act
       IN  /\ mem.outbox[a] = "none" /\ ~Settled(mem, a)
           /\ mem' \in Staged(mem, a)
    /\ prev' = mem
    /\ ui' = [at |-> "checkpoint", task |-> Head(queue)]
    /\ queue' = Tail(queue)
    /\ UNCHANGED <<visible, file, paused, thread>>

Checkpoint ==
    /\ ui.at = "checkpoint"
    /\ Saves
    /\ ui' = [ui EXCEPT !.at = "handling"]
    /\ UNCHANGED <<visible, queue, prev, thread>>

\* The checkpoint is refused; memory follows the file except when the file
\* holds the checkpoint already.
CheckpointFails ==
    /\ ui.at = "checkpoint"
    /\ \/ NotWritten /\ mem' = prev
       \/ Uncertain
    /\ Finish("no")
    /\ UNCHANGED <<visible, queue, poller, todo, cursor, startup>>

\* _handle_wallet_activity returns or raises.  A legacy entry has no policy: unless its
\* watch's market filter completes it, it is refused as stale or other-market, or is left
\* to the operator.
Outcomes(a) == {"completed", "rejected", "retryable"}
                  \cup (IF a \in Legacy THEN {"ambiguous"} ELSE {})
Handle ==
    /\ ui.at = "handling"
    /\ \E o \in Outcomes(ui.task.act) :
          LET box == [mem.outbox EXCEPT ![ui.task.act] = o]
          IN  \E pruned \in Evict(box, Overflow(box, 0)) :
                 mem' = [mem EXCEPT !.outbox = pruned]
    /\ ui' = [ui EXCEPT !.at = "outcome"]
    /\ UNCHANGED <<visible, file, paused, queue, prev, thread>>

Record ==
    /\ ui.at = "outcome"
    /\ Saves
    /\ Finish("yes")
    /\ UNCHANGED <<visible, queue, poller, todo, cursor, startup>>

\* The outcome is not saved, or not durably: the program pauses.
RecordForgets ==                                      \* Mutant: the program goes on.
    /\ ui.at = "outcome"
    /\ UNCHANGED file /\ UNCHANGED <<mem, paused>>
    /\ Finish("yes")
    /\ UNCHANGED <<visible, queue, poller, todo, cursor, startup>>
RecordFails ==
    /\ ui.at = "outcome"
    /\ \/ NotWritten /\ UNCHANGED mem
       \/ Uncertain
    /\ Finish("yes")
    /\ UNCHANGED <<visible, queue, poller, todo, cursor, startup>>

\* _persist_config_changes: the user edits settings, and all of mem is saved.
SaveSettings ==
    /\ ui.at = "idle" /\ ~paused
    /\ \/ Saves
       \/ NotWritten /\ UNCHANGED mem
       \/ Uncertain
    /\ UNCHANGED <<visible, desk, thread>>

UIStep == \/ Decline \/ TakeReplay \/ TakeNew \/ Checkpoint \/ CheckpointFails
          \/ Handle \/ Record \/ RecordFails

-----------------------------------------------------------------------------
(* The poller thread: WalletPoller._run and _queue_wallet_activity.        *)

StartAfresh ==                                        \* Mutant: entries a crash left pending are not looked for.
    /\ poller.at = "off"
    /\ poller' = [at |-> "round", stop |-> FALSE]
    /\ startup' = {}
    /\ reply' = "none"
    /\ UNCHANGED <<visible, file, mem, paused, desk, todo, cursor>>
\* toggle_wallet_polling: start does nothing while the thread is alive.
Start ==
    /\ poller.at = "off"
    /\ poller' = [at |-> "round", stop |-> FALSE]
    /\ startup' = Listed(mem.outbox, {"pending"})
    /\ reply' = "none"
    /\ UNCHANGED <<visible, file, mem, paused, desk, todo, cursor>>
Stop ==
    /\ Toggles
    /\ poller.at # "off" /\ ~poller.stop
    /\ poller' = [poller EXCEPT !.stop = TRUE]
    /\ UNCHANGED <<visible, file, mem, paused, desk, todo, cursor, startup, reply>>

\* A round first replays what may be replayed, oldest entries first.
BeginRound ==
    /\ poller.at = "round" /\ ~poller.stop
    /\ todo' = Listed(mem.outbox, {"retryable"}) \cup (Listed(mem.outbox, {"pending"}) \cap startup)
    /\ poller' = [poller EXCEPT !.at = "replay"]
    /\ UNCHANGED <<visible, file, mem, paused, desk, cursor, startup, reply>>
Exit ==
    /\ poller.at = "round" /\ poller.stop
    /\ poller' = Off
    /\ UNCHANGED <<visible, file, mem, paused, desk, todo, cursor, startup, reply>>

\* Put one task on ui_queue and wait: _stop is looked at only afterwards.
Send(a) ==
    /\ Len(queue) < MaxQueue
    /\ queue' = Append(queue, [act |-> a, live |-> TRUE])
    /\ todo' = todo \ {a}
    /\ UNCHANGED <<visible, file, mem, paused, ui, prev, cursor, reply>>
SendReplay ==
    /\ poller.at = "replay"
    /\ \E a \in todo : Send(a) /\ startup' = startup \ {a}
    /\ poller' = [poller EXCEPT !.at = "replaying"]
SendNewest ==                                         \* Mutant: the feed's own order, newest first.
    /\ poller.at = "new"
    /\ \E a \in todo : (\A b \in todo : Ts[b] <= Ts[a]) /\ Send(a)
    /\ poller' = [poller EXCEPT !.at = "waiting"]
    /\ UNCHANGED startup
SendNew ==
    /\ poller.at = "new"
    /\ \E a \in Oldest(todo) : Send(a)
    /\ poller' = [poller EXCEPT !.at = "waiting"]
    /\ UNCHANGED startup

\* The UI thread acknowledged the task: on with the list, or give the round up.
Answered ==
    /\ poller.at \in {"replaying", "waiting"} /\ reply # "none"
    /\ poller' = [poller EXCEPT !.at =
                    IF reply = "no" THEN "round" ELSE IF @ = "replaying" THEN "replay" ELSE "new"]
    /\ reply' = "none"
    /\ UNCHANGED <<visible, file, mem, paused, desk, todo, cursor, startup>>

\* _stop is set: the wait ends, the task stays with the UI thread.
StopWaiting ==
    /\ poller.at \in {"replaying", "waiting"} /\ poller.stop
    /\ queue' = [i \in DOMAIN queue |-> [queue[i] EXCEPT !.live = FALSE]]
    /\ ui' = [ui EXCEPT !.task.live = FALSE]
    /\ reply' = "none"
    /\ poller' = [poller EXCEPT !.at = "round"]
    /\ UNCHANGED <<visible, file, mem, paused, prev, todo, cursor, startup>>

\* The replays are through: remember the cursor and read the feed.
ReadCursor ==
    /\ poller.at = "replay" /\ todo = {}
    /\ cursor' = mem.cursor
    /\ poller' = [poller EXCEPT !.at = IF poller.stop THEN "round" ELSE "reading"]
    /\ UNCHANGED <<visible, file, mem, paused, desk, todo, startup, reply>>
List ==
    /\ poller.at = "reading"
    /\ todo' = Fresh(cursor)
    /\ poller' = [poller EXCEPT !.at = "new"]
    /\ UNCHANGED <<visible, file, mem, paused, desk, cursor, startup, reply>>
ListFails ==
    /\ poller.at = "reading"
    /\ poller' = [poller EXCEPT !.at = "round"]
    /\ UNCHANGED <<visible, file, mem, paused, desk, todo, cursor, startup, reply>>
EndRound ==
    /\ poller.at = "new" /\ todo = {}
    /\ poller' = [poller EXCEPT !.at = "round"]
    /\ UNCHANGED <<visible, file, mem, paused, desk, todo, cursor, startup, reply>>

PollerStep == \/ BeginRound \/ Exit \/ SendReplay \/ SendNew \/ Answered \/ StopWaiting
              \/ ReadCursor \/ List \/ ListFails \/ EndRound

-----------------------------------------------------------------------------
(* The rest of the world.                                                  *)

\* The wallet trades; a feed shows its activities in the order of their seconds.
Publish(a) ==
    /\ a \notin visible
    /\ \A b \in visible : Ts[b] <= Ts[a]
    /\ visible' = visible \cup {a}
    /\ UNCHANGED <<file, mem, paused, desk, thread>>

\* Another process saves the file.
Foreign ==
    /\ stale' = TRUE
    /\ UNCHANGED <<visible, disk, done, mem, paused, desk, thread>>

\* scripts/reconcile_copy_activity.py settles an ambiguous entry.
Reconcile(a, resolution) ==
    /\ disk.outbox[a] = "ambiguous"
    /\ disk' = [disk EXCEPT !.outbox[a] = resolution]
    /\ done' = done \cup Listed(disk'.outbox, Conclusive)
    /\ stale' = TRUE
    /\ UNCHANGED <<visible, mem, paused, desk, thread>>

\* The program ends, in an orderly way or not, and is started again.
Restart ==
    /\ mem' = disk /\ prev' = disk
    /\ stale' = FALSE /\ paused' = FALSE
    /\ queue' = <<>> /\ ui' = Idle
    /\ poller' = Off /\ todo' = {} /\ startup' = {} /\ reply' = "none"
    /\ UNCHANGED <<visible, disk, done, cursor>>

Next == \/ UIStep \/ SaveSettings \/ PollerStep \/ Start \/ Stop \/ Restart \/ Foreign
        \/ \E a \in Acts : Publish(a)
        \/ \E a \in Acts, r \in {"completed", "retryable", "rejected"} : Reconcile(a, r)

Spec == Init /\ [][Next]_vars

\* Both threads run and polling is switched on; reads, saves and handling
\* succeed again and again; a paused program is restarted; users and other
\* processes leave it alone in the end.
Settles   == Record /\ done' # done
Concludes == Handle /\ mem'.outbox[ui.task.act] \in Conclusive \cup {"none"}
Fairness ==
    /\ WF_vars(UIStep) /\ WF_vars(PollerStep) /\ WF_vars(Start)
    /\ SF_vars(List) /\ SF_vars(Checkpoint) /\ SF_vars(Settles) /\ SF_vars(Concludes)
    /\ WF_vars(paused /\ Restart)
    /\ <>[][~Stop /\ ~Foreign /\ ~SaveSettings /\ (Restart => paused)]_vars
FairSpec == Spec /\ Fairness

-----------------------------------------------------------------------------
(* Properties.                                                             *)

\* Types of the configuration, the two threads and their queue.
TypeOK ==
    /\ visible \subseteq Acts /\ done \subseteq Acts
    /\ disk \in Configs /\ mem \in Configs /\ prev \in Configs
    /\ stale \in BOOLEAN /\ paused \in BOOLEAN
    /\ queue \in Seq(Tasks) /\ Len(queue) <= MaxQueue
    /\ ui \in [at : {"idle", "checkpoint", "handling", "outcome"}, task : Tasks]
    /\ poller \in [at : {"off", "round", "replay", "replaying", "reading", "new", "waiting"}, stop : BOOLEAN]
    /\ todo \subseteq Acts /\ startup \subseteq Acts
    /\ cursor \in Cursors /\ reply \in {"none", "yes", "no"}

\* An activity the durable cursor has passed is in the outbox or was settled:
\* no failed, refused or interrupted checkpoint skips one
\* (_apply_wallet_activity_checkpoint saves cursor and entry together).
NothingSkipped ==
    \A a \in visible :
        Ts[a] < disk.cursor.ts \/ a \in disk.cursor.seen => disk.outbox[a] # "none" \/ a \in done

\* An activity is handled only behind a durable entry that allows it
\* (the checkpoint save precedes _handle_wallet_activity).
HandledIsDurable == ui.at = "handling" => disk.outbox[ui.task.act] \in Replayable

\* While polling stays on, what was settled on disk is never handled again,
\* although its entry may have been evicted: the cursor remembers it
\* (remember_activity keeps the identities of its second).
SettledOnce == ui.at = "handling" => ui.task.act \notin done

\* Unless writes are paused, memory is ahead of the file only by the task in
\* hand: nothing that failed to be saved is built upon.
MemoryIsDurable == ~paused /\ ~stale /\ ui.at \in {"idle", "handling"} => mem = disk

\* Unsettled entries are never evicted, and an ambiguous one changes only by
\* the operator's reconciliation.
UnresolvedIsKept ==
    [][\A a \in Acts :
         /\ disk.outbox[a] \in Unresolved => disk'.outbox[a] # "none"
         /\ disk.outbox[a] = "ambiguous" =>
               disk'.outbox[a] = "ambiguous" \/ (stale' /\ mem' = mem /\ ui' = ui)]_vars

\* Every activity of the wallet is settled at last, unless an entry waits for
\* the operator: one it resolves while the program runs goes unnoticed until the
\* next start (WalletPoller._run replays what memory holds).
EventuallySettled ==
    \A a \in Acts : a \in visible ~> a \in done \/ \E b \in Acts : mem.outbox[b] = "ambiguous"
=============================================================================
