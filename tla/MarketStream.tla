----------------------------- MODULE MarketStream -----------------------------
(***************************************************************************)
(* The stream clients of polymarket/ws_market.py and ws_user.py (and of    *)
(* ws_sports.py, which has no subscriptions): a thread per start that      *)
(* connects, registers its connection, subscribes, keeps the subscription  *)
(* in step with what callers ask for, and reconnects; and callers that     *)
(* start and stop it and change the subscription while it runs.            *)
(***************************************************************************)
EXTENDS Integers

CONSTANTS Callers, Tokens,
          MaxStarts,  \* bound on starts, for model checking
          MaxChanges, \* bound on changes of the subscription, for model checking
          NoGeneration, Idle

ASSUME StreamAssumption ==
    MaxStarts \in Nat /\ MaxChanges \in Nat /\ NoGeneration \notin Nat /\ Idle \notin Nat \cup {NoGeneration}

Generations == 0..MaxStarts

VARIABLES
    tokens,     \* _token_ids
    changes,    \* how often tokens was changed
    generation, \* _generation; 0 is before the first start
    stopped,    \* the generations whose stop event is set
    ws,         \* _ws and _ws_generation: whose connection is registered
    marked,     \* _connected and _connected_generation: whose connection is marked
    step,       \* per generation: where its thread is
    conn,       \* per generation: its thread's connection
    sent,       \* per generation: sent_tokens
    want,       \* per generation: the snapshot it brings its subscription to
    peer,       \* ghost, per generation: the subscription its connection carried
    stopping    \* per caller: Idle, or the connection its stop() is about to close

subscription == <<tokens, changes>>
lifecycle    == <<generation, stopped, ws, marked>>
thread       == <<conn, sent, want, peer>>
streamVars   == <<subscription, lifecycle, step, thread, stopping>>

Subscribed == {"syncing", "unsubscribing", "subscribing", "receiving"}
Busy       == {"registered", "sending", "marking"} \cup Subscribed
Alive      == {"looping", "connecting", "opened", "closing", "dropping"} \cup Busy

StreamInit ==
    /\ tokens \in SUBSET Tokens /\ changes = 0
    /\ generation = 0 /\ stopped = {} /\ ws = NoGeneration /\ marked = NoGeneration
    /\ step = [g \in Generations |-> "none"] /\ conn = [g \in Generations |-> "none"]
    /\ sent = [g \in Generations |-> {}] /\ want = [g \in Generations |-> {}]
    /\ peer = [g \in Generations |-> {}]
    /\ stopping = [c \in Callers |-> Idle]

IsRunning   == step[generation] \in Alive /\ generation \notin stopped
IsConnected == marked = generation /\ generation \notin stopped

StepTo(g, to) == step' = [step EXCEPT ![g] = to]

-----------------------------------------------------------------------------
(* The callers.                                                            *)

\* set_tokens, subscribe and unsubscribe.
Change(new) ==
    /\ changes < MaxChanges /\ changes' = changes + 1 /\ tokens' = new
    /\ UNCHANGED <<lifecycle, step, thread, stopping>>

\* Mutant: start() asks whether the client runs, and not whether its thread lives.
StartRestarting(c) ==
    /\ stopping[c] = Idle /\ generation < MaxStarts
    /\ ~IsRunning
    /\ generation' = generation + 1 /\ marked' = NoGeneration
    /\ step' = [step EXCEPT ![generation + 1] = "looping"]
    /\ stopped' = stopped \ {generation}
    /\ UNCHANGED <<subscription, ws, thread, stopping>>

\* start(): nothing while the last thread lives, stopped or not. The thread may not start.
StartThread(c) ==
    /\ stopping[c] = Idle /\ generation < MaxStarts
    /\ step[generation] \notin Alive
    /\ generation' = generation + 1 /\ marked' = NoGeneration
    /\ \E started \in {"looping", "ended"} : step' = [step EXCEPT ![generation + 1] = started]
    /\ UNCHANGED <<subscription, stopped, ws, thread, stopping>>

\* stop() under the lock.
Stop(c) ==
    /\ stopping[c] = Idle
    /\ stopped' = stopped \cup {generation} /\ marked' = NoGeneration
    /\ stopping' = [stopping EXCEPT ![c] = ws]
    /\ UNCHANGED <<subscription, generation, ws, step, thread>>

\* The rest of stop(): the connection it found is closed, and the join returns or times out.
StopClose(c) ==
    /\ stopping[c] # Idle
    /\ stopping' = [stopping EXCEPT ![c] = Idle]
    /\ conn' = IF stopping[c] = NoGeneration THEN conn ELSE [conn EXCEPT ![stopping[c]] = "closed"]
    /\ UNCHANGED <<subscription, lifecycle, step, sent, want, peer>>

-----------------------------------------------------------------------------
(* A thread.                                                               *)

\* The head of _run's loop, after a back-off that the stop event ends.
Loop(g) ==
    /\ step[g] = "looping"
    /\ StepTo(g, IF g \in stopped THEN "ended" ELSE "connecting")
    /\ UNCHANGED <<subscription, lifecycle, thread, stopping>>

\* open_websocket_connection within the cancellation scope of the stop event.
Open(g) ==
    /\ step[g] = "connecting"
    /\ \/ StepTo(g, "looping") /\ UNCHANGED <<conn, peer>>
       \/ /\ g \notin stopped /\ StepTo(g, "opened")
          /\ conn' = [conn EXCEPT ![g] = "open"] /\ peer' = [peer EXCEPT ![g] = {}]
    /\ UNCHANGED <<subscription, lifecycle, sent, want, stopping>>

\* Mutant: the stop event is not looked at again under the lock.
RegisterLate(g) ==
    /\ step[g] = "opened"
    /\ IF g = generation THEN ws' = g /\ StepTo(g, "registered") ELSE UNCHANGED ws /\ StepTo(g, "closing")
    /\ UNCHANGED <<subscription, generation, stopped, marked, thread, stopping>>

\* _register_connection
Register(g) ==
    /\ step[g] = "opened"
    /\ IF g = generation /\ g \notin stopped THEN ws' = g /\ StepTo(g, "registered")
       ELSE UNCHANGED ws /\ StepTo(g, "closing")
    /\ UNCHANGED <<subscription, generation, stopped, marked, thread, stopping>>

\* _token_snapshot ahead of the first message.
Snapshot(g) ==
    /\ step[g] = "registered" /\ StepTo(g, "sending")
    /\ sent' = [sent EXCEPT ![g] = tokens]
    /\ UNCHANGED <<subscription, lifecycle, conn, want, peer, stopping>>

\* A message on the connection that makes the subscription what it says, and sent_tokens what
\* the client then takes it for; or an exception.
Send(g, subscribed, believed, to) ==
    \/ /\ conn[g] = "open" /\ StepTo(g, to)
       /\ peer' = [peer EXCEPT ![g] = subscribed] /\ sent' = [sent EXCEPT ![g] = believed]
    \/ UNCHANGED <<peer, sent>> /\ StepTo(g, "closing")

SendFirst(g) ==
    /\ step[g] = "sending" /\ Send(g, sent[g], sent[g], "marking")
    /\ UNCHANGED <<subscription, lifecycle, conn, want, stopping>>

\* _mark_connected
Mark(g) ==
    /\ step[g] = "marking"
    /\ IF g = generation /\ g \notin stopped /\ ws = g THEN marked' = g /\ StepTo(g, "syncing")
       ELSE UNCHANGED marked /\ StepTo(g, "closing")
    /\ UNCHANGED <<subscription, generation, stopped, ws, thread, stopping>>

\* The loop's condition, and the snapshot of _sync_subscriptions.
Sync(g) ==
    /\ step[g] = "syncing"
    /\ IF g \in stopped THEN UNCHANGED want /\ StepTo(g, "closing")
       ELSE want' = [want EXCEPT ![g] = tokens] /\ StepTo(g, "unsubscribing")
    /\ UNCHANGED <<subscription, lifecycle, conn, sent, peer, stopping>>

\* Mutant: what is sent is taken for what is wanted once anything was removed.
UnsubscribeAll(g) ==
    /\ step[g] = "unsubscribing"
    /\ IF sent[g] \subseteq want[g] THEN UNCHANGED <<peer, sent>> /\ StepTo(g, "subscribing")
       ELSE Send(g, peer[g] \cap want[g], want[g], "subscribing")
    /\ UNCHANGED <<subscription, lifecycle, conn, want, stopping>>

Unsubscribe(g) ==
    /\ step[g] = "unsubscribing"
    /\ IF sent[g] \subseteq want[g] THEN UNCHANGED <<peer, sent>> /\ StepTo(g, "subscribing")
       ELSE Send(g, peer[g] \cap want[g], sent[g] \cap want[g], "subscribing")
    /\ UNCHANGED <<subscription, lifecycle, conn, want, stopping>>

Subscribe(g) ==
    /\ step[g] = "subscribing"
    /\ IF want[g] \subseteq sent[g] THEN UNCHANGED <<peer, sent>> /\ StepTo(g, "receiving")
       ELSE Send(g, peer[g] \cup want[g], sent[g] \cup want[g], "receiving")
    /\ UNCHANGED <<subscription, lifecycle, conn, want, stopping>>

\* A message or a read timeout, or the end of the connection.
Receive(g) ==
    /\ step[g] = "receiving"
    /\ \/ conn[g] = "open" /\ StepTo(g, "syncing")
       \/ StepTo(g, "closing")
    /\ UNCHANGED <<subscription, lifecycle, thread, stopping>>

\* Mutant: the connection is closed first.
ClearLast(g) ==
    /\ step[g] = "closing" /\ StepTo(g, "dropping")
    /\ conn' = [conn EXCEPT ![g] = "closed"]
    /\ UNCHANGED <<subscription, lifecycle, sent, want, peer, stopping>>

\* _clear_connection
Clear(g) ==
    /\ step[g] = "closing" /\ StepTo(g, "dropping")
    /\ ws' = IF ws = g THEN NoGeneration ELSE ws
    /\ marked' = IF marked = g THEN NoGeneration ELSE marked
    /\ UNCHANGED <<subscription, generation, stopped, thread, stopping>>

DropConnection(g) ==
    /\ step[g] = "dropping" /\ StepTo(g, "looping")
    /\ conn' = [conn EXCEPT ![g] = "closed"]
    /\ UNCHANGED <<subscription, lifecycle, sent, want, peer, stopping>>

Thread(g) ==
    \/ Loop(g) \/ Open(g) \/ Register(g) \/ Snapshot(g) \/ SendFirst(g) \/ Mark(g) \/ Sync(g)
    \/ Unsubscribe(g) \/ Subscribe(g) \/ Receive(g) \/ Clear(g) \/ DropConnection(g)

StreamNext ==
    \/ \E new \in SUBSET Tokens : Change(new)
    \/ \E c \in Callers : StartThread(c) \/ Stop(c) \/ StopClose(c)
    \/ \E g \in Generations : Thread(g)

\* Threads are scheduled; every wait of a thread, and a stop's join, has a timeout.
StreamFairness ==
    /\ \A g \in Generations : WF_streamVars(Thread(g))
    /\ \A c \in Callers : WF_streamVars(StopClose(c))

StreamSpec     == StreamInit /\ [][StreamNext]_streamVars
FairStreamSpec == StreamSpec /\ StreamFairness

-----------------------------------------------------------------------------
(* Properties.                                                             *)

\* Every variable keeps its type.
StreamTypeOK ==
    /\ tokens \in SUBSET Tokens /\ changes \in Nat
    /\ generation \in Generations /\ stopped \in SUBSET Generations
    /\ ws \in Generations \cup {NoGeneration} /\ marked \in Generations \cup {NoGeneration}
    /\ step \in [Generations -> Alive \cup {"none", "ended"}]
    /\ conn \in [Generations -> {"none", "open", "closed"}]
    /\ sent \in [Generations -> SUBSET Tokens] /\ want \in [Generations -> SUBSET Tokens]
    /\ peer \in [Generations -> SUBSET Tokens]
    /\ stopping \in [Callers -> Generations \cup {NoGeneration, Idle}]

\* Only the thread of the last start lives: no older thread delivers or reconnects beside it.
OneThread ==
    \A g \in Generations : step[g] \in Alive => g = generation

\* While the client says it is connected, and the desktop's price poller therefore skips the
\* market, its thread has an open connection that carries the subscription it believes in.
ConnectedIsTrue ==
    IsConnected =>
        /\ step[generation] \in Subscribed \cup {"closing"}
        /\ conn[generation] = "open"
        /\ step[generation] \in Subscribed => peer[generation] = sent[generation]

\* A connection that is open belongs to a thread that is still going to close it.
NothingLeaks ==
    \A g \in Generations :
        conn[g] = "open" => step[g] \in Busy \cup {"opened", "closing", "dropping"}

\* A stop reaches a thread that has its connection, whenever it comes: the connection is
\* closed, or the stop that will close it is on its way. A thread blocked in a read is ended by
\* the close or by the short time-out of the read itself; what it never keeps is an open
\* connection that no stop has seen.
StopReaches ==
    \A g \in stopped :
        step[g] \in Busy => conn[g] = "closed" \/ \E c \in Callers : stopping[c] = g

\* A thread that was stopped ends, and a later start can take effect.
StopEnds == \A g \in Generations : g \in stopped ~> step[g] \notin Alive

\* However the subscription changes while the thread connects or sends it, a client that stays
\* connected comes to be subscribed to exactly what was asked for.
SubscriptionsConverge == []<>(~IsConnected \/ peer[generation] = tokens)
=============================================================================
