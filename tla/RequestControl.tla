---------------------------- MODULE RequestControl ----------------------------
(***************************************************************************)
(* The overall deadline and cancellation of an outbound request            *)
(* (core/request_control.py, with the pool and connection hooks of         *)
(* market_adapters/runtime.py and the retries of polymarket/http_client).  *)
(* A request resolves a name on a worker thread behind a bounded number of *)
(* slots, takes a connection from the pool or opens one, and blocks in the *)
(* exchange.  What ends an exchange that never ends by itself is a watcher *)
(* thread: it aborts the request by shutting down the sockets the request  *)
(* is known to use.                                                        *)
(***************************************************************************)
EXTENDS Integers, FiniteSets

CONSTANTS Requests,     \* request controls, each with the thread that owns it
          Sockets,      \* connections
          MaxLookups,   \* MAX_DNS_LOOKUPS
          MaxExchanges, \* RetryPolicy.max_attempts: exchanges under one control
          None

ASSUME ControlAssumption ==
    /\ IsFiniteSet(Requests) /\ Requests \cap {"closed", "pooled"} = {}
    /\ MaxLookups \in Nat /\ MaxExchanges \in Nat /\ None \notin Requests \cup Sockets

VARIABLES
    pc,       \* per request: where its caller is
    count,    \* per request: its exchanges
    sock,     \* per request: the connection its caller uses
    due,      \* per request: what check() finds: none, cancelled or deadline
    reason,   \* per request: _reason
    closed,   \* per request: _closed
    guards,   \* per request: _sockets
    watcher,  \* per request: its watcher thread
    lookup,   \* per request: the lookup its caller waits for
    free,     \* _dns_slots
    orphans,  \* lookups nobody waits for any more
    socket,   \* per connection: closed, pooled, or the request that uses it
    shut,     \* per connection: it was shut down
    outcome,  \* ghost, per request: what its caller was told
    cut       \* ghost, per request: its exchange failed on a connection that was shut down

caller  == <<pc, count, sock, outcome, cut>>
control == <<due, reason, closed, guards, watcher>>
names   == <<lookup, free, orphans>>
wires   == <<socket, shut>>
vars    == <<caller, control, names, wires>>

PCs == {"idle", "slot", "spawning", "lookup", "connecting", "attaching", "arming", "starting",
        "exchanging", "releasing", "putting", "checking", "sleeping", "failing", "closing", "joining", "done"}
Reasons == {"none", "cancelled", "deadline"}

Init ==
    /\ pc = [r \in Requests |-> "idle"] /\ count = [r \in Requests |-> 0]
    /\ sock = [r \in Requests |-> None]
    /\ due = [r \in Requests |-> "none"] /\ reason = [r \in Requests |-> "none"]
    /\ closed = [r \in Requests |-> FALSE] /\ guards = [r \in Requests |-> {}]
    /\ watcher = [r \in Requests |-> "none"]
    /\ lookup = [r \in Requests |-> "none"] /\ free = MaxLookups /\ orphans = 0
    /\ socket = [s \in Sockets |-> "closed"] /\ shut = [s \in Sockets |-> FALSE]
    /\ outcome = [r \in Requests |-> "none"] /\ cut = [r \in Requests |-> FALSE]

\* _finished is set by an abort and by close, and by nothing else.
Finished(r) == closed[r] \/ reason[r] # "none"

\* What check() raises for.
Over(r) == reason[r] # "none" \/ (due[r] # "none" /\ ~closed[r])

Goto(r, to) == pc' = [pc EXCEPT ![r] = to]

\* _abort: the first reason stays, and cuts every connection that is being watched.
Abort(r) ==
    IF Finished(r) THEN UNCHANGED <<reason, guards, shut>>
    ELSE /\ reason' = [reason EXCEPT ![r] = due[r]]
         /\ shut' = [s \in Sockets |-> shut[s] \/ s \in guards[r]]
         /\ guards' = [guards EXCEPT ![r] = {}]

\* A caller's check(): its request is over, or it goes on.
Raise(r)    == Over(r) /\ Abort(r) /\ Goto(r, "failing")
Proceed(r, to) == ~Over(r) /\ Goto(r, to) /\ UNCHANGED <<reason, guards, shut>>

-----------------------------------------------------------------------------
(* The name.                                                               *)

\* RequestControl and activate.
Start(r) ==
    /\ pc[r] = "idle"
    /\ Raise(r) \/ Proceed(r, "slot")
    /\ UNCHANGED <<count, sock, outcome, cut, due, closed, watcher, names, socket>>

TakeSlot(r) ==
    /\ pc[r] = "slot" /\ free > 0
    /\ free' = free - 1 /\ Goto(r, "spawning")
    /\ UNCHANGED <<count, sock, outcome, cut, control, lookup, orphans, wires>>

\* The worker thread starts, or the slot is given back.
Spawn(r) ==
    /\ pc[r] = "spawning"
    /\ \/ Raise(r) /\ free' = free + 1 /\ UNCHANGED lookup
       \/ Proceed(r, "lookup") /\ lookup' = [lookup EXCEPT ![r] = "running"] /\ UNCHANGED free
       \/ Proceed(r, "failing") /\ free' = free + 1 /\ UNCHANGED lookup
    /\ UNCHANGED <<count, sock, outcome, cut, due, closed, watcher, orphans, socket>>

\* The resolver returns or raises on the worker, whoever still waits for it.
Resolve(r) ==
    /\ lookup[r] = "running"
    /\ lookup' = [lookup EXCEPT ![r] = "done"] /\ free' = free + 1
    /\ UNCHANGED <<caller, control, orphans, wires>>

ResolveOrphan ==
    /\ orphans > 0 /\ orphans' = orphans - 1 /\ free' = free + 1
    /\ UNCHANGED <<caller, control, lookup, wires>>

\* The lookup's caller is woken with an address or an error.
Resolved(r) ==
    /\ pc[r] = "lookup" /\ lookup[r] = "done"
    /\ lookup' = [lookup EXCEPT ![r] = "none"]
    /\ Raise(r) \/ Proceed(r, "connecting") \/ Proceed(r, "failing")
    /\ UNCHANGED <<count, sock, outcome, cut, due, closed, watcher, free, orphans, socket>>

\* A caller that waits for a slot or for the lookup polls check(); the worker keeps its slot.
Abandon(r) ==
    /\ pc[r] \in {"slot", "lookup"} /\ Raise(r)
    /\ lookup' = [lookup EXCEPT ![r] = "none"]
    /\ orphans' = IF lookup[r] = "running" THEN orphans + 1 ELSE orphans
    /\ UNCHANGED <<count, sock, outcome, cut, due, closed, watcher, free, socket>>

-----------------------------------------------------------------------------
(* The connection.                                                         *)

\* _get_conn: urllib3 hands out a pooled connection unless it finds it dropped, or opens one
\* within the time that remains.
Connect(r) ==
    /\ pc[r] = "connecting"
    /\ \/ /\ Raise(r) /\ UNCHANGED <<count, sock, socket>>
       \/ /\ Proceed(r, "failing") /\ UNCHANGED <<count, sock, socket>>
       \/ \E s \in Sockets :
            /\ \/ socket[s] = "pooled" /\ ~shut[s] /\ UNCHANGED shut
               \/ /\ socket[s] = "closed" /\ \A q \in Requests : s \notin guards[q]
                  /\ shut' = [shut EXCEPT ![s] = FALSE]
            /\ ~Over(r) /\ Goto(r, "attaching") /\ UNCHANGED <<reason, guards>>
            /\ socket' = [socket EXCEPT ![s] = r]
            /\ sock' = [sock EXCEPT ![r] = s]
            /\ count' = [count EXCEPT ![r] = @ + 1]
    /\ UNCHANGED <<outcome, cut, due, closed, watcher, names>>

\* urllib3 drops a pooled connection the peer, or an abort, has ended.
Drop(s) ==
    /\ socket[s] = "pooled"
    /\ socket' = [socket EXCEPT ![s] = "closed"]
    /\ UNCHANGED <<caller, control, names, shut>>

\* watch_socket's check, and its duplicate of the handle.
Attach(r) ==
    /\ pc[r] = "attaching"
    /\ Raise(r) \/ Proceed(r, "arming") \/ Proceed(r, "failing")
    /\ UNCHANGED <<count, sock, outcome, cut, due, closed, watcher, names, socket>>

\* Mutant: the guard is attached whatever happened since the check.
ArmBlindly(r) ==
    /\ pc[r] = "arming"
    /\ guards' = [guards EXCEPT ![r] = @ \cup {sock[r]}] /\ Goto(r, "starting")
    /\ UNCHANGED <<count, sock, outcome, cut, due, reason, closed, watcher, names, wires>>

\* watch_socket's locked part.
Arm(r) ==
    /\ pc[r] = "arming"
    /\ \/ Finished(r) /\ Goto(r, "failing") /\ UNCHANGED guards
       \/ /\ ~Finished(r) /\ guards' = [guards EXCEPT ![r] = @ \cup {sock[r]}]
          /\ Goto(r, "starting")
    /\ UNCHANGED <<count, sock, outcome, cut, due, reason, closed, watcher, names, wires>>

\* _start_watcher; a thread that does not start disarms the connection again.
StartWatcher(r) ==
    /\ pc[r] = "starting"
    /\ \/ /\ watcher[r] # "none" \/ Finished(r)
          /\ Goto(r, "exchanging") /\ UNCHANGED <<watcher, guards>>
       \/ /\ watcher[r] = "none" /\ ~Finished(r)
          /\ watcher' = [watcher EXCEPT ![r] = "waiting"]
          /\ Goto(r, "exchanging") /\ UNCHANGED guards
       \/ /\ watcher[r] = "none" /\ ~Finished(r)
          /\ guards' = [guards EXCEPT ![r] = @ \ {sock[r]}]
          /\ Goto(r, "failing") /\ UNCHANGED watcher
    /\ UNCHANGED <<count, sock, outcome, cut, due, reason, closed, names, wires>>

\* The response was read to its end: what a cut connection had delivered may be all of it.
Answer(r) ==
    /\ pc[r] = "exchanging" /\ Goto(r, "releasing")
    /\ UNCHANGED <<count, sock, outcome, cut, control, names, wires>>

\* The peer, or a phase timeout, ends the exchange with an error.
Break(r) ==
    /\ pc[r] = "exchanging" /\ ~shut[sock[r]] /\ Goto(r, "failing")
    /\ UNCHANGED <<count, sock, outcome, cut, control, names, wires>>

\* Who is blocked on a connection that is shut down is woken.
Wake(r) ==
    /\ pc[r] = "exchanging" /\ shut[sock[r]] /\ Goto(r, "failing")
    /\ cut' = [cut EXCEPT ![r] = TRUE]
    /\ UNCHANGED <<count, sock, outcome, control, names, wires>>

\* Mutant: the connection is offered to others before it is disarmed.
ReleaseLate(r) ==
    /\ pc[r] = "releasing" /\ Goto(r, "putting")
    /\ socket' = [socket EXCEPT ![sock[r]] = "pooled"]
    /\ UNCHANGED <<count, sock, outcome, cut, control, names, shut>>

\* release_request_control disarms a connection that is kept; one that is not kept is closed
\* and stays armed.
Release(r) ==
    /\ pc[r] = "releasing"
    /\ \/ /\ Goto(r, "putting") /\ guards' = [guards EXCEPT ![r] = @ \ {sock[r]}]
          /\ UNCHANGED <<sock, socket>>
       \/ /\ Goto(r, "checking") /\ socket' = [socket EXCEPT ![sock[r]] = "closed"]
          /\ sock' = [sock EXCEPT ![r] = None] /\ UNCHANGED guards
    /\ UNCHANGED <<count, outcome, cut, due, reason, closed, watcher, names, shut>>

\* _put_conn.
Put(r) ==
    /\ pc[r] = "putting" /\ Goto(r, "checking")
    /\ socket' = [socket EXCEPT ![sock[r]] = "pooled"] /\ sock' = [sock EXCEPT ![r] = None]
    /\ UNCHANGED <<count, outcome, cut, control, names, shut>>

-----------------------------------------------------------------------------
(* The end.                                                                *)

\* The check after an exchange: the request is over, or its status is one that is retried.
Check(r) ==
    /\ pc[r] = "checking"
    /\ \/ Raise(r) /\ UNCHANGED outcome
       \/ Proceed(r, "closing") /\ outcome' = [outcome EXCEPT ![r] = "ok"]
       \/ count[r] < MaxExchanges /\ Proceed(r, "sleeping") /\ UNCHANGED outcome
    /\ UNCHANGED <<count, sock, cut, due, closed, watcher, names, socket>>

\* sleep: the watcher's event ends it early.
Sleep(r) ==
    /\ pc[r] = "sleeping"
    /\ \/ Raise(r) /\ UNCHANGED watcher
       \/ /\ Proceed(r, "slot")
          /\ watcher' = [watcher EXCEPT ![r] = IF @ = "none" /\ ~Finished(r) THEN "waiting" ELSE @]
       \/ watcher[r] = "none" /\ Proceed(r, "failing") /\ UNCHANGED watcher
    /\ UNCHANGED <<count, sock, outcome, cut, due, closed, names, socket>>

\* Mutant: the transport's error is passed on as it is.
FailPlainly(r) ==
    /\ pc[r] = "failing" /\ Goto(r, "closing")
    /\ outcome' = [outcome EXCEPT ![r] = "error"]
    /\ socket' = IF sock[r] = None THEN socket ELSE [socket EXCEPT ![sock[r]] = "closed"]
    /\ sock' = [sock EXCEPT ![r] = None]
    /\ UNCHANGED <<count, cut, control, names, shut>>

\* The exception path: the connection is closed, and check() decides what is raised. Which
\* of the other errors are retried is left open.
Fail(r) ==
    /\ pc[r] = "failing"
    /\ socket' = IF sock[r] = None THEN socket ELSE [socket EXCEPT ![sock[r]] = "closed"]
    /\ sock' = [sock EXCEPT ![r] = None]
    /\ \/ /\ Over(r) /\ Abort(r) /\ Goto(r, "closing")
          /\ outcome' = [outcome EXCEPT ![r] = reason'[r]]
       \/ Proceed(r, "closing") /\ outcome' = [outcome EXCEPT ![r] = "error"]
       \/ /\ count[r] \in 1..(MaxExchanges - 1)
          /\ Proceed(r, "sleeping") /\ UNCHANGED outcome
    /\ UNCHANGED <<count, cut, due, closed, watcher, names>>

\* close(), up to the release of the lock.
Close(r) ==
    /\ pc[r] = "closing" /\ Goto(r, "joining")
    /\ closed' = [closed EXCEPT ![r] = TRUE] /\ guards' = [guards EXCEPT ![r] = {}]
    /\ UNCHANGED <<count, sock, outcome, cut, due, reason, watcher, names, wires>>

Join(r) ==
    /\ pc[r] = "joining" /\ watcher[r] \in {"none", "ended"} /\ Goto(r, "done")
    /\ UNCHANGED <<count, sock, outcome, cut, control, names, wires>>

\* _watch: the event is set, or the clock or the callback says the request is over.
Look(r) ==
    /\ watcher[r] = "waiting"
    /\ \/ Finished(r) /\ watcher' = [watcher EXCEPT ![r] = "ended"]
       \/ due[r] # "none" /\ watcher' = [watcher EXCEPT ![r] = "aborting"]
    /\ UNCHANGED <<caller, due, reason, closed, guards, names, wires>>

\* The watcher's _abort; it may come after the caller's close.
WatcherAbort(r) ==
    /\ watcher[r] = "aborting" /\ Abort(r)
    /\ watcher' = [watcher EXCEPT ![r] = "ended"]
    /\ UNCHANGED <<caller, due, closed, names, socket>>

\* The clock passes the deadline; a callback says cancelled. The first of the two stays, as in
\* _abort. A callback that says so after the deadline, but before anybody looked, would be
\* asked first by check(): the request ends as cancelled there, as over its deadline here.
Expire(r) ==
    /\ pc[r] \notin {"idle", "done"} /\ due[r] = "none"
    /\ due' = [due EXCEPT ![r] = "deadline"]
    /\ UNCHANGED <<caller, reason, closed, guards, watcher, names, wires>>

Cancel(r) ==
    /\ pc[r] # "done" /\ due[r] = "none"
    /\ due' = [due EXCEPT ![r] = "cancelled"]
    /\ UNCHANGED <<caller, reason, closed, guards, watcher, names, wires>>

\* What a caller and its watcher do by themselves, whatever peers and resolvers do.
Own(r) ==
    \/ Start(r) \/ TakeSlot(r) \/ Spawn(r) \/ Resolved(r) \/ Abandon(r)
    \/ Connect(r) \/ Attach(r) \/ Arm(r) \/ StartWatcher(r) \/ Wake(r) \/ Release(r) \/ Put(r)
    \/ Check(r) \/ Sleep(r) \/ Fail(r) \/ Close(r) \/ Join(r)

Watch(r) == Look(r) \/ WatcherAbort(r)

Next ==
    \/ \E r \in Requests : Own(r) \/ Watch(r) \/ Resolve(r) \/ Answer(r) \/ Break(r) \/ Expire(r) \/ Cancel(r)
    \/ ResolveOrphan
    \/ \E s \in Sockets : Drop(s)

\* Threads are scheduled and time passes; peers and resolvers may stay silent for ever.
Fairness == \A r \in Requests : WF_vars(Own(r)) /\ WF_vars(Watch(r)) /\ WF_vars(Expire(r))

Spec     == Init /\ [][Next]_vars
FairSpec == Spec /\ Fairness

-----------------------------------------------------------------------------
(* Properties.                                                             *)

\* Every variable keeps its type.
TypeOK ==
    /\ pc \in [Requests -> PCs] /\ count \in [Requests -> Nat]
    /\ sock \in [Requests -> Sockets \cup {None}]
    /\ due \in [Requests -> Reasons] /\ reason \in [Requests -> Reasons]
    /\ closed \in [Requests -> BOOLEAN] /\ guards \in [Requests -> SUBSET Sockets]
    /\ watcher \in [Requests -> {"none", "waiting", "aborting", "ended"}]
    /\ lookup \in [Requests -> {"none", "running", "done"}]
    /\ free \in Nat /\ orphans \in Nat
    /\ socket \in [Sockets -> Requests \cup {"closed", "pooled"}] /\ shut \in [Sockets -> BOOLEAN]
    /\ outcome \in [Requests -> Reasons \cup {"ok", "error"}] /\ cut \in [Requests -> BOOLEAN]

\* The deadline of one request never cuts the connection of another, also when it passes
\* while the connection goes back to the pool.
OnlyOwnCut ==
    \A s \in Sockets, r \in Requests : socket[s] = r /\ shut[s] => reason[r] # "none"

\* A caller that is blocked in an exchange is blocked on a connection that somebody will cut
\* when the time comes, or that is cut already.
NobodyUnwatched ==
    \A r \in Requests :
        pc[r] = "exchanging" =>
            \/ sock[r] \in guards[r] /\ watcher[r] \in {"waiting", "aborting"}
            \/ shut[sock[r]]

\* An exchange that failed because of the abort is reported as the abort: never as the
\* transport error that callers may retry.
CutsAreReported ==
    \A r \in Requests : cut[r] => outcome[r] \in {"none", "cancelled", "deadline"}

\* Resolver threads, those nobody waits for any more included, never exceed the slots, and
\* every slot comes back when its thread ends.
LookupsBounded ==
    orphans + Cardinality({r \in Requests : lookup[r] = "running" \/ pc[r] = "spawning"}) + free
        = MaxLookups

\* Every request ends, whatever peers and resolvers do, and joins its watcher.
RequestsEnd == \A r \in Requests : pc[r] # "idle" ~> pc[r] = "done"
=============================================================================
