-------------------------- MODULE MutationAdmission --------------------------
(***************************************************************************)
(* Admission of HTTP requests in one web server process and its drain at   *)
(* shutdown (web_api.py: ReactGuiServer, _handle_admitted_mutation and     *)
(* run_server).  The accept loop hands a connection to a thread only with  *)
(* a worker slot; a mutation also needs a mutation slot and a place in the *)
(* drain counter, then the mutation lock.  A signal starts the drain at    *)
(* any moment, also between the two looks an admission takes at the flag.  *)
(***************************************************************************)
EXTENDS Integers, FiniteSets

CONSTANTS Requests,     \* connections a client may open
          Mutations,    \* those that carry a mutation
          MaxWorkers,   \* max_http_workers
          MaxMutations, \* max_mutation_workers
          None

ASSUME AdmissionAssumption ==
    /\ IsFiniteSet(Requests) /\ Mutations \subseteq Requests
    /\ MaxWorkers \in Nat \ {0} /\ MaxMutations \in Nat \ {0}
    /\ MaxMutations <= MaxWorkers
    /\ MaxWorkers > 1 => MaxMutations < MaxWorkers
    /\ None \notin Requests

VARIABLES
    pc,             \* per request: where its thread is
    workers,        \* free permits of _worker_slots
    slots,          \* free permits of _mutation_slots
    draining,       \* _draining
    admitted,       \* _admitted_mutations
    lock,           \* holder of mutation_lock
    main,           \* the main thread: run_server
    notified,       \* _drain_condition woke the main thread
    reply           \* per request: what the client was told

counters == <<workers, slots, admitted>>
vars == <<pc, counters, draining, lock, main, notified, reply>>

PCs     == {"new", "accepted", "reading", "admitting", "holding", "body", "waiting", "handling",
            "leaving", "releasing", "closing", "done"}
Mains   == {"serving", "stopped", "draining", "sleeping", "drained", "expired"}
Replies == {"none", "overloaded", "answered", "saturated", "draining", "invalid", "busy"}

Init ==
    /\ pc = [r \in Requests |-> "new"]
    /\ workers = MaxWorkers /\ slots = MaxMutations
    /\ draining = FALSE /\ admitted = 0
    /\ lock = None
    /\ main = "serving" /\ notified = FALSE
    /\ reply = [r \in Requests |-> "none"]

Goto(r, where) == pc' = [pc EXCEPT ![r] = where]
Tell(r, what)  == reply' = [reply EXCEPT ![r] = what]

-----------------------------------------------------------------------------
(* Connections.                                                            *)

\* process_request runs in the accept loop: no slot, no thread. A mutation that
\* fails the authorisation of do_POST is answered like a read.
Accept(r) ==
    /\ main = "serving" /\ pc[r] = "new"
    /\ \/ /\ workers = 0
          /\ Goto(r, "done") /\ Tell(r, "overloaded")
          /\ UNCHANGED workers
       \/ /\ workers > 0
          /\ workers' = workers - 1
          /\ \/ r \in Mutations /\ Goto(r, "accepted")
             \/ Goto(r, "reading")
          /\ UNCHANGED reply
    /\ UNCHANGED <<slots, draining, admitted, lock, main, notified>>

\* The thread could not be started: the slot is given back.
SpawnFails(r) ==
    /\ main = "serving" /\ pc[r] = "new" /\ workers > 0
    /\ Goto(r, "done")
    /\ UNCHANGED <<counters, draining, lock, main, notified, reply>>

Read(r) ==
    /\ pc[r] = "reading"
    /\ Goto(r, "closing") /\ Tell(r, "answered")
    /\ UNCHANGED <<counters, draining, lock, main, notified>>

\* process_request_thread's finally.
Close(r) ==
    /\ pc[r] = "closing"
    /\ workers' = workers + 1
    /\ Goto(r, "done")
    /\ UNCHANGED <<slots, admitted, draining, lock, main, notified, reply>>

-----------------------------------------------------------------------------
(* try_admit_mutation and finish_mutation_admission.                       *)

\* The answer names the drain if the flag is set by the time it is written.
Refuse(r) == Goto(r, "closing") /\ Tell(r, IF draining THEN "draining" ELSE "saturated")

LookAtFlag(r) ==
    /\ pc[r] = "accepted"
    /\ IF draining THEN Refuse(r) ELSE Goto(r, "admitting") /\ UNCHANGED reply
    /\ UNCHANGED <<counters, draining, lock, main, notified>>

\* Mutant: whether a mutation slot was free is not looked at.
TakeSlotAnyway(r) ==
    /\ pc[r] = "admitting"
    /\ Goto(r, "holding") /\ slots' = slots - 1
    /\ UNCHANGED <<workers, draining, admitted, lock, main, notified, reply>>

TakeSlot(r) ==
    /\ pc[r] = "admitting"
    /\ IF slots = 0
       THEN Refuse(r) /\ UNCHANGED slots
       ELSE Goto(r, "holding") /\ slots' = slots - 1 /\ UNCHANGED reply
    /\ UNCHANGED <<workers, draining, admitted, lock, main, notified>>

\* Mutant: the flag is not looked at again once the slot is held.
EnterUnchecked(r) ==
    /\ pc[r] = "holding"
    /\ Goto(r, "body") /\ admitted' = admitted + 1
    /\ UNCHANGED <<workers, slots, draining, lock, main, notified, reply>>

\* Under _drain_condition: begin_drain comes before or after, not between.
Enter(r) ==
    /\ pc[r] = "holding"
    /\ IF draining
       THEN Refuse(r) /\ slots' = slots + 1 /\ UNCHANGED admitted
       ELSE Goto(r, "body") /\ admitted' = admitted + 1 /\ UNCHANGED <<slots, reply>>
    /\ UNCHANGED <<workers, draining, lock, main, notified>>

\* Mutant: the last mutation out does not notify.
LeaveSilently(r) ==
    /\ pc[r] = "leaving"
    /\ admitted' = admitted - 1
    /\ Goto(r, "releasing")
    /\ UNCHANGED <<workers, slots, draining, lock, main, notified, reply>>

\* Mutant: the main thread waits without giving up _drain_condition.
LeaveBlocked(r) ==
    /\ pc[r] = "leaving" /\ main # "sleeping"
    /\ admitted' = admitted - 1
    /\ Goto(r, "releasing")
    /\ UNCHANGED <<workers, slots, draining, lock, main, notified, reply>>

\* The counter goes down under _drain_condition, then the slot is released.
Leave(r) ==
    /\ pc[r] = "leaving"
    /\ admitted' = IF admitted > 0 THEN admitted - 1 ELSE 0
    /\ notified' = (notified \/ (admitted' = 0 /\ main = "sleeping"))
    /\ Goto(r, "releasing")
    /\ UNCHANGED <<workers, slots, draining, lock, main, reply>>

ReleaseSlot(r) ==
    /\ pc[r] = "releasing"
    /\ slots' = slots + 1
    /\ Goto(r, "closing")
    /\ UNCHANGED <<workers, admitted, draining, lock, main, notified, reply>>

-----------------------------------------------------------------------------
(* The body of _handle_admitted_mutation.                                  *)

\* Bad JSON, a receive deadline, a wrong Idempotency-Key, or go on.
ReadBody(r) ==
    /\ pc[r] = "body"
    /\ \/ Goto(r, "leaving") /\ Tell(r, "invalid")
       \/ Goto(r, "waiting") /\ UNCHANGED reply
    /\ UNCHANGED <<counters, draining, lock, main, notified>>

TakeLock(r) ==
    /\ pc[r] = "waiting" /\ lock = None
    /\ lock' = r
    /\ Goto(r, "handling")
    /\ UNCHANGED <<counters, draining, main, notified, reply>>

LockTimeout(r) ==
    /\ pc[r] = "waiting" /\ lock # None
    /\ Goto(r, "leaving") /\ Tell(r, "busy")
    /\ UNCHANGED <<counters, draining, lock, main, notified>>

\* _handle_mutation answered or raised.
Handled(r) ==
    /\ pc[r] = "handling"
    /\ lock' = None
    /\ Goto(r, "leaving") /\ Tell(r, "answered")
    /\ UNCHANGED <<counters, draining, main, notified>>

-----------------------------------------------------------------------------
(* run_server.                                                             *)

\* A signal: begin_drain, and a thread that stops the accept loop.
Signal ==
    /\ main = "serving" /\ ~draining
    /\ draining' = TRUE
    /\ UNCHANGED <<pc, counters, lock, main, notified, reply>>

\* serve_forever returns: shutdown took effect, or it was interrupted.
ServeReturns ==
    /\ main = "serving"
    /\ main' = "stopped"
    /\ UNCHANGED <<pc, counters, draining, lock, notified, reply>>

BeginDrain ==
    /\ main = "stopped"
    /\ draining' = TRUE
    /\ main' = "draining"
    /\ UNCHANGED <<pc, counters, lock, notified, reply>>

\* wait_for_mutation_drain looks at the counter under _drain_condition.
LookAtCounter ==
    /\ main = "draining"
    /\ main' = IF admitted = 0 THEN "drained" ELSE "sleeping"
    /\ UNCHANGED <<pc, counters, draining, lock, notified, reply>>

Wake ==
    /\ main = "sleeping" /\ notified
    /\ main' = "draining" /\ notified' = FALSE
    /\ UNCHANGED <<pc, counters, draining, lock, reply>>

\* The deadline passes; the counter is looked at once more.
DrainDeadline ==
    /\ main = "sleeping" /\ ~notified
    /\ main' = IF admitted = 0 THEN "drained" ELSE "expired"
    /\ UNCHANGED <<pc, counters, draining, lock, notified, reply>>

RequestStep(r) ==
    \/ Read(r) \/ Close(r) \/ LookAtFlag(r) \/ TakeSlot(r) \/ Enter(r) \/ Leave(r) \/ ReleaseSlot(r)
    \/ ReadBody(r) \/ TakeLock(r) \/ LockTimeout(r) \/ Handled(r)

MainStep == ServeReturns \/ BeginDrain \/ LookAtCounter \/ Wake \/ DrainDeadline

Next ==
    \/ \E r \in Requests : Accept(r) \/ SpawnFails(r) \/ RequestStep(r)
    \/ Signal \/ MainStep

Spec == Init /\ [][Next]_vars

\* Threads run; after a signal the accept loop stops. No deadline is assumed to pass.
Fairness ==
    /\ \A r \in Requests : WF_vars(RequestStep(r))
    /\ WF_vars(draining /\ ServeReturns) /\ WF_vars(BeginDrain) /\ WF_vars(LookAtCounter) /\ WF_vars(Wake)
FairSpec == Spec /\ Fairness
-----------------------------------------------------------------------------
(* Properties.                                                             *)

Holding == {"holding", "body", "waiting", "handling", "leaving", "releasing"}
Counted == {"body", "waiting", "handling", "leaving"}
Busy    == {"accepted", "reading", "admitting", "closing"} \cup Holding
At(S)   == {r \in Requests : pc[r] \in S}

\* Types of the admission state.
TypeOK ==
    /\ pc \in [Requests -> PCs] /\ reply \in [Requests -> Replies]
    /\ workers \in 0..MaxWorkers /\ slots \in 0..MaxMutations
    /\ admitted \in 0..MaxMutations
    /\ draining \in BOOLEAN /\ notified \in BOOLEAN
    /\ lock \in Requests \cup {None} /\ main \in Mains

\* No exit path of a request leaks or doubles a permit, a place in the drain
\* counter or the lock: each counter is exactly what the threads hold.
NothingLeaks ==
    /\ workers = MaxWorkers - Cardinality(At(Busy))
    /\ slots = MaxMutations - Cardinality(At(Holding))
    /\ admitted = Cardinality(At(Counted))
    /\ At({"handling"}) = IF lock = None THEN {} ELSE {lock}

\* Once wait_for_mutation_drain returned True no mutation is running and none
\* will: the second look at the flag closes the race with begin_drain.
DrainedIsQuiet == main = "drained" => At(Counted) = {}

\* A server that refuses for want of a permit is really full, and not of admitted mutations
\* alone: with every worker taken, one of them serves a connection that holds no mutation
\* slot, so that it reads no mutation's body and does not wait for the mutation lock. A read
\* may still find no worker, since a mutation takes one before it is admitted
\* (process_request) and keeps it until it is answered.
PermitsAreShared ==
    /\ NothingLeaks
    /\ MaxWorkers > 1 /\ workers = 0 => At(Busy \ Holding) # {}

\* Every accepted connection is answered and gives its slot back.
RequestsEnd == \A r \in Requests : pc[r] \in Busy ~> pc[r] = "done"

\* A drain that was begun ends, without waiting for its deadline.
DrainEnds == draining ~> main \in {"drained", "expired"}
=============================================================================
