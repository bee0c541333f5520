--------------------------- MODULE MutationJournal ---------------------------
(***************************************************************************)
(* Idempotent mutations of web_api.py: _handle_admitted_mutation,          *)
(* _prepare_general_idempotent_mutation, _execute_live_order_management,   *)
(* _commit_local_idempotent_mutation and the /api/mutations/reconcile      *)
(* route.  Each web server process handles one mutation at a time under    *)
(* its mutation_lock; several processes may share one configuration, which *)
(* they save by compare-and-replace (ConfigStore).  Clients repeat keys at *)
(* will, an operator reconciles, saves fail in every way save_config can   *)
(* fail, and a server may crash between any two steps.                     *)
(***************************************************************************)
EXTENDS JournalOps

CONSTANTS Servers,
          Truthful,     \* the operator reads the venue's history correctly
          MaxBarriers,  \* bound on dispatch attempts per key
          MaxEffects    \* bound on local effects per key

ASSUME ServerAssumption ==
    /\ IsFiniteSet(Servers)
    /\ Truthful \in BOOLEAN
    /\ MaxBarriers \in Nat /\ MaxEffects \in Nat

VARIABLES
    disk,       \* the configuration file: the journal and the local effects
    pc, job,    \* per server: handler position and the request it handles
    base,       \* per server: the file content its AppConfig was read from
    work,       \* per server: the content of its AppConfig
    token,      \* per server: which dispatch attempt of its key it holds
    sent,       \* per key: the attempts that reached the venue
    barriers,   \* ghost, per key: pending barriers ever made durable
    authorized, \* ghost, per key: retries the operator ever authorised
    forgotten,  \* ghost, per key: evictions of the key's entry
    answer      \* the response just sent

locals == <<job, base, work, token>>
ghosts == <<barriers, authorized, forgotten>>
vars   == <<disk, pc, locals, sent, ghosts, answer>>

Contents == [journal : Journals, effects : [Keys -> Nat]]
Empty    == [journal |-> EmptyJournal, effects |-> [k \in Keys |-> 0]]

Jobs  == [key : Keys, req : Reqs \cup Resolutions]
PCs   == {"idle", "deciding", "barrier", "committing", "reconciling",
          "armed", "calling", "recording"}
Results == {"none", "ok", "rejected", "invalid", "conflict", "mismatch",
            "unresolved", "ambiguous", "uncertain", "error"}
NoJob   == [key |-> "none", req |-> "none"]
Silence == [job |-> NoJob, result |-> "none"]

Init ==
    /\ disk = Empty
    /\ pc = [s \in Servers |-> "idle"]
    /\ job = [s \in Servers |-> NoJob]
    /\ base = [s \in Servers |-> Empty]
    /\ work = [s \in Servers |-> Empty]
    /\ token = [s \in Servers |-> 0]
    /\ sent = [k \in Keys |-> {}]
    /\ barriers = [k \in Keys |-> 0]
    /\ authorized = [k \in Keys |-> 0]
    /\ forgotten = [k \in Keys |-> 0]
    /\ answer = Silence

Key(s) == job[s].key
Req(s) == job[s].req
EntryOf(s) == work[s].journal[Key(s)]
WithEntry(s, e) == [work[s] EXCEPT !.journal[Key(s)] = e]

Goto(s, where) == pc' = [pc EXCEPT ![s] = where] /\ answer' = Silence

\* The handler is over and releases mutation_lock.
Leave(s) ==
    /\ pc' = [pc EXCEPT ![s] = "idle"]
    /\ job' = [job EXCEPT ![s] = NoJob]
    /\ base' = [base EXCEPT ![s] = Empty]
    /\ work' = [work EXCEPT ![s] = Empty]
    /\ token' = [token EXCEPT ![s] = 0]

Reply(s, result) == Leave(s) /\ answer' = [job |-> job[s], result |-> result]

-----------------------------------------------------------------------------
(* Requests.                                                               *)

\* The handler got mutation_lock and read the configuration (_handle_mutation
\* reads it anew for every request).
Admit(s, k, r) ==
    /\ pc[s] = "idle"
    /\ job' = [job EXCEPT ![s] = [key |-> k, req |-> r]]
    /\ base' = [base EXCEPT ![s] = disk]
    /\ work' = [work EXCEPT ![s] = disk]
    /\ Goto(s, "deciding")
    /\ UNCHANGED <<disk, token, sent, ghosts>>

\* A client sends, or repeats, a durable mutation.
Submit(s, k, r) == r \in Reqs \ PollReqs /\ Admit(s, k, r)

\* The operator resolves a journal entry. A truthful one says what is so when
\* the request is handled, not only when the venue was inspected.
SubmitReconcile(s, k, resolution) ==
    /\ Truthful =>
          /\ resolution = "confirmed_not_dispatched" => barriers[k] \notin sent[k]
          /\ resolution = "confirmed_dispatched" => barriers[k] \in sent[k]
    /\ Admit(s, k, resolution)

-----------------------------------------------------------------------------
(* _prepare_general_idempotent_mutation.                                   *)

Deciding(s) == pc[s] = "deciding" /\ Req(s) \in Reqs

\* Route checks that come before the journal: the market is disabled, the
\* adapter lacks the operation, the body is refused.
RefuseRoute(s) ==
    /\ Deciding(s)
    /\ Req(s) \in LiveReqs
    /\ Reply(s, "invalid")
    /\ UNCHANGED <<disk, sent, ghosts>>

\* An entry exists and decides the answer: nothing is run again.
AnswerFromJournal(s) ==
    /\ Deciding(s)
    /\ EntryOf(s) # NoEntry
    /\ \/ EntryOf(s).req # Req(s) /\ Reply(s, "mismatch")
       \/ /\ EntryOf(s).req = Req(s)
          /\ \/ EntryOf(s).state = "completed" /\ Reply(s, "ok")
             \/ EntryOf(s).state = "rejected" /\ Reply(s, "rejected")
             \/ /\ EntryOf(s).state \notin Terminal
                /\ ~(Live(EntryOf(s)) /\ EntryOf(s).state = "retryable" /\ EntryOf(s).authorized)
                /\ Reply(s, "unresolved")
    /\ UNCHANGED <<disk, sent, ghosts>>

\* An authorised retry consumes the authorisation behind a new barrier.
PrepareRetry(s) ==
    /\ Deciding(s)
    /\ EntryOf(s).req = Req(s) /\ Live(EntryOf(s))
    /\ EntryOf(s).state = "retryable" /\ EntryOf(s).authorized
    /\ barriers[Key(s)] < MaxBarriers
    /\ work' = [work EXCEPT ![s] =
                  WithEntry(s, [EntryOf(s) EXCEPT !.state = "pending", !.authorized = FALSE])]
    /\ Goto(s, "barrier")
    /\ UNCHANGED <<disk, job, base, token, sent, ghosts>>

\* A new live mutation needs a durable pending entry before it is run.
PrepareLive(s) ==
    /\ Deciding(s) /\ Req(s) \in LiveReqs
    /\ EntryOf(s) = NoEntry
    /\ barriers[Key(s)] < MaxBarriers
    /\ \E j \in Appended(work[s].journal, Key(s), NewEntry(Req(s), "pending")) :
          work' = [work EXCEPT ![s].journal = j]
    /\ Goto(s, "barrier")
    /\ UNCHANGED <<disk, job, base, token, sent, ghosts>>

\* A new local mutation is applied to the AppConfig and journalled as
\* completed in the same snapshot (_commit_local_idempotent_mutation).
ApplyLocal(s) ==
    /\ Deciding(s) /\ Req(s) \notin LiveReqs
    /\ EntryOf(s) = NoEntry
    /\ work[s].effects[Key(s)] < MaxEffects
    /\ \E j \in Appended(work[s].journal, Key(s), NewEntry(Req(s), "completed")) :
          work' = [work EXCEPT ![s] =
                     [journal |-> j, effects |-> [work[s].effects EXCEPT ![Key(s)] = @ + 1]]]
    /\ Goto(s, "committing")
    /\ UNCHANGED <<disk, job, base, token, sent, ghosts>>

\* The journal is full of unresolved entries, or the body is invalid.
RefuseNew(s) ==
    /\ Deciding(s)
    /\ EntryOf(s) = NoEntry
    /\ \/ Req(s) \notin LiveReqs
       \/ Appended(work[s].journal, Key(s), NewEntry(Req(s), "pending")) = {}
    /\ Reply(s, "invalid")
    /\ UNCHANGED <<disk, sent, ghosts>>

-----------------------------------------------------------------------------
(* save_config, as ConfigStore implements it.                              *)

\* Mutant: the save does not compare what it replaces.
CommitBlindly(s) ==
    /\ disk' = work[s]
    /\ forgotten' = [k \in Keys |->
          IF disk.journal[k] # NoEntry /\ work[s].journal[k] = NoEntry
          THEN forgotten[k] + 1 ELSE forgotten[k]]
    /\ barriers' = IF pc[s] = "barrier"
                   THEN [barriers EXCEPT ![Key(s)] = @ + 1] ELSE barriers
    /\ authorized' = IF pc[s] = "reconciling" /\ EntryOf(s).state = "retryable"
                     THEN [authorized EXCEPT ![Key(s)] = @ + 1] ELSE authorized

\* The snapshot replaces the file it was read from; ghosts note what the
\* commit forgot, armed and authorised.
Commit(s) ==
    /\ base[s] = disk
    /\ disk' = work[s]
    /\ forgotten' = [k \in Keys |->
          IF disk.journal[k] # NoEntry /\ work[s].journal[k] = NoEntry
          THEN forgotten[k] + 1 ELSE forgotten[k]]
    /\ barriers' = IF pc[s] = "barrier"
                   THEN [barriers EXCEPT ![Key(s)] = @ + 1] ELSE barriers
    /\ authorized' = IF pc[s] = "reconciling" /\ EntryOf(s).state = "retryable"
                     THEN [authorized EXCEPT ![Key(s)] = @ + 1] ELSE authorized

\* The save raises before its commit point: a conflict, a lock timeout, an error.
NotWritten(s) == UNCHANGED <<disk, ghosts>>

-----------------------------------------------------------------------------
(* Saves and what follows them.                                            *)

\* The barrier is durable: the attempt may go to the venue, once.
SaveBarrier(s) ==
    /\ pc[s] = "barrier"
    /\ Commit(s)
    /\ base' = [base EXCEPT ![s] = work[s]]
    /\ token' = [token EXCEPT ![s] = barriers'[Key(s)]]
    /\ Goto(s, "armed")
    /\ UNCHANGED <<job, work, sent>>

\* Mutant: the dispatch goes ahead although the barrier was not saved.
BarrierIgnored(s) ==
    /\ pc[s] = "barrier"
    /\ NotWritten(s) /\ Goto(s, "armed")
    /\ UNCHANGED <<locals, sent>>

\* The barrier save raised, before or after the commit point: no dispatch.
BarrierFails(s) ==
    /\ pc[s] = "barrier"
    /\ \/ NotWritten(s) /\ Reply(s, "conflict")
       \/ Commit(s) /\ Reply(s, "error")
    /\ UNCHANGED sent

SaveLocal(s) ==
    /\ pc[s] = "committing"
    /\ \/ Commit(s) /\ Reply(s, "ok")
       \/ NotWritten(s) /\ Reply(s, "conflict")
       \/ Commit(s) /\ Reply(s, "error")
    /\ UNCHANGED sent

\* Mutant: the adapter may send its request again.
DispatchAgain(s) ==
    /\ pc[s] = "armed"
    /\ sent' = [sent EXCEPT ![Key(s)] = @ \cup {token[s]}]
    /\ Goto(s, "armed")
    /\ UNCHANGED <<disk, locals, ghosts>>

\* The adapter reaches the venue.
Dispatch(s) ==
    /\ pc[s] = "armed"
    /\ sent' = [sent EXCEPT ![Key(s)] = @ \cup {token[s]}]
    /\ Goto(s, "calling")
    /\ UNCHANGED <<disk, locals, ghosts>>

Outcome(s, e) ==
    /\ work' = [work EXCEPT ![s] = WithEntry(s, e)]
    /\ Goto(s, "recording")
    /\ UNCHANGED <<disk, job, base, token, sent, ghosts>>

\* Mutant: adapters raise these errors after their transport call too.
RejectAnytime(s) ==
    /\ pc[s] \in {"armed", "calling"}
    /\ Outcome(s, [EntryOf(s) EXCEPT !.state = "rejected", !.code = "validation"])

\* MarketConfigurationError or UnsupportedFeatureError: adapters raise them
\* before their transport call.
RejectBeforeDispatch(s) ==
    /\ pc[s] = "armed"
    /\ Outcome(s, [EntryOf(s) EXCEPT !.state = "rejected", !.code = "validation"])

\* Any other exception, before or after the venue was reached.
OutcomeUnknown(s) ==
    /\ pc[s] \in {"armed", "calling"}
    /\ Outcome(s, [EntryOf(s) EXCEPT !.state = "ambiguous"])

DispatchReturns(s) ==
    /\ pc[s] = "calling"
    /\ Outcome(s, [EntryOf(s) EXCEPT !.state = "completed"])

\* The disposition is saved; success is claimed only when save_config returned.
SaveDisposition(s) ==
    /\ pc[s] = "recording"
    /\ Commit(s)
    /\ Reply(s, CASE EntryOf(s).state = "completed" -> "ok"
                  [] EntryOf(s).state = "rejected"  -> "rejected"
                  [] EntryOf(s).state = "ambiguous" -> "ambiguous")
    /\ UNCHANGED sent

\* Mutant: what the venue said is answered although it was not saved.
DispositionAssumed(s) ==
    /\ pc[s] = "recording"
    /\ NotWritten(s) \/ Commit(s)
    /\ Reply(s, IF EntryOf(s).state = "completed" THEN "ok" ELSE "ambiguous")
    /\ UNCHANGED sent

DispositionFails(s) ==
    /\ pc[s] = "recording"
    /\ NotWritten(s) \/ Commit(s)
    /\ Reply(s, IF EntryOf(s).state = "ambiguous" THEN "ambiguous" ELSE "uncertain")
    /\ UNCHANGED sent

-----------------------------------------------------------------------------
(* POST /api/mutations/reconcile.                                          *)

Reconcile(s) ==
    /\ pc[s] = "deciding" /\ Req(s) \in Resolutions
    /\ IF EntryOf(s) # NoEntry /\ Reconcilable(EntryOf(s))
       THEN /\ work' = [work EXCEPT ![s] = WithEntry(s, Reconciled(EntryOf(s), Req(s)))]
            /\ Goto(s, "reconciling")
            /\ UNCHANGED <<job, base, token>>
       ELSE Reply(s, "invalid")
    /\ UNCHANGED <<disk, sent, ghosts>>

SaveReconciled(s) ==
    /\ pc[s] = "reconciling"
    /\ \/ Commit(s) /\ Reply(s, "ok")
       \/ NotWritten(s) /\ Reply(s, "conflict")
       \/ Commit(s) /\ Reply(s, "error")
    /\ UNCHANGED sent

-----------------------------------------------------------------------------
\* The process is killed and started again: only the file is left.
Crash(s) ==
    /\ pc[s] # "idle"
    /\ Leave(s) /\ answer' = Silence
    /\ UNCHANGED <<disk, sent, ghosts>>

Handle(s) ==
    \/ RefuseRoute(s) \/ AnswerFromJournal(s) \/ PrepareRetry(s)
    \/ PrepareLive(s) \/ ApplyLocal(s) \/ RefuseNew(s)
    \/ SaveBarrier(s) \/ BarrierFails(s) \/ SaveLocal(s)
    \/ Dispatch(s) \/ RejectBeforeDispatch(s) \/ OutcomeUnknown(s) \/ DispatchReturns(s)
    \/ SaveDisposition(s) \/ DispositionFails(s)
    \/ Reconcile(s) \/ SaveReconciled(s)

Next ==
    \E s \in Servers :
        \/ Handle(s) \/ Crash(s)
        \/ \E k \in Keys, r \in Reqs : Submit(s, k, r)
        \/ \E k \in Keys, resolution \in Resolutions : SubmitReconcile(s, k, resolution)

Spec == Init /\ [][Next]_vars
-----------------------------------------------------------------------------
(* Properties.                                                             *)

\* Types of the journal, of every handler's local state and of the ghosts.
TypeOK ==
    /\ disk \in Contents
    /\ pc \in [Servers -> PCs]
    /\ job \in [Servers -> Jobs \cup {NoJob}]
    /\ base \in [Servers -> Contents] /\ work \in [Servers -> Contents]
    /\ token \in [Servers -> Nat]
    /\ sent \in [Keys -> SUBSET Nat]
    /\ barriers \in [Keys -> Nat]
    /\ authorized \in [Keys -> Nat] /\ forgotten \in [Keys -> Nat]
    /\ answer \in [job : Jobs \cup {NoJob}, result : Results]

\* A key runs its mutation once: every further dispatch or local effect is
\* paid for by an operator's retry authorisation or follows the eviction of
\* the key's entry (the pending barrier of _prepare_general_idempotent_mutation,
\* the atomic commit of _commit_local_idempotent_mutation).
RunsOnce ==
    \A k \in Keys : barriers[k] + disk.effects[k] <= 1 + authorized[k] + forgotten[k]

\* The venue is reached only by attempts with a durable barrier, and no
\* attempt reaches it twice (_execute_live_order_management).
DispatchesAreFresh ==
    /\ \A k \in Keys : sent[k] \subseteq 1..barriers[k]
    /\ \A s \in Servers : pc[s] = "armed" => token[s] \notin sent[Key(s)]
    /\ \A s, u \in Servers :
          (s # u /\ pc[s] = "armed" /\ pc[u] = "armed" /\ Key(s) = Key(u))
             => token[s] # token[u]

\* append_mutation_journal never forgets an outcome somebody still owes.
UnresolvedIsKept ==
    [][\A k \in Keys : disk.journal[k].state \in Unresolved \cup {"retryable"}
            => disk'.journal[k] # NoEntry]_vars

\* A recorded outcome does not change while it is retained: no late handler
\* and no reconciliation overwrites it.
TerminalIsFinal ==
    [][\A k \in Keys : disk.journal[k].state \in Terminal
            => disk'.journal[k] \in {disk.journal[k], NoEntry}]_vars

\* A client is told success, or a final rejection, only of exactly the
\* request whose outcome is in the file (never of another body under its key),
\* unless the entry was evicted since. In this module a file that was replaced
\* survives every crash: a power loss is ConfigStore's.
AnswersAreDurable ==
    LET k == answer.job.key
    IN  answer.job.req \in Reqs /\ answer.result \in {"ok", "rejected"} =>
            \/ forgotten[k] > 0
            \/ /\ disk.journal[k].req = answer.job.req
               /\ disk.journal[k].state = IF answer.result = "ok" THEN "completed" ELSE "rejected"

\* With one server and a truthful operator the journal agrees with the venue,
\* crashes included: a retained key has reached the venue at most once.
Dispatched(k) == barriers[k] \in sent[k]
JournalMatchesVenue ==
    \A k \in Keys :
        /\ Cardinality(sent[k]) <= 1 + forgotten[k]
        /\ Live(disk.journal[k]) /\ disk.journal[k].state = "completed" => Dispatched(k)
        /\ Live(disk.journal[k]) /\ disk.journal[k].state = "retryable" => ~Dispatched(k)
        /\ disk.journal[k].code = "validation" => ~Dispatched(k)

\* The servers, their shared journal and the venue implement the once ledger.
Due(e) == e = NoEntry \/ e.state = "retryable"
Ledger == INSTANCE OnceLedger WITH
    due     <- [k \in Keys |-> Due(disk.journal[k])],
    started <- [k \in Keys |-> Cardinality({s \in Servers : pc[s] = "armed" /\ Key(s) = k})],
    ran     <- [k \in Keys |-> Cardinality(sent[k]) + disk.effects[k]]
ImplementsLedger == Ledger!Spec
=============================================================================
