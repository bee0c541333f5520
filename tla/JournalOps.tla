----------------------------- MODULE JournalOps -----------------------------
(***************************************************************************)
(* The durable mutation journal kept in the configuration (core/models.py: *)
(* MutationJournalEntry, AppConfig.append_mutation_journal and             *)
(* AppConfig.reconcile_ambiguous_mutation) as operators on a function from *)
(* idempotency keys to entries.  The key stands for its sha256 hash and    *)
(* for the entry's id; a request stands for method, path and body hash.    *)
(***************************************************************************)
EXTENDS Integers, FiniteSets

CONSTANTS Keys,         \* idempotency keys
          Reqs,         \* requests: method, path and body
          LiveReqs,     \* those that reach a venue (/api/markets/<m>/orders/<op>)
          PollReqs,     \* those that poll wallets (/api/wallets/poll)
          MaxEntries    \* MAX_MUTATION_JOURNAL_ENTRIES

ASSUME JournalAssumption ==
    /\ IsFiniteSet(Keys)
    /\ LiveReqs \subseteq Reqs /\ PollReqs \subseteq Reqs
    /\ LiveReqs \cap PollReqs = {}
    /\ MaxEntries \in Nat \ {0}

Unresolved  == {"pending", "ambiguous"}
Terminal    == {"completed", "rejected"}
EntryStates == Unresolved \cup Terminal \cup {"retryable"}

\* outcome_code, as far as the code branches on it: "validation" is
\* pre_dispatch_validation_failed, "acknowledged" is
\* wallet_delivery_batch_acknowledged, "plain" any other code.
Codes == {"plain", "validation", "acknowledged"}

Entry == [req : Reqs, state : EntryStates, authorized : BOOLEAN, code : Codes]

\* The absence of an entry, with the fields of one.
NoEntry == [req |-> "none", state |-> "absent", authorized |-> FALSE, code |-> "plain"]

Journals == [Keys -> Entry \cup {NoEntry}]
EmptyJournal == [k \in Keys |-> NoEntry]

Live(e) == e.req \in LiveReqs
Recorded(j) == {k \in Keys : j[k] # NoEntry}

NewEntry(r, st) == [req |-> r, state |-> st, authorized |-> FALSE, code |-> "plain"]

\* A completed wallet poll nobody acknowledged yet.
Pinned(e) == e.state = "completed" /\ e.req \in PollReqs /\ e.code # "acknowledged"

\* Mutant: any entry but an unacknowledged poll may be evicted.
AnyRemovable(e) == ~Pinned(e)

Removable(e) == e.state \in Terminal /\ ~Pinned(e)

\* The journals append_mutation_journal may leave: at capacity the oldest
\* removable entry makes room.  Age is the wall clock in whole seconds, which
\* may stand still or step back, so any removable entry can be the oldest.
Appended(j, k, e) ==
    IF Cardinality(Recorded(j)) < MaxEntries
    THEN {[j EXCEPT ![k] = e]}
    ELSE {[j EXCEPT ![old] = NoEntry, ![k] = e] :
             old \in {x \in Recorded(j) : Removable(j[x])}}

Resolutions == {"confirmed_dispatched", "confirmed_not_dispatched", "discard"}

ASSUME RequestNames == "none" \notin Reqs /\ Reqs \cap Resolutions = {}

Reconcilable(e) == Live(e) /\ e.state \in Unresolved

Reconciled(e, resolution) ==
    CASE resolution = "confirmed_dispatched" ->
            [e EXCEPT !.state = "completed", !.authorized = FALSE, !.code = "plain"]
      [] resolution = "confirmed_not_dispatched" ->
            [e EXCEPT !.state = "retryable", !.authorized = TRUE, !.code = "plain"]
      [] resolution = "discard" ->
            [e EXCEPT !.state = "rejected", !.authorized = FALSE, !.code = "plain"]
=============================================================================
