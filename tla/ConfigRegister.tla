--------------------------- MODULE ConfigRegister ---------------------------
(***************************************************************************)
(* What core/storage.py promises its callers: one configuration value, a   *)
(* compare-and-swap that publishes a whole snapshot or nothing, and a      *)
(* success answer only for a value that survives a power loss.  No locks,  *)
(* no temporary files, no directory entries: those are ConfigStore's.      *)
(***************************************************************************)
EXTENDS Integers

CONSTANTS Threads,      \* threads that may have a save in progress
          Values,       \* configuration contents
          Missing       \* no configuration was ever written

VARIABLES value,        \* the published content
          version,      \* how many publications led to it
          recoverable,  \* the <<content, version>> pairs a power loss may leave
          attempt       \* the snapshot each thread is trying to publish

vars == <<value, version, recoverable, attempt>>

NoAttempt == [base |-> Missing, new |-> Missing, open |-> FALSE]
Attempts  == [base : Values \cup {Missing}, new : Values \cup {Missing}, open : BOOLEAN]

Init == /\ value = Missing
        /\ version = 0
        /\ recoverable = {<<Missing, 0>>}
        /\ attempt = [t \in Threads |-> NoAttempt]

\* A caller hands over a snapshot `new` that was derived from `base`.
Begin(t) ==
    /\ ~attempt[t].open
    /\ \E base \in Values \cup {Missing}, new \in Values :
          attempt' = [attempt EXCEPT ![t] = [base |-> base, new |-> new, open |-> TRUE]]
    /\ UNCHANGED <<value, version, recoverable>>

\* The snapshot replaces exactly the value it was derived from.
Commit(t) ==
    /\ attempt[t].open
    /\ attempt[t].base = value
    /\ value' = attempt[t].new
    /\ version' = version + 1
    /\ recoverable' = recoverable \cup {<<value', version'>>}
    /\ attempt' = [attempt EXCEPT ![t] = NoAttempt]

\* Threads give up (conflict, error, process crash): nothing is published.
Abandon ==
    /\ \E T \in SUBSET Threads :
          attempt' = [t \in Threads |-> IF t \in T THEN NoAttempt ELSE attempt[t]]
    /\ UNCHANGED <<value, version, recoverable>>

\* The current value becomes the only one a power loss can leave.
Stabilize ==
    /\ recoverable' = {<<value, version>>}
    /\ UNCHANGED <<value, version, attempt>>

PowerLoss ==
    /\ \E r \in recoverable :
          /\ value' = r[1]
          /\ version' = r[2]
          /\ recoverable' = {r}
    /\ attempt' = [t \in Threads |-> NoAttempt]

Next == \/ \E t \in Threads : Begin(t) \/ Commit(t)
        \/ Abandon \/ Stabilize \/ PowerLoss

Spec == Init /\ [][Next]_vars
=============================================================================
