----------------------------- MODULE OnceLedger -----------------------------
(***************************************************************************)
(* What an idempotency key promises: its mutation is due once, and becomes *)
(* due again only when it is allowed to (an operator authorised a retry,   *)
(* or its record was evicted).  Starting an attempt spends what is due; a  *)
(* started attempt runs at most once and may be lost.                      *)
(***************************************************************************)
EXTENDS Integers

CONSTANT Keys

VARIABLES due,      \* per key: may the mutation be started?
          started,  \* per key: attempts started and not yet run or lost
          ran       \* per key: attempts that took effect

vars == <<due, started, ran>>

Init == /\ due = [k \in Keys |-> TRUE]
        /\ started = [k \in Keys |-> 0]
        /\ ran = [k \in Keys |-> 0]

\* The keys in A become due; the key k spends its due.
Spend(k, A) ==
    /\ due[k] /\ k \notin A
    /\ due' = [x \in Keys |-> x # k /\ (x \in A \/ due[x])]

Start(k, A) ==
    /\ Spend(k, A)
    /\ started' = [started EXCEPT ![k] = @ + 1]
    /\ UNCHANGED ran

\* The attempt was started and lost in the same step.
StartInVain(k, A) == Spend(k, A) /\ UNCHANGED <<started, ran>>

\* A local mutation takes effect in the step that spends its due.
RunAtOnce(k, A) ==
    /\ Spend(k, A)
    /\ ran' = [ran EXCEPT ![k] = @ + 1]
    /\ UNCHANGED started

Run(k) ==
    /\ started[k] > 0
    /\ started' = [started EXCEPT ![k] = @ - 1]
    /\ ran' = [ran EXCEPT ![k] = @ + 1]
    /\ UNCHANGED due

Lose(k) ==
    /\ started[k] > 0
    /\ started' = [started EXCEPT ![k] = @ - 1]
    /\ UNCHANGED <<due, ran>>

Allow(k) ==
    /\ due' = [due EXCEPT ![k] = TRUE]
    /\ UNCHANGED <<started, ran>>

Next == \/ \E k \in Keys, A \in SUBSET Keys :
              Start(k, A) \/ StartInVain(k, A) \/ RunAtOnce(k, A)
        \/ \E k \in Keys : Run(k) \/ Lose(k) \/ Allow(k)

Spec == Init /\ [][Next]_vars
=============================================================================
