----------------------- MODULE MutationAdmission_proofs -----------------------
(***************************************************************************)
(* Proofs about MutationAdmission for any requests and pool sizes.  The    *)
(* argument: the permits, the drain counter and the lock are exactly what  *)
(* the threads hold (NothingLeaks), and once the main thread waits for the *)
(* drain the flag is set for good, so nobody enters the counter again.     *)
(***************************************************************************)
EXTENDS MutationAdmission, FiniteSetTheorems, TLAPS

\* Once the drain is awaited the flag is set; a drain that is over is quiet.
Drained ==
    /\ main \in {"draining", "sleeping", "drained", "expired"} => draining
    /\ DrainedIsQuiet

IInv == TypeOK /\ NothingLeaks /\ Drained

\* What a move of one thread adds to the number of threads in S.
Delta(S, from, to) == (IF to \in S THEN 1 ELSE 0) - (IF from \in S THEN 1 ELSE 0)

-----------------------------------------------------------------------------
USE AdmissionAssumption DEF AdmissionAssumption

\* Threads in a set of places are finitely many.
LEMMA Finite ==
  ASSUME NEW S \in SUBSET Requests
  PROVE  IsFiniteSet(S) /\ Cardinality(S) \in Nat
  BY FS_Subset, FS_CardinalityType

\* A thread that moves takes its place with it.
LEMMA Moves ==
  ASSUME TypeOK, NEW r \in Requests, NEW to \in PCs, pc' = [pc EXCEPT ![r] = to], NEW S
  PROVE  /\ Cardinality(At(S)) \in Nat /\ Cardinality(At(S)') \in Nat
         /\ Cardinality(At(S)') = Cardinality(At(S)) + Delta(S, pc[r], to)
<1>1. \A q \in Requests : pc'[q] = IF q = r THEN to ELSE pc[q]
    BY DEF TypeOK
<1>2. IsFiniteSet(At(S)) /\ Cardinality(At(S)) \in Nat
    BY Finite DEF At
<1>3. At(S)' = IF to \in S THEN At(S) \cup {r} ELSE At(S) \ {r}
    BY <1>1 DEF At
<1>4. r \in At(S) <=> pc[r] \in S
    BY DEF At
<1>5. /\ Cardinality(At(S) \cup {r}) = Cardinality(At(S)) + (IF r \in At(S) THEN 0 ELSE 1)
      /\ Cardinality(At(S) \ {r}) = Cardinality(At(S)) - (IF r \in At(S) THEN 1 ELSE 0)
  <2>1. Cardinality(At(S) \cup {r}) = IF r \in At(S) THEN Cardinality(At(S)) ELSE Cardinality(At(S)) + 1
    BY <1>2, FS_AddElement, Zenon
  <2>2. Cardinality(At(S) \ {r}) = IF r \in At(S) THEN Cardinality(At(S)) - 1 ELSE Cardinality(At(S))
    BY <1>2, FS_RemoveElement, Zenon
  <2> QED
    BY <1>2, <2>1, <2>2
<1>6. Cardinality(At(S)') \in Nat
    BY Finite DEF At
<1> QED
    BY <1>2, <1>3, <1>4, <1>5, <1>6 DEF Delta

\* Who is counted for the drain holds a mutation slot, and who holds one a worker.
LEMMA Nested ==
  /\ Cardinality(At(Counted)) <= Cardinality(At(Holding))
  /\ Cardinality(At(Holding)) \in Nat /\ Cardinality(At(Counted)) \in Nat
<1>1. At(Counted) \subseteq At(Holding) /\ At(Holding) \subseteq Requests
    BY DEF At, Counted, Holding
<1> QED
    BY <1>1, Finite, FS_Subset

\* A step of a request keeps the books when it changes each counter by what its
\* thread takes or gives back.
LEMMA Booked ==
  ASSUME IInv, NEW r \in Requests, NEW to \in PCs, pc' = [pc EXCEPT ![r] = to],
         workers' = workers - Delta(Busy, pc[r], to), workers' >= 0,
         slots' = slots - Delta(Holding, pc[r], to), slots' >= 0,
         admitted' = admitted + Delta(Counted, pc[r], to),
         \/ UNCHANGED lock /\ pc[r] # "handling" /\ to # "handling"
         \/ lock = None /\ lock' = r /\ to = "handling"
         \/ lock' = None /\ pc[r] = "handling" /\ to # "handling",
         UNCHANGED <<draining, main>>, notified' \in BOOLEAN,
         reply' \in [Requests -> Replies],
         to \in Counted => pc[r] \in Counted \/ ~draining
  PROVE  IInv'
<1>1. /\ Cardinality(At(Busy)) \in Nat /\ Cardinality(At(Busy)') \in Nat
      /\ Cardinality(At(Busy)') = Cardinality(At(Busy)) + Delta(Busy, pc[r], to)
    BY Moves DEF IInv
<1>2. /\ Cardinality(At(Holding)) \in Nat /\ Cardinality(At(Holding)') \in Nat
      /\ Cardinality(At(Holding)') = Cardinality(At(Holding)) + Delta(Holding, pc[r], to)
    BY Moves DEF IInv
<1>3. /\ Cardinality(At(Counted)) \in Nat /\ Cardinality(At(Counted)') \in Nat
      /\ Cardinality(At(Counted)') = Cardinality(At(Counted)) + Delta(Counted, pc[r], to)
    BY Moves DEF IInv
<1>4. /\ Delta(Busy, pc[r], to) \in Int /\ Delta(Holding, pc[r], to) \in Int
      /\ Delta(Counted, pc[r], to) \in Int
    BY DEF Delta
<1>5. /\ workers' = MaxWorkers - Cardinality(At(Busy)')
      /\ slots' = MaxMutations - Cardinality(At(Holding)')
      /\ admitted' = Cardinality(At(Counted)')
    BY <1>1, <1>2, <1>3, <1>4 DEF IInv, NothingLeaks
<1>6. \A q \in Requests : pc'[q] = IF q = r THEN to ELSE pc[q]
    BY DEF IInv, TypeOK
<1>7. At({"handling"})' = IF lock' = None THEN {} ELSE {lock'}
    BY <1>6 DEF IInv, NothingLeaks, At
<1>8. Cardinality(At(Counted)') <= Cardinality(At(Holding)')
  <2>1. At(Counted)' \subseteq At(Holding)' /\ At(Holding)' \subseteq Requests
    BY DEF At, Counted, Holding
  <2> QED
    BY <2>1, Finite, FS_Subset
<1>9. TypeOK'
  <2>1. /\ workers' \in 0..MaxWorkers /\ slots' \in 0..MaxMutations
        /\ admitted' \in 0..MaxMutations
    BY <1>1, <1>2, <1>3, <1>5, <1>8
  <2>2. pc' \in [Requests -> PCs] /\ lock' \in Requests \cup {None}
    BY DEF IInv, TypeOK
  <2> QED
    BY <2>1, <2>2 DEF IInv, TypeOK
<1>10. Drained'
    BY <1>6 DEF IInv, Drained, DrainedIsQuiet, At
<1> QED
    BY <1>5, <1>7, <1>9, <1>10 DEF IInv, NothingLeaks

-----------------------------------------------------------------------------
(* Steps.                                                                  *)

\* The accept loop takes a worker for a connection, or answers without one.
LEMMA AcceptStep ==
  ASSUME IInv, NEW r \in Requests, Accept(r) \/ SpawnFails(r)
  PROVE  IInv'
<1>1. /\ pc[r] = "new"
      /\ UNCHANGED <<slots, draining, admitted, lock, main, notified>>
      /\ \/ pc' = [pc EXCEPT ![r] = "done"] /\ UNCHANGED workers
         \/ /\ workers > 0 /\ workers' = workers - 1
            /\ pc' = [pc EXCEPT ![r] = "accepted"] \/ pc' = [pc EXCEPT ![r] = "reading"]
    BY DEF Accept, SpawnFails, Goto, counters
<1>2. reply' \in [Requests -> Replies]
    BY DEF Accept, SpawnFails, Tell, IInv, TypeOK, Replies
<1>3. PICK to \in {"done", "accepted", "reading"} :
        /\ pc' = [pc EXCEPT ![r] = to]
        /\ workers' = workers - (IF to = "done" THEN 0 ELSE 1) /\ workers' >= 0
    BY <1>1 DEF IInv, TypeOK
<1>4. /\ Delta(Busy, pc[r], to) = (IF to = "done" THEN 0 ELSE 1)
      /\ Delta(Holding, pc[r], to) = 0 /\ Delta(Counted, pc[r], to) = 0
    BY <1>1 DEF Delta, Busy, Holding, Counted
<1>5. /\ to \in PCs
      /\ to \in Counted => pc[r] \in Counted \/ ~draining
    BY <1>1, <1>2, <1>3, <1>4 DEF PCs, Counted
<1>6. /\ workers' = workers - Delta(Busy, pc[r], to) /\ workers' >= 0
      /\ slots' = slots - Delta(Holding, pc[r], to) /\ slots' >= 0
      /\ admitted' = admitted + Delta(Counted, pc[r], to)
    BY <1>1, <1>2, <1>3, <1>4 DEF IInv, TypeOK
<1>7. notified' \in BOOLEAN /\ reply' \in [Requests -> Replies]
    BY <1>1, <1>2, <1>3, <1>4 DEF IInv, TypeOK
<1> QED
    BY <1>1, <1>2, <1>3, <1>4, <1>5, <1>6, <1>7, Booked

\* Reads, refusals and the way out of a connection.
LEMMA EdgeStep ==
  ASSUME IInv, NEW r \in Requests, Read(r) \/ Close(r) \/ LookAtFlag(r)
  PROVE  IInv'
<1>1. PICK to \in {"closing", "done", "admitting"} :
        /\ pc' = [pc EXCEPT ![r] = to]
        /\ workers' = workers + (IF to = "done" THEN 1 ELSE 0)
        /\ pc[r] = IF to = "done" THEN "closing" ELSE pc[r]
        /\ pc[r] \in {"reading", "accepted"} \/ to = "done"
        /\ UNCHANGED <<slots, draining, admitted, lock, main, notified>>
        /\ reply' \in [Requests -> Replies]
    BY DEF Read, Close, LookAtFlag, Refuse, Goto, Tell, counters, IInv, TypeOK, Replies
<1>2. /\ Delta(Busy, pc[r], to) = (IF to = "done" THEN -1 ELSE 0)
      /\ Delta(Holding, pc[r], to) = 0 /\ Delta(Counted, pc[r], to) = 0
    BY <1>1 DEF Delta, Busy, Holding, Counted
<1>3. /\ to \in PCs
      /\ to \in Counted => pc[r] \in Counted \/ ~draining
    BY <1>1, <1>2 DEF PCs, Counted
<1>4. /\ workers' = workers - Delta(Busy, pc[r], to) /\ workers' >= 0
      /\ slots' = slots - Delta(Holding, pc[r], to) /\ slots' >= 0
      /\ admitted' = admitted + Delta(Counted, pc[r], to)
    BY <1>1, <1>2 DEF IInv, TypeOK
<1>5. notified' \in BOOLEAN /\ reply' \in [Requests -> Replies]
    BY <1>1, <1>2 DEF IInv, TypeOK
<1> QED
    BY <1>1, <1>2, <1>3, <1>4, <1>5, Booked

\* A mutation slot is taken, or refused.
LEMMA SlotStep ==
  ASSUME IInv, NEW r \in Requests, TakeSlot(r)
  PROVE  IInv'
<1>1. /\ pc[r] = "admitting"
      /\ UNCHANGED <<workers, draining, admitted, lock, main, notified>>
      /\ reply' \in [Requests -> Replies]
    BY DEF TakeSlot, Refuse, Tell, IInv, TypeOK, Replies
<1>2. PICK to \in {"closing", "holding"} :
        /\ pc' = [pc EXCEPT ![r] = to]
        /\ slots' = slots - (IF to = "holding" THEN 1 ELSE 0) /\ slots' >= 0
    BY DEF TakeSlot, Refuse, Goto, IInv, TypeOK
<1>3. /\ Delta(Busy, pc[r], to) = 0 /\ Delta(Counted, pc[r], to) = 0
      /\ Delta(Holding, pc[r], to) = (IF to = "holding" THEN 1 ELSE 0)
    BY <1>1, <1>2 DEF Delta, Busy, Holding, Counted
<1>4. /\ to \in PCs
      /\ to \in Counted => pc[r] \in Counted \/ ~draining
    BY <1>1, <1>2, <1>3 DEF PCs, Counted
<1>5. /\ workers' = workers - Delta(Busy, pc[r], to) /\ workers' >= 0
      /\ slots' = slots - Delta(Holding, pc[r], to) /\ slots' >= 0
      /\ admitted' = admitted + Delta(Counted, pc[r], to)
    BY <1>1, <1>2, <1>3 DEF IInv, TypeOK
<1>6. notified' \in BOOLEAN /\ reply' \in [Requests -> Replies]
    BY <1>1, <1>2, <1>3 DEF IInv, TypeOK
<1> QED
    BY <1>1, <1>2, <1>3, <1>4, <1>5, <1>6, Booked

\* The second look at the flag, under the condition's lock.
LEMMA EnterStep ==
  ASSUME IInv, NEW r \in Requests, Enter(r)
  PROVE  IInv'
<1>1. /\ pc[r] = "holding"
      /\ UNCHANGED <<workers, draining, lock, main, notified>>
      /\ reply' \in [Requests -> Replies]
    BY DEF Enter, Refuse, Tell, IInv, TypeOK, Replies
<1>2. PICK to \in {"closing", "body"} :
        /\ pc' = [pc EXCEPT ![r] = to]
        /\ slots' = slots + (IF to = "closing" THEN 1 ELSE 0)
        /\ admitted' = admitted + (IF to = "body" THEN 1 ELSE 0)
        /\ to = "body" => ~draining
    BY DEF Enter, Refuse, Goto, IInv, TypeOK
<1>3. /\ Delta(Busy, pc[r], to) = 0
      /\ Delta(Counted, pc[r], to) = (IF to = "body" THEN 1 ELSE 0)
      /\ Delta(Holding, pc[r], to) = (IF to = "closing" THEN -1 ELSE 0)
    BY <1>1, <1>2 DEF Delta, Busy, Holding, Counted
<1>4. /\ to \in PCs
      /\ to \in Counted => pc[r] \in Counted \/ ~draining
    BY <1>1, <1>2, <1>3 DEF PCs, Counted
<1>5. /\ workers' = workers - Delta(Busy, pc[r], to) /\ workers' >= 0
      /\ slots' = slots - Delta(Holding, pc[r], to) /\ slots' >= 0
      /\ admitted' = admitted + Delta(Counted, pc[r], to)
    BY <1>1, <1>2, <1>3 DEF IInv, TypeOK
<1>6. notified' \in BOOLEAN /\ reply' \in [Requests -> Replies]
    BY <1>1, <1>2, <1>3 DEF IInv, TypeOK
<1> QED
    BY <1>1, <1>2, <1>3, <1>4, <1>5, <1>6, Booked

\* The counter goes down, then the slot is given back.
LEMMA LeaveStep ==
  ASSUME IInv, NEW r \in Requests, Leave(r) \/ ReleaseSlot(r)
  PROVE  IInv'
<1>1. CASE Leave(r)
  <2>1. /\ pc[r] = "leaving" /\ pc' = [pc EXCEPT ![r] = "releasing"]
        /\ UNCHANGED <<workers, slots, draining, lock, main, reply>>
        /\ notified' \in BOOLEAN
    BY <1>1 DEF Leave, Goto, IInv, TypeOK
  <2>2. admitted > 0
    <3>1. r \in At(Counted) /\ IsFiniteSet(At(Counted))
      BY <2>1, Finite DEF At, Counted
    <3>2. Cardinality(At(Counted)) # 0
      BY <3>1, FS_EmptySet
    <3> QED
      BY <3>2, Finite DEF IInv, TypeOK, NothingLeaks
  <2>3. admitted' = admitted - 1
    BY <1>1, <2>2 DEF Leave
  <2>4. /\ Delta(Busy, pc[r], "releasing") = 0 /\ Delta(Counted, pc[r], "releasing") = -1
        /\ Delta(Holding, pc[r], "releasing") = 0
    BY <2>1 DEF Delta, Busy, Holding, Counted
  <2>5. /\ "releasing" \in PCs
        /\ "releasing" \in Counted => pc[r] \in Counted \/ ~draining
      BY <2>1, <2>3, <2>4 DEF PCs, Counted
  <2>6. /\ workers' = workers - Delta(Busy, pc[r], "releasing") /\ workers' >= 0
        /\ slots' = slots - Delta(Holding, pc[r], "releasing") /\ slots' >= 0
        /\ admitted' = admitted + Delta(Counted, pc[r], "releasing")
      BY <2>1, <2>3, <2>4 DEF IInv, TypeOK
  <2>7. notified' \in BOOLEAN /\ reply' \in [Requests -> Replies]
      BY <2>1, <2>3, <2>4 DEF IInv, TypeOK
  <2> QED
    BY <2>1, <2>3, <2>4, <2>5, <2>6, <2>7, Booked
<1>2. CASE ReleaseSlot(r)
  <2>1. /\ pc[r] = "releasing" /\ pc' = [pc EXCEPT ![r] = "closing"] /\ slots' = slots + 1
        /\ UNCHANGED <<workers, admitted, draining, lock, main, notified, reply>>
    BY <1>2 DEF ReleaseSlot, Goto
  <2>2. /\ Delta(Busy, pc[r], "closing") = 0 /\ Delta(Counted, pc[r], "closing") = 0
        /\ Delta(Holding, pc[r], "closing") = -1
    BY <2>1 DEF Delta, Busy, Holding, Counted
  <2>3. /\ "closing" \in PCs
        /\ "closing" \in Counted => pc[r] \in Counted \/ ~draining
      BY <2>1, <2>2 DEF PCs, Counted
  <2>4. /\ workers' = workers - Delta(Busy, pc[r], "closing") /\ workers' >= 0
        /\ slots' = slots - Delta(Holding, pc[r], "closing") /\ slots' >= 0
        /\ admitted' = admitted + Delta(Counted, pc[r], "closing")
      BY <2>1, <2>2 DEF IInv, TypeOK
  <2>5. notified' \in BOOLEAN /\ reply' \in [Requests -> Replies]
      BY <2>1, <2>2 DEF IInv, TypeOK
  <2> QED
    BY <2>1, <2>2, <2>3, <2>4, <2>5, Booked
<1> QED
    BY <1>1, <1>2

\* The body is read, the lock awaited, taken and given back.
LEMMA HandleStep ==
  ASSUME IInv, NEW r \in Requests, ReadBody(r) \/ TakeLock(r) \/ LockTimeout(r) \/ Handled(r)
  PROVE  IInv'
<1>1. PICK to \in {"leaving", "waiting", "handling"} :
        /\ pc[r] \in {"body", "waiting", "handling"} /\ pc' = [pc EXCEPT ![r] = to]
        /\ UNCHANGED <<workers, slots, admitted, draining, main, notified>>
        /\ reply' \in [Requests -> Replies]
        /\ \/ UNCHANGED lock /\ pc[r] # "handling" /\ to # "handling"
           \/ lock = None /\ lock' = r /\ to = "handling"
           \/ lock' = None /\ pc[r] = "handling" /\ to # "handling"
    BY DEF ReadBody, TakeLock, LockTimeout, Handled, Goto, Tell, counters, IInv, TypeOK, Replies
<1>2. /\ Delta(Busy, pc[r], to) = 0 /\ Delta(Holding, pc[r], to) = 0
      /\ Delta(Counted, pc[r], to) = 0
    BY <1>1 DEF Delta, Busy, Holding, Counted
<1>3. /\ to \in PCs
      /\ to \in Counted => pc[r] \in Counted \/ ~draining
    BY <1>1, <1>2 DEF PCs, Counted
<1>4. /\ workers' = workers - Delta(Busy, pc[r], to) /\ workers' >= 0
      /\ slots' = slots - Delta(Holding, pc[r], to) /\ slots' >= 0
      /\ admitted' = admitted + Delta(Counted, pc[r], to)
    BY <1>1, <1>2 DEF IInv, TypeOK
<1>5. notified' \in BOOLEAN /\ reply' \in [Requests -> Replies]
    BY <1>1, <1>2 DEF IInv, TypeOK
<1> QED
    BY <1>1, <1>2, <1>3, <1>4, <1>5, Booked

\* The main thread only looks; it is drained only when nobody is counted.
LEMMA ServerStep ==
  ASSUME IInv, Signal \/ MainStep
  PROVE  IInv'
<1>1. UNCHANGED <<pc, workers, slots, admitted, lock, reply>>
    BY DEF Signal, MainStep, ServeReturns, BeginDrain, LookAtCounter, Wake, DrainDeadline, counters
<1>2. /\ draining' \in BOOLEAN /\ notified' \in BOOLEAN /\ main' \in Mains
      /\ draining => draining'
      /\ main' \in {"draining", "sleeping", "drained", "expired"} => draining'
      /\ main' = "drained" => admitted = 0
    BY DEF Signal, MainStep, ServeReturns, BeginDrain, LookAtCounter, Wake, DrainDeadline,
           IInv, TypeOK, Mains, Drained
<1>3. TypeOK'
    BY <1>1, <1>2 DEF IInv, TypeOK
<1>4. NothingLeaks'
    BY <1>1 DEF IInv, NothingLeaks, At
<1>5. main' = "drained" => At(Counted)' = {}
  <2>1. admitted = 0 => At(Counted) = {}
    BY Finite, FS_EmptySet DEF IInv, NothingLeaks, At
  <2> QED
    BY <1>1, <1>2, <2>1 DEF At
<1> QED
    BY <1>2, <1>3, <1>4, <1>5 DEF IInv, Drained, DrainedIsQuiet

\* Before the first connection every permit is free.
LEMMA InitIInv == Init => IInv
<1> SUFFICES ASSUME Init
             PROVE  IInv
    OBVIOUS
<1>1. At(Busy) = {} /\ At(Holding) = {} /\ At(Counted) = {} /\ At({"handling"}) = {}
    BY DEF Init, At, Busy, Holding, Counted
<1>2. NothingLeaks
    BY <1>1, FS_EmptySet DEF Init, NothingLeaks
<1>3. TypeOK
  <2>1. MaxWorkers \in 0..MaxWorkers /\ MaxMutations \in 0..MaxMutations /\ 0 \in 0..MaxMutations
    OBVIOUS
  <2> QED
    BY <2>1 DEF Init, TypeOK, PCs, Replies, Mains
<1>4. Drained
    BY DEF Init, Drained, DrainedIsQuiet
<1> QED
    BY <1>2, <1>3, <1>4 DEF IInv

\* Every step keeps the invariant.
LEMMA NextIInv == IInv /\ [Next]_vars => IInv'
<1> SUFFICES ASSUME IInv, [Next]_vars
             PROVE  IInv'
    OBVIOUS
<1>1. ASSUME NEW r \in Requests, Accept(r) \/ SpawnFails(r) \/ RequestStep(r)
      PROVE  IInv'
    BY <1>1, AcceptStep, EdgeStep, SlotStep, EnterStep, LeaveStep, HandleStep DEF RequestStep
<1>2. CASE UNCHANGED vars
    BY <1>2 DEF vars, counters, IInv, TypeOK, NothingLeaks, At, Drained, DrainedIsQuiet
<1> QED
    BY <1>1, <1>2, ServerStep DEF Next

\* The inductive invariant of admission and drain, for any requests and pools.
THEOREM Invariance == Spec => []IInv
<1> QED
    BY InitIInv, NextIInv, PTL DEF Spec

\* Permits, counter and flags keep their types (ReactGuiServer's semaphores).
THEOREM TypeCorrect == Spec => []TypeOK
<1>1. IInv => TypeOK
    BY DEF IInv
<1> QED
    BY <1>1, Invariance, PTL

\* No way through a request leaks a permit, a place in the counter or the lock
\* (the finally clauses of process_request_thread and do_POST).
THEOREM PermitsBalance == Spec => []NothingLeaks
<1>1. IInv => NothingLeaks
    BY DEF IInv
<1> QED
    BY <1>1, Invariance, PTL

\* When wait_for_mutation_drain returned True no mutation runs or will.
THEOREM DrainIsFinal == Spec => []DrainedIsQuiet
<1>1. IInv => DrainedIsQuiet
    BY DEF IInv, Drained
<1> QED
    BY <1>1, Invariance, PTL

\* An empty pool is not held by admitted mutations alone (the worker counts run_server allows):
\* they are at most MaxMutations, which is less than the pool, and the busy threads are all of it.
THEOREM PoolIsShared == Spec => []PermitsAreShared
<1>1. IInv => PermitsAreShared
  <2> SUFFICES ASSUME IInv, MaxWorkers > 1, workers = 0
               PROVE  At(Busy \ Holding) # {}
    BY DEF PermitsAreShared, IInv
  <2>1. Cardinality(At(Busy)) = MaxWorkers
    <3>1. At(Busy) \in SUBSET Requests
      BY DEF At
    <3>2. Cardinality(At(Busy)) \in Nat /\ workers = MaxWorkers - Cardinality(At(Busy))
      BY <3>1, Finite DEF IInv, NothingLeaks
    <3> QED
      BY <3>2
  <2>2. Cardinality(At(Holding)) < MaxWorkers
    BY Nested DEF IInv, TypeOK, NothingLeaks
  <2>3. At(Busy) # At(Holding)
    BY <2>1, <2>2, Nested
  <2>4. At(Busy) = At(Holding) \cup At(Busy \ Holding)
    BY DEF At, Busy
  <2> QED
    BY <2>3, <2>4
<1> QED
    BY <1>1, Invariance, PTL
=============================================================================
