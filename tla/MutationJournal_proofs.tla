------------------------ MODULE MutationJournal_proofs ------------------------
(***************************************************************************)
(* Proofs about MutationJournal for any number of servers, keys, requests  *)
(* and journal slots, and any operator, truthful or not.  The argument:    *)
(* what a handler is about to save differs from what it read only in its   *)
(* own key and in removable entries, its own key was unresolved or due     *)
(* there, and a save commits only over exactly what was read.  So dispatch *)
(* barriers and local effects are paid for, key by key.                    *)
(***************************************************************************)
EXTENDS MutationJournal, FiniteSetTheorems, TLAPS

EntryRead(s) == base[s].journal[Key(s)]
Saving == {"barrier", "committing", "recording", "reconciling"}

\* A handler touches its own key and evicts removable entries, nothing else.
OthersKept(s) ==
    /\ \A x \in Keys \ {Key(s)} :
          \/ work[s].journal[x] = base[s].journal[x]
          \/ Removable(base[s].journal[x]) /\ work[s].journal[x] = NoEntry
    /\ \A x \in Keys :
          ~(pc[s] = "committing" /\ x = Key(s)) => work[s].effects[x] = base[s].effects[x]

\* What a handler has staged, by its position.
Staging(s) ==
    /\ pc[s] # "idle" => job[s] \in Jobs
    /\ pc[s] \in {"deciding", "armed", "calling"} => work[s] = base[s]
    /\ pc[s] \in Saving => OthersKept(s)
    /\ pc[s] = "barrier" => Due(EntryRead(s)) /\ EntryOf(s).state = "pending"
    /\ pc[s] \in {"armed", "calling"} => EntryOf(s).state = "pending"
    /\ pc[s] = "recording" =>
          EntryRead(s).state = "pending" /\ EntryOf(s).state \in {"completed", "rejected", "ambiguous"}
    /\ pc[s] = "reconciling" =>
          /\ EntryRead(s).state \in Unresolved /\ Req(s) \in Resolutions
          /\ EntryOf(s).state \in {"completed", "retryable", "rejected"}
    /\ pc[s] = "committing" =>
          /\ EntryRead(s) = NoEntry /\ EntryOf(s).state = "completed"
          /\ work[s].effects[Key(s)] = base[s].effects[Key(s)] + 1
    /\ pc[s] \in {"barrier", "armed", "calling", "recording", "committing"} =>
          EntryOf(s).req = Req(s) /\ Req(s) \in Reqs

Staged == \A s \in Servers : Staging(s)

\* Each key's books: runs and the due one equal the one it began with, the
\* retries it was granted and the times it was forgotten.
Balance ==
    \A k \in Keys :
        barriers[k] + disk.effects[k] + (IF Due(disk.journal[k]) THEN 1 ELSE 0)
            = 1 + authorized[k] + forgotten[k]

\* Attempts in hand were counted.
Counted == \A s \in Servers : pc[s] = "armed" => token[s] \in 1..barriers[Key(s)]

\* An outcome a handler has read is still there, unless it was evicted.
Remembered ==
    \A s \in Servers, k \in Keys :
        pc[s] # "idle" /\ base[s].journal[k].state \in Terminal =>
            disk.journal[k] = base[s].journal[k] \/ forgotten[k] > 0

IInv == TypeOK /\ Staged /\ Balance /\ Counted /\ DispatchesAreFresh /\ Remembered /\ AnswersAreDurable

-----------------------------------------------------------------------------
(* The journal operators.                                                  *)

\* An appended journal holds the entry; other entries stay or were removable.
LEMMA AppendedProperties ==
  ASSUME NEW j \in Journals, NEW k \in Keys, NEW e \in Entry, NEW j2 \in Appended(j, k, e)
  PROVE  /\ j2 \in Journals
         /\ j2[k] = e
         /\ \A x \in Keys \ {k} : j2[x] = j[x] \/ (Removable(j[x]) /\ j2[x] = NoEntry)
<1>1. CASE j2 = [j EXCEPT ![k] = e]
  BY <1>1 DEF Journals
<1>2. ASSUME NEW old \in Recorded(j), Removable(j[old]), j2 = [j EXCEPT ![old] = NoEntry, ![k] = e]
      PROVE  /\ j2 \in Journals
             /\ j2[k] = e
             /\ \A x \in Keys \ {k} : j2[x] = j[x] \/ (Removable(j[x]) /\ j2[x] = NoEntry)
  BY <1>2 DEF Journals, Recorded
<1> QED
  BY <1>1, <1>2 DEF Appended

\* A new pending or completed entry is an entry.
LEMMA NewEntryType ==
  ASSUME NEW r \in Reqs, NEW st \in EntryStates PROVE NewEntry(r, st) \in Entry
  BY DEF NewEntry, Entry, Codes

\* A reconciled entry is an entry for the same request with the outcome asked for.
LEMMA ReconciledProperties ==
  ASSUME NEW e \in Entry, NEW resolution \in Resolutions
  PROVE  /\ Reconciled(e, resolution) \in Entry
         /\ Reconciled(e, resolution).req = e.req
         /\ Reconciled(e, resolution).state \in {"completed", "retryable", "rejected"}
<1>1. CASE resolution = "confirmed_dispatched"
  BY <1>1 DEF Reconciled, Entry, EntryStates, Terminal, Unresolved, Codes
<1>2. CASE resolution = "confirmed_not_dispatched"
  BY <1>2 DEF Reconciled, Entry, EntryStates, Terminal, Unresolved, Codes
<1>3. CASE resolution = "discard"
  BY <1>3 DEF Reconciled, Entry, EntryStates, Terminal, Unresolved, Codes
<1> QED
  BY <1>1, <1>2, <1>3 DEF Resolutions

\* Putting an entry at the own key changes nothing else.
LEMMA WithEntryProperties ==
  ASSUME NEW s \in Servers, work[s] \in Contents, Key(s) \in Keys, NEW e \in Entry
  PROVE  /\ WithEntry(s, e) \in Contents
         /\ WithEntry(s, e).effects = work[s].effects
         /\ WithEntry(s, e).journal[Key(s)] = e
         /\ \A x \in Keys \ {Key(s)} : WithEntry(s, e).journal[x] = work[s].journal[x]
  BY DEF WithEntry, Contents, Journals

-----------------------------------------------------------------------------
(* Types.                                                                  *)

ServerTypes ==
    /\ pc \in [Servers -> PCs] /\ job \in [Servers -> Jobs \cup {NoJob}]
    /\ base \in [Servers -> Contents] /\ work \in [Servers -> Contents]
    /\ token \in [Servers -> Nat]

FileTypes ==
    /\ disk \in Contents
    /\ barriers \in [Keys -> Nat] /\ authorized \in [Keys -> Nat] /\ forgotten \in [Keys -> Nat]

AnswerType == answer \in [job : Jobs \cup {NoJob}, result : Results]

\* TypeOK is the types of the servers, the file, the answer and the venue.
LEMMA TypeParts == TypeOK <=> ServerTypes /\ FileTypes /\ AnswerType /\ sent \in [Keys -> SUBSET Nat]
  BY DEF TypeOK, ServerTypes, FileTypes, AnswerType

\* The same for the next state.
LEMMA TypePartsNext ==
  ASSUME ServerTypes', FileTypes', AnswerType', sent' \in [Keys -> SUBSET Nat] PROVE TypeOK'
  BY DEF TypeOK, ServerTypes, FileTypes, AnswerType

\* The empty configuration is well-formed, and the absent entry is no entry.
LEMMA EmptyType == Empty \in Contents /\ NoEntry \notin Entry
  BY DEF Empty, Contents, EmptyJournal, Journals, NoEntry, Entry, EntryStates, Unresolved, Terminal

\* Saying nothing is a well-typed answer.
LEMMA SilenceType == Silence \in [job : Jobs \cup {NoJob}, result : Results]
  BY DEF Silence, Results

\* What a busy handler holds.
LEMMA Busy ==
  ASSUME TypeOK, Staged, NEW s \in Servers, pc[s] # "idle"
  PROVE  /\ job[s] \in Jobs /\ Key(s) \in Keys
         /\ work[s] \in Contents /\ base[s] \in Contents
         /\ EntryOf(s) \in Entry \cup {NoEntry} /\ EntryRead(s) \in Entry \cup {NoEntry}
<1>1. job[s] \in Jobs
  BY DEF Staged, Staging
<1>2. Key(s) \in Keys
  BY <1>1 DEF Jobs, Key
<1> QED
  BY <1>1, <1>2 DEF TypeOK, Contents, Journals, EntryOf, EntryRead

\* A handler that is over leaves well-typed servers.
LEMMA LeaveTypes ==
  ASSUME TypeOK, NEW s \in Servers, Leave(s) PROVE ServerTypes'
  BY EmptyType DEF TypeOK, ServerTypes, Leave, PCs

\* So does one that replies, and the reply is well-typed.
LEMMA ReplyTypes ==
  ASSUME TypeOK, NEW s \in Servers, NEW r \in Results, Reply(s, r) PROVE ServerTypes' /\ AnswerType'
<1>1. job[s] \in Jobs \cup {NoJob}
  BY DEF TypeOK
<1> QED
  BY <1>1, LeaveTypes DEF Reply, AnswerType

\* Counting one more at a key keeps a counter per key.
LEMMA Bumped ==
  ASSUME NEW f \in [Keys -> Nat], NEW k PROVE [f EXCEPT ![k] = @ + 1] \in [Keys -> Nat]
<1>1. CASE k \in Keys
  BY <1>1
<1>2. CASE k \notin Keys
  BY <1>2
<1> QED
  BY <1>1, <1>2

\* A commit writes well-formed content and bumps counters.
LEMMA CommitTypes ==
  ASSUME TypeOK, NEW s \in Servers, Commit(s) PROVE FileTypes'
<1>1. disk' \in Contents
  BY DEF Commit, TypeOK
<1>2. forgotten' \in [Keys -> Nat]
  BY DEF Commit, TypeOK
<1>3. barriers' \in [Keys -> Nat]
  <2>1. CASE barriers' = [barriers EXCEPT ![Key(s)] = @ + 1]
    BY <2>1, Bumped DEF TypeOK
  <2>2. CASE barriers' = barriers
    BY <2>2 DEF TypeOK
  <2> QED
    BY <2>1, <2>2 DEF Commit
<1>4. authorized' \in [Keys -> Nat]
  <2>1. CASE authorized' = [authorized EXCEPT ![Key(s)] = @ + 1]
    BY <2>1, Bumped DEF TypeOK
  <2>2. CASE authorized' = authorized
    BY <2>2 DEF TypeOK
  <2> QED
    BY <2>1, <2>2 DEF Commit
<1> QED
  BY <1>1, <1>2, <1>3, <1>4 DEF FileTypes

\* A step that changes one handler's position and what it has staged.
LEMMA StageTypes ==
  ASSUME TypeOK, NEW s \in Servers, NEW to \in PCs, Goto(s, to),
         NEW w \in Contents, work' = [work EXCEPT ![s] = w],
         UNCHANGED <<disk, job, base, token, sent, ghosts>>
  PROVE  TypeOK'
<1>1. answer' \in [job : Jobs \cup {NoJob}, result : Results]
  BY SilenceType DEF Goto
<1> QED
  BY <1>1 DEF TypeOK, Goto, ghosts

\* A step that ends a handler and leaves everything else alone.
LEMMA AnswerOnlyTypes ==
  ASSUME TypeOK, NEW s \in Servers, NEW r \in Results, Reply(s, r), UNCHANGED <<disk, sent, ghosts>>
  PROVE  TypeOK'
  BY ReplyTypes, TypeParts, TypePartsNext DEF FileTypes, ghosts

\* The results by name.
LEMMA ResultNames ==
  {"none", "ok", "rejected", "invalid", "conflict", "mismatch", "unresolved", "ambiguous",
   "uncertain", "error"} = Results
  BY DEF Results

\* Every step of the servers keeps the types.
LEMMA TypeStep == TypeOK /\ Staged /\ [Next]_vars => TypeOK'
<1> SUFFICES ASSUME TypeOK, Staged, [Next]_vars PROVE TypeOK'
    OBVIOUS
<1>a. ASSUME NEW s \in Servers, NEW r \in Results, Commit(s) \/ NotWritten(s), Reply(s, r), UNCHANGED sent
      PROVE  TypeOK'
  <2>1. FileTypes'
    BY <1>a, CommitTypes, TypeParts DEF NotWritten, ghosts, FileTypes
  <2> QED
    BY <1>a, <2>1, ReplyTypes, TypeParts, TypePartsNext
<1>1. ASSUME NEW s \in Servers, NEW k \in Keys, NEW r \in Reqs \cup Resolutions, Admit(s, k, r)
      PROVE  TypeOK'
  <2>1. [key |-> k, req |-> r] \in Jobs
    BY DEF Jobs
  <2>2. job' \in [Servers -> Jobs \cup {NoJob}] /\ base' \in [Servers -> Contents]
        /\ work' \in [Servers -> Contents] /\ pc' \in [Servers -> PCs]
    BY <1>1, <2>1 DEF Admit, TypeOK, Goto, PCs
  <2> QED
    BY <1>1, <2>2, SilenceType DEF Admit, TypeOK, Goto, ghosts
<1>2. ASSUME NEW s \in Servers, RefuseRoute(s) \/ AnswerFromJournal(s) \/ RefuseNew(s) PROVE TypeOK'
  <2>1. PICK r \in Results : Reply(s, r)
    BY <1>2, ResultNames DEF RefuseRoute, AnswerFromJournal, RefuseNew
  <2> QED
    BY <1>2, <2>1, AnswerOnlyTypes DEF RefuseRoute, AnswerFromJournal, RefuseNew
<1>3. ASSUME NEW s \in Servers, PrepareRetry(s) PROVE TypeOK'
  <2>1. pc[s] # "idle" /\ EntryOf(s) # NoEntry
    BY <1>3 DEF PrepareRetry, Deciding, NoEntry
  <2>2. [EntryOf(s) EXCEPT !.state = "pending", !.authorized = FALSE] \in Entry
    BY <2>1, Busy DEF Entry, EntryStates, Unresolved
  <2>3. WithEntry(s, [EntryOf(s) EXCEPT !.state = "pending", !.authorized = FALSE]) \in Contents
    BY <2>1, <2>2, Busy, WithEntryProperties
  <2> QED
    BY <1>3, <2>3, StageTypes DEF PrepareRetry, PCs
<1>4. ASSUME NEW s \in Servers, PrepareLive(s) PROVE TypeOK'
  <2>1. pc[s] # "idle" /\ Req(s) \in Reqs
    BY <1>4 DEF PrepareLive, Deciding
  <2>2. work[s].journal \in Journals /\ NewEntry(Req(s), "pending") \in Entry /\ Key(s) \in Keys
    BY <2>1, Busy, NewEntryType DEF Contents, EntryStates, Unresolved
  <2>3. PICK j \in Appended(work[s].journal, Key(s), NewEntry(Req(s), "pending")) :
            work' = [work EXCEPT ![s].journal = j]
    BY <1>4 DEF PrepareLive
  <2>4. j \in Journals
    BY <2>2, <2>3, AppendedProperties
  <2>5. [work[s] EXCEPT !.journal = j] \in Contents
    BY <2>1, <2>4, Busy DEF Contents
  <2>6. work' = [work EXCEPT ![s] = [work[s] EXCEPT !.journal = j]]
    BY <2>3 DEF TypeOK
  <2> QED
    BY <1>4, <2>5, <2>6, StageTypes DEF PrepareLive, PCs
<1>5. ASSUME NEW s \in Servers, ApplyLocal(s) PROVE TypeOK'
  <2>1. pc[s] # "idle" /\ Req(s) \in Reqs
    BY <1>5 DEF ApplyLocal, Deciding
  <2>2. work[s].journal \in Journals /\ NewEntry(Req(s), "completed") \in Entry /\ Key(s) \in Keys
    BY <2>1, Busy, NewEntryType DEF Contents, EntryStates, Terminal
  <2>3. PICK j \in Appended(work[s].journal, Key(s), NewEntry(Req(s), "completed")) :
            work' = [work EXCEPT ![s] =
                       [journal |-> j, effects |-> [work[s].effects EXCEPT ![Key(s)] = @ + 1]]]
    BY <1>5 DEF ApplyLocal
  <2>4. j \in Journals
    BY <2>2, <2>3, AppendedProperties
  <2>5. [journal |-> j, effects |-> [work[s].effects EXCEPT ![Key(s)] = @ + 1]] \in Contents
    BY <2>1, <2>2, <2>4, Busy DEF Contents
  <2> QED
    <3>1. Goto(s, "committing") /\ UNCHANGED <<disk, job, base, token, sent, ghosts>> /\ "committing" \in PCs
      BY <1>5 DEF ApplyLocal, PCs
    <3> QED
      BY <2>3, <2>5, <3>1, StageTypes
<1>6. ASSUME NEW s \in Servers, SaveBarrier(s) PROVE TypeOK'
  <2>1. FileTypes'
    BY <1>6, CommitTypes DEF SaveBarrier
  <2>2. pc[s] # "idle"
    BY <1>6 DEF SaveBarrier
  <2>3. barriers'[Key(s)] \in Nat /\ work[s] \in Contents
    BY <2>1, <2>2, Busy DEF FileTypes
  <2>4. ServerTypes'
    BY <1>6, <2>3, TypeParts DEF SaveBarrier, ServerTypes, Goto, PCs
  <2>5. AnswerType'
    BY <1>6, SilenceType DEF SaveBarrier, Goto, AnswerType
  <2> QED
    BY <1>6, <2>1, <2>4, <2>5, TypeParts, TypePartsNext DEF SaveBarrier
<1>7. ASSUME NEW s \in Servers,
             \/ BarrierFails(s) \/ SaveLocal(s) \/ SaveDisposition(s)
             \/ DispositionFails(s) \/ SaveReconciled(s)
      PROVE  TypeOK'
  <2>1. pc[s] = "recording" => EntryOf(s).state \in {"completed", "rejected", "ambiguous"}
    BY DEF Staged, Staging
  <2>2. SaveDisposition(s) => \E r \in Results : Reply(s, r)
    BY <2>1, ResultNames DEF SaveDisposition
  <2>3. PICK r \in Results : Reply(s, r)
    BY <1>7, <2>2, ResultNames DEF BarrierFails, SaveLocal, DispositionFails, SaveReconciled
  <2> QED
    BY <1>7, <1>a, <2>3 DEF BarrierFails, SaveLocal, SaveDisposition, DispositionFails, SaveReconciled
<1>8. ASSUME NEW s \in Servers, Dispatch(s) PROVE TypeOK'
  <2>1. token[s] \in Nat
    BY DEF TypeOK
  <2>2. sent' \in [Keys -> SUBSET Nat]
    BY <1>8, <2>1 DEF Dispatch, TypeOK
  <2> QED
    BY <1>8, <2>2, SilenceType DEF Dispatch, Goto, TypeOK, locals, ghosts, PCs
<1>9. ASSUME NEW s \in Servers, RejectBeforeDispatch(s) \/ OutcomeUnknown(s) \/ DispatchReturns(s)
      PROVE  TypeOK'
  <2>1. pc[s] \in {"armed", "calling"}
    BY <1>9 DEF RejectBeforeDispatch, OutcomeUnknown, DispatchReturns
  <2>2. EntryOf(s) \in Entry
    BY <2>1, Busy DEF Staged, Staging, NoEntry
  <2>3. PICK e \in Entry : Outcome(s, e)
    BY <1>9, <2>2 DEF RejectBeforeDispatch, OutcomeUnknown, DispatchReturns,
                      Entry, EntryStates, Terminal, Unresolved, Codes
  <2>4. WithEntry(s, e) \in Contents
    BY <2>1, <2>3, Busy, WithEntryProperties
  <2> QED
    BY <2>3, <2>4, StageTypes DEF Outcome, PCs
<1>10. ASSUME NEW s \in Servers, Reconcile(s) PROVE TypeOK'
  <2>1. CASE Reply(s, "invalid")
    BY <1>10, <2>1, ResultNames, AnswerOnlyTypes DEF Reconcile
  <2>2. CASE ~Reply(s, "invalid")
    <3>1. /\ EntryOf(s) # NoEntry /\ Req(s) \in Resolutions /\ pc[s] # "idle"
          /\ work' = [work EXCEPT ![s] = WithEntry(s, Reconciled(EntryOf(s), Req(s)))]
          /\ Goto(s, "reconciling") /\ UNCHANGED <<disk, job, base, token, sent, ghosts>>
      BY <1>10, <2>2 DEF Reconcile
    <3>2. WithEntry(s, Reconciled(EntryOf(s), Req(s))) \in Contents
      BY <3>1, Busy, ReconciledProperties, WithEntryProperties
    <3> QED
      BY <3>1, <3>2, StageTypes DEF PCs
  <2> QED
    BY <2>1, <2>2
<1>11. ASSUME NEW s \in Servers, Crash(s) PROVE TypeOK'
  <2>1. ServerTypes' /\ AnswerType'
    BY <1>11, LeaveTypes, SilenceType DEF Crash, AnswerType
  <2> QED
    BY <1>11, <2>1, TypeParts, TypePartsNext DEF Crash, FileTypes, ghosts
<1>12. CASE UNCHANGED vars
    BY <1>12 DEF vars, TypeOK, locals, ghosts
<1> QED
    BY <1>1, <1>2, <1>3, <1>4, <1>5, <1>6, <1>7, <1>8, <1>9, <1>10, <1>11, <1>12
       DEF Next, Handle, Submit, SubmitReconcile

-----------------------------------------------------------------------------
(* What the handlers stage.                                                *)

StepOf(s) ==
    \/ Handle(s) \/ Crash(s)
    \/ \E k \in Keys, r \in Reqs : Submit(s, k, r)
    \/ \E k \in Keys, resolution \in Resolutions : SubmitReconcile(s, k, resolution)

\* A step of one handler leaves the locals of the others alone.
LEMMA Bystanders ==
  ASSUME TypeOK, NEW s \in Servers, StepOf(s), NEW t \in Servers \ {s}
  PROVE  pc'[t] = pc[t] /\ job'[t] = job[t] /\ base'[t] = base[t] /\ work'[t] = work[t] /\ token'[t] = token[t]
<1>1. ASSUME NEW r, Reply(s, r) \/ Leave(s)
      PROVE  pc'[t] = pc[t] /\ job'[t] = job[t] /\ base'[t] = base[t] /\ work'[t] = work[t] /\ token'[t] = token[t]
  BY <1>1 DEF Reply, Leave, TypeOK
<1>2. CASE \E k \in Keys, r \in Reqs \cup Resolutions : Admit(s, k, r)
  BY <1>2 DEF Admit, Goto, TypeOK
<1>3. CASE PrepareRetry(s) \/ PrepareLive(s) \/ ApplyLocal(s)
  BY <1>3 DEF PrepareRetry, PrepareLive, ApplyLocal, Goto, TypeOK
<1>4. CASE SaveBarrier(s) \/ Dispatch(s)
  BY <1>4 DEF SaveBarrier, Dispatch, Goto, TypeOK, locals
<1>5. CASE RejectBeforeDispatch(s) \/ OutcomeUnknown(s) \/ DispatchReturns(s)
  BY <1>5 DEF RejectBeforeDispatch, OutcomeUnknown, DispatchReturns, Outcome, Goto, TypeOK
<1>6. CASE Reconcile(s)
  BY <1>6, <1>1 DEF Reconcile, Goto, TypeOK
<1>7. CASE \/ RefuseRoute(s) \/ AnswerFromJournal(s) \/ RefuseNew(s) \/ BarrierFails(s) \/ SaveLocal(s)
           \/ SaveDisposition(s) \/ DispositionFails(s) \/ SaveReconciled(s) \/ Crash(s)
  BY <1>7, <1>1 DEF RefuseRoute, AnswerFromJournal, RefuseNew, BarrierFails, SaveLocal,
                    SaveDisposition, DispositionFails, SaveReconciled, Crash
<1> QED
  BY <1>2, <1>3, <1>4, <1>5, <1>6, <1>7 DEF StepOf, Handle, Submit, SubmitReconcile

\* Staging speaks of a handler's own locals only.
LEMMA StagingKept ==
  ASSUME NEW t \in Servers, Staging(t),
         pc'[t] = pc[t], job'[t] = job[t], base'[t] = base[t], work'[t] = work[t]
  PROVE  Staging(t)'
  BY DEF Staging, OthersKept, EntryRead, EntryOf, Key, Req

\* Putting an entry at the own key over what was read.
LEMMA OwnKey ==
  ASSUME TypeOK, Staged, NEW s \in Servers, pc[s] # "idle", work[s] = base[s], NEW e \in Entry,
         work' = [work EXCEPT ![s] = WithEntry(s, e)], UNCHANGED <<job, base>>
  PROVE  /\ OthersKept(s)' /\ job'[s] \in Jobs /\ Key(s)' = Key(s) /\ Req(s)' = Req(s)
         /\ EntryOf(s)' = e /\ EntryRead(s)' = EntryOf(s)
<1>1. job[s] \in Jobs /\ Key(s) \in Keys /\ work[s] \in Contents
  BY Busy
<1>2. work'[s] = WithEntry(s, e)
  BY DEF TypeOK
<1>3. Key(s)' = Key(s) /\ Req(s)' = Req(s) /\ job'[s] \in Jobs
  BY <1>1 DEF Key, Req
<1> QED
  BY <1>1, <1>2, <1>3, WithEntryProperties DEF OthersKept, EntryOf, EntryRead

\* A handler that left stages nothing.
LEMMA LeftStages ==
  ASSUME TypeOK, NEW s \in Servers, Leave(s) PROVE Staging(s)'
<1>1. pc'[s] = "idle"
  BY DEF Leave, TypeOK
<1> QED
  BY <1>1 DEF Staging, Saving

\* What every step of a handler stages of its own.
LEMMA StageOwn ==
  ASSUME TypeOK, Staged, NEW s \in Servers, StepOf(s) PROVE Staging(s)'
<1>0. Staging(s)
  BY DEF Staged
<1>1. ASSUME NEW k \in Keys, NEW r \in Reqs \cup Resolutions, Admit(s, k, r) PROVE Staging(s)'
  <2>1. pc'[s] = "deciding" /\ job'[s] = [key |-> k, req |-> r] /\ work'[s] = base'[s]
    BY <1>1 DEF Admit, Goto, TypeOK
  <2> QED
    BY <2>1 DEF Staging, Jobs, Saving
<1>2. CASE PrepareRetry(s)
  <2> DEFINE e == [EntryOf(s) EXCEPT !.state = "pending", !.authorized = FALSE]
  <2>1. pc[s] = "deciding" /\ Req(s) \in Reqs /\ EntryOf(s).req = Req(s)
        /\ EntryOf(s).state = "retryable" /\ UNCHANGED <<job, base>>
        /\ work' = [work EXCEPT ![s] = WithEntry(s, e)]
    BY <1>2 DEF PrepareRetry, Deciding
  <2>2. EntryOf(s) \in Entry
    BY <2>1, Busy DEF NoEntry
  <2>3. e \in Entry /\ e.state = "pending" /\ e.req = Req(s)
    BY <2>1, <2>2 DEF Entry, EntryStates, Unresolved
  <2>4. pc'[s] = "barrier"
    BY <1>2 DEF PrepareRetry, Goto, TypeOK
  <2>5. work[s] = base[s]
    BY <1>0, <2>1 DEF Staging
  <2> HIDE DEF e
  <2>6. /\ OthersKept(s)' /\ job'[s] \in Jobs /\ Req(s)' = Req(s)
        /\ EntryOf(s)' = e /\ EntryRead(s)' = EntryOf(s)
    BY <2>1, <2>3, <2>5, OwnKey
  <2> QED
    BY <2>1, <2>3, <2>4, <2>6 DEF Staging, Due, Saving
<1>3. CASE PrepareLive(s)
  <2>1. pc[s] = "deciding" /\ Req(s) \in Reqs /\ EntryOf(s) = NoEntry /\ UNCHANGED <<job, base>>
    BY <1>3 DEF PrepareLive, Deciding
  <2>2. /\ work[s] \in Contents /\ work[s] = base[s] /\ Key(s) \in Keys /\ job[s] \in Jobs
        /\ NewEntry(Req(s), "pending") \in Entry
    BY <1>0, <2>1, Busy, NewEntryType DEF Staging, EntryStates, Unresolved
  <2>3. PICK j \in Appended(work[s].journal, Key(s), NewEntry(Req(s), "pending")) :
            work' = [work EXCEPT ![s].journal = j]
    BY <1>3 DEF PrepareLive
  <2>4. work'[s].journal = j /\ work'[s].effects = work[s].effects
    BY <2>2, <2>3 DEF TypeOK, Contents
  <2>5. /\ j[Key(s)] = NewEntry(Req(s), "pending")
        /\ \A x \in Keys \ {Key(s)} :
              j[x] = work[s].journal[x] \/ (Removable(work[s].journal[x]) /\ j[x] = NoEntry)
    BY <2>2, <2>3, AppendedProperties DEF Contents
  <2>6. pc'[s] = "barrier"
    BY <1>3 DEF PrepareLive, Goto, TypeOK
  <2>7. OthersKept(s)'
    BY <2>1, <2>2, <2>4, <2>5 DEF OthersKept, Key
  <2>8. EntryRead(s)' = NoEntry /\ EntryOf(s)' = NewEntry(Req(s), "pending")
    BY <2>1, <2>2, <2>4, <2>5 DEF EntryRead, EntryOf, Key
  <2>9. job'[s] \in Jobs /\ Req(s)' = Req(s)
    BY <2>1, <2>2 DEF Req
  <2> QED
    BY <2>1, <2>6, <2>7, <2>8, <2>9 DEF Staging, Due, NewEntry, Saving
<1>4. CASE ApplyLocal(s)
  <2>1. pc[s] = "deciding" /\ Req(s) \in Reqs /\ EntryOf(s) = NoEntry /\ UNCHANGED <<job, base>>
    BY <1>4 DEF ApplyLocal, Deciding
  <2>2. /\ work[s] \in Contents /\ work[s] = base[s] /\ Key(s) \in Keys /\ job[s] \in Jobs
        /\ NewEntry(Req(s), "completed") \in Entry
    BY <1>0, <2>1, Busy, NewEntryType DEF Staging, EntryStates, Terminal
  <2>3. PICK j \in Appended(work[s].journal, Key(s), NewEntry(Req(s), "completed")) :
            work' = [work EXCEPT ![s] =
                       [journal |-> j, effects |-> [work[s].effects EXCEPT ![Key(s)] = @ + 1]]]
    BY <1>4 DEF ApplyLocal
  <2>4. work'[s].journal = j /\ work'[s].effects = [work[s].effects EXCEPT ![Key(s)] = @ + 1]
    BY <2>2, <2>3 DEF TypeOK
  <2>5. /\ j[Key(s)] = NewEntry(Req(s), "completed")
        /\ \A x \in Keys \ {Key(s)} :
              j[x] = work[s].journal[x] \/ (Removable(work[s].journal[x]) /\ j[x] = NoEntry)
    BY <2>2, <2>3, AppendedProperties DEF Contents
  <2>6. pc'[s] = "committing" /\ Key(s)' = Key(s)
    BY <1>4, <2>1 DEF ApplyLocal, Goto, TypeOK, Key
  <2>7. /\ work'[s].effects[Key(s)] = base[s].effects[Key(s)] + 1
        /\ \A x \in Keys \ {Key(s)} : work'[s].effects[x] = base[s].effects[x]
    BY <2>2, <2>4 DEF Contents
  <2>8. OthersKept(s)'
    BY <2>1, <2>2, <2>4, <2>5, <2>6, <2>7 DEF OthersKept
  <2>9. EntryRead(s)' = NoEntry /\ EntryOf(s)' = NewEntry(Req(s), "completed")
    BY <2>1, <2>2, <2>4, <2>5 DEF EntryRead, EntryOf, Key
  <2>10. job'[s] \in Jobs /\ Req(s)' = Req(s)
    BY <2>1, <2>2 DEF Req
  <2> QED
    BY <2>1, <2>6, <2>7, <2>8, <2>9, <2>10 DEF Staging, NewEntry, Saving
<1>5. CASE SaveBarrier(s)
  <2>1. pc[s] = "barrier" /\ pc'[s] = "armed" /\ base'[s] = work[s] /\ UNCHANGED <<job, work>>
    BY <1>5 DEF SaveBarrier, Goto, TypeOK
  <2> QED
    BY <1>0, <2>1 DEF Staging, EntryOf, Key, Req, Saving
<1>6. CASE Dispatch(s)
  <2>1. pc[s] = "armed" /\ pc'[s] = "calling" /\ UNCHANGED <<job, work, base>>
    BY <1>6 DEF Dispatch, Goto, TypeOK, locals
  <2> QED
    BY <1>0, <2>1 DEF Staging, EntryOf, Key, Req, Saving
<1>7. CASE RejectBeforeDispatch(s) \/ OutcomeUnknown(s) \/ DispatchReturns(s)
  <2>1. pc[s] \in {"armed", "calling"}
    BY <1>7 DEF RejectBeforeDispatch, OutcomeUnknown, DispatchReturns
  <2>2. EntryOf(s) \in Entry /\ work[s] = base[s] /\ EntryOf(s).state = "pending"
        /\ EntryOf(s).req = Req(s) /\ Req(s) \in Reqs
    BY <1>0, <2>1, Busy DEF Staging, NoEntry
  <2>3. PICK e \in Entry : /\ Outcome(s, e) /\ e.req = Req(s)
                           /\ e.state \in {"completed", "rejected", "ambiguous"}
    <3> DEFINE refused   == [EntryOf(s) EXCEPT !.state = "rejected", !.code = "validation"]
               unknown   == [EntryOf(s) EXCEPT !.state = "ambiguous"]
               completed == [EntryOf(s) EXCEPT !.state = "completed"]
    <3>1. Outcome(s, refused) \/ Outcome(s, unknown) \/ Outcome(s, completed)
      BY <1>7 DEF RejectBeforeDispatch, OutcomeUnknown, DispatchReturns
    <3>2. refused \in Entry /\ refused.req = Req(s) /\ refused.state = "rejected"
      BY <2>2 DEF Entry, EntryStates, Terminal, Unresolved, Codes
    <3>3. unknown \in Entry /\ unknown.req = Req(s) /\ unknown.state = "ambiguous"
      BY <2>2 DEF Entry, EntryStates, Terminal, Unresolved
    <3>4. completed \in Entry /\ completed.req = Req(s) /\ completed.state = "completed"
      BY <2>2 DEF Entry, EntryStates, Terminal, Unresolved
    <3> HIDE DEF refused, unknown, completed
    <3> QED
      BY <3>1, <3>2, <3>3, <3>4
  <2>4. pc'[s] = "recording" /\ UNCHANGED <<job, base>>
        /\ work' = [work EXCEPT ![s] = WithEntry(s, e)]
    BY <2>3 DEF Outcome, Goto, TypeOK
  <2>5. /\ OthersKept(s)' /\ job'[s] \in Jobs /\ Req(s)' = Req(s)
        /\ EntryOf(s)' = e /\ EntryRead(s)' = EntryOf(s)
    BY <2>1, <2>2, <2>4, OwnKey
  <2> QED
    BY <2>2, <2>3, <2>4, <2>5 DEF Staging, Saving
<1>8. CASE Reconcile(s)
  <2>1. CASE Reply(s, "invalid")
    BY <2>1, LeftStages DEF Reply
  <2>2. CASE ~Reply(s, "invalid")
    <3> DEFINE e == Reconciled(EntryOf(s), Req(s))
    <3>1. /\ EntryOf(s) # NoEntry /\ Reconcilable(EntryOf(s)) /\ Req(s) \in Resolutions
          /\ pc[s] = "deciding" /\ Goto(s, "reconciling") /\ UNCHANGED <<job, base>>
          /\ work' = [work EXCEPT ![s] = WithEntry(s, e)]
      BY <1>8, <2>2 DEF Reconcile
    <3>2. /\ EntryOf(s) \in Entry /\ work[s] = base[s] /\ pc'[s] = "reconciling"
          /\ EntryOf(s).state \in Unresolved
      BY <1>0, <3>1, Busy DEF Staging, Goto, TypeOK, Reconcilable
    <3>3. e \in Entry /\ e.state \in {"completed", "retryable", "rejected"}
      BY <3>1, <3>2, ReconciledProperties
    <3> HIDE DEF e
    <3>4. /\ OthersKept(s)' /\ job'[s] \in Jobs /\ Req(s)' = Req(s)
          /\ EntryOf(s)' = e /\ EntryRead(s)' = EntryOf(s)
      BY <3>1, <3>2, <3>3, OwnKey
    <3> QED
      BY <3>1, <3>2, <3>3, <3>4 DEF Staging, Saving
  <2> QED
    BY <2>1, <2>2
<1>9. CASE \/ RefuseRoute(s) \/ AnswerFromJournal(s) \/ RefuseNew(s) \/ BarrierFails(s) \/ SaveLocal(s)
           \/ SaveDisposition(s) \/ DispositionFails(s) \/ SaveReconciled(s) \/ Crash(s)
  <2>1. Leave(s)
    BY <1>9 DEF RefuseRoute, AnswerFromJournal, RefuseNew, BarrierFails, SaveLocal,
                SaveDisposition, DispositionFails, SaveReconciled, Crash, Reply
  <2> QED
    BY <2>1, LeftStages
<1> QED
  BY <1>1, <1>2, <1>3, <1>4, <1>5, <1>6, <1>7, <1>8, <1>9 DEF StepOf, Handle, Submit, SubmitReconcile

\* Every step keeps what every handler has staged.
LEMMA StageStep == TypeOK /\ Staged /\ [Next]_vars => Staged'
<1> SUFFICES ASSUME TypeOK, Staged, [Next]_vars PROVE Staged'
    OBVIOUS
<1>1. ASSUME NEW s \in Servers, StepOf(s) PROVE Staged'
  <2>1. ASSUME NEW t \in Servers PROVE Staging(t)'
    BY <1>1, <2>1, StageOwn, Bystanders, StagingKept DEF Staged
  <2> QED
    BY <2>1 DEF Staged
<1>2. CASE UNCHANGED vars
  <2>1. ASSUME NEW t \in Servers PROVE Staging(t)'
    <3>1. pc'[t] = pc[t] /\ job'[t] = job[t] /\ base'[t] = base[t] /\ work'[t] = work[t]
      BY <1>2 DEF vars, locals
    <3> QED
      BY <3>1, StagingKept DEF Staged
  <2> QED
    BY <2>1 DEF Staged
<1> QED
  BY <1>1, <1>2 DEF Next, StepOf

-----------------------------------------------------------------------------
(* What a save does to the journal.                                        *)

\* At its own key a save replaces no outcome, and leaves an entry.
LEMMA OwnEntry ==
  ASSUME TypeOK, Staged, NEW s \in Servers, pc[s] \in Saving
  PROVE  /\ Key(s) \in Keys /\ OthersKept(s)
         /\ EntryOf(s) # NoEntry /\ EntryRead(s).state \notin Terminal
<1>1. Staging(s) /\ Key(s) \in Keys
  BY Busy DEF Staged, Saving
<1> QED
  BY <1>1 DEF Staging, Saving, NoEntry, Due, Terminal, Unresolved

\* A save keeps every entry that is not an outcome, and every outcome it
\* does not evict.
LEMMA CommitKeeps ==
  ASSUME TypeOK, Staged, NEW s \in Servers, pc[s] \in Saving, Commit(s), NEW k \in Keys
  PROVE  /\ disk.journal[k].state \in Unresolved \cup {"retryable"} => disk'.journal[k] # NoEntry
         /\ disk.journal[k].state \in Terminal => disk'.journal[k] \in {disk.journal[k], NoEntry}
         /\ forgotten'[k] = IF disk.journal[k] # NoEntry /\ disk'.journal[k] = NoEntry
                           THEN forgotten[k] + 1 ELSE forgotten[k]
<1>1. base[s] = disk /\ disk' = work[s]
  BY DEF Commit
<1>2. forgotten'[k] = IF disk.journal[k] # NoEntry /\ work[s].journal[k] = NoEntry
                      THEN forgotten[k] + 1 ELSE forgotten[k]
  BY DEF Commit
<1>3. CASE k = Key(s)
  BY <1>1, <1>2, <1>3, OwnEntry DEF EntryOf, EntryRead
<1>4. CASE k # Key(s)
  <2>1. \/ work[s].journal[k] = disk.journal[k]
        \/ Removable(disk.journal[k]) /\ work[s].journal[k] = NoEntry
    BY <1>1, <1>4, OwnEntry DEF OthersKept
  <2> QED
    BY <1>1, <1>2, <2>1 DEF Removable, Terminal, Unresolved, NoEntry
<1> QED
  BY <1>3, <1>4

\* A save keeps the books of every key.
LEMMA CommitBalance ==
  ASSUME TypeOK, Staged, Balance, NEW s \in Servers, pc[s] \in Saving, Commit(s)
  PROVE  Balance'
<1> SUFFICES ASSUME NEW k \in Keys
             PROVE  barriers'[k] + disk'.effects[k] + (IF Due(disk'.journal[k]) THEN 1 ELSE 0)
                      = 1 + authorized'[k] + forgotten'[k]
    BY DEF Balance
<1> DEFINE before == IF Due(disk.journal[k]) THEN 1 ELSE 0
           after  == IF Due(disk'.journal[k]) THEN 1 ELSE 0
<1>1. base[s] = disk /\ disk' = work[s] /\ Key(s) \in Keys /\ Staging(s)
  BY OwnEntry DEF Commit, Staged
<1>2. /\ disk.effects[k] \in Nat /\ disk'.effects[k] \in Nat /\ barriers[k] \in Nat
      /\ authorized[k] \in Nat /\ forgotten[k] \in Nat
  BY <1>1 DEF TypeOK, Contents
<1>3. barriers[k] + disk.effects[k] + before = 1 + authorized[k] + forgotten[k]
  BY DEF Balance
<1>4. CASE k # Key(s)
  <2>1. barriers'[k] = barriers[k] /\ authorized'[k] = authorized[k]
    BY <1>4, <1>1 DEF Commit, TypeOK
  <2>2. disk'.effects[k] = disk.effects[k]
    BY <1>1, <1>4, OwnEntry DEF OthersKept
  <2>3. \/ disk'.journal[k] = disk.journal[k]
        \/ Removable(disk.journal[k]) /\ disk'.journal[k] = NoEntry
    BY <1>1, <1>4, OwnEntry DEF OthersKept
  <2>4. CASE disk'.journal[k] = disk.journal[k]
    <3>1. forgotten'[k] = forgotten[k] /\ after = before
      BY <2>4, CommitKeeps
    <3> QED
      BY <1>2, <1>3, <2>1, <2>2, <3>1
  <2>5. CASE Removable(disk.journal[k]) /\ disk'.journal[k] = NoEntry
    <3>1. disk.journal[k] # NoEntry /\ before = 0 /\ after = 1
      BY <2>5 DEF Removable, Terminal, NoEntry, Due
    <3>2. forgotten'[k] = forgotten[k] + 1
      BY <2>5, <3>1, CommitKeeps
    <3> HIDE DEF before, after
    <3>3. barriers'[k] + disk'.effects[k] + after = 1 + authorized'[k] + forgotten'[k]
      BY <1>2, <1>3, <2>1, <2>2, <3>1, <3>2
    <3> QED
      BY <3>3 DEF after
  <2> QED
    BY <2>3, <2>4, <2>5
<1>5. CASE k = Key(s)
  <2>1. disk.journal[k] = EntryRead(s) /\ disk'.journal[k] = EntryOf(s) /\ EntryOf(s) # NoEntry
    BY <1>1, <1>5, OwnEntry DEF EntryRead, EntryOf
  <2>2. forgotten'[k] = forgotten[k]
    BY <2>1, CommitKeeps
  <2>3. pc[s] # "committing" => disk'.effects[k] = disk.effects[k]
    BY <1>1, OwnEntry DEF OthersKept
  <2>4. CASE pc[s] = "barrier"
    <3>1. before = 1 /\ after = 0
      BY <1>1, <2>1, <2>4 DEF Staging, Due
    <3>2. barriers'[k] = barriers[k] + 1 /\ authorized'[k] = authorized[k]
      BY <1>5, <2>4 DEF Commit, TypeOK
    <3> HIDE DEF before, after
    <3>3. barriers'[k] + disk'.effects[k] + after = 1 + authorized'[k] + forgotten'[k]
      BY <1>2, <1>3, <2>2, <2>3, <2>4, <3>1, <3>2
    <3> QED
      BY <3>3 DEF after
  <2>5. CASE pc[s] = "committing"
    <3>1. before = 1 /\ after = 0 /\ disk'.effects[k] = disk.effects[k] + 1
      BY <1>1, <1>5, <2>1, <2>5 DEF Staging, Due
    <3>2. barriers'[k] = barriers[k] /\ authorized'[k] = authorized[k]
      BY <2>5 DEF Commit, TypeOK
    <3> HIDE DEF before, after
    <3>3. barriers'[k] + disk'.effects[k] + after = 1 + authorized'[k] + forgotten'[k]
      BY <1>2, <1>3, <2>2, <3>1, <3>2
    <3> QED
      BY <3>3 DEF after
  <2>6. CASE pc[s] = "recording"
    <3>1. before = 0 /\ after = 0
      BY <1>1, <2>1, <2>6 DEF Staging, Due, NoEntry
    <3>2. barriers'[k] = barriers[k] /\ authorized'[k] = authorized[k]
      BY <2>6 DEF Commit, TypeOK
    <3> HIDE DEF before, after
    <3>3. barriers'[k] + disk'.effects[k] + after = 1 + authorized'[k] + forgotten'[k]
      BY <1>2, <1>3, <2>2, <2>3, <2>6, <3>1, <3>2
    <3> QED
      BY <3>3 DEF after
  <2>7. CASE pc[s] = "reconciling"
    <3>1. before = 0 /\ after = IF EntryOf(s).state = "retryable" THEN 1 ELSE 0
      BY <1>1, <2>1, <2>7 DEF Staging, Due, NoEntry, Unresolved
    <3>2. barriers'[k] = barriers[k]
      BY <2>7 DEF Commit, TypeOK
    <3>3. authorized'[k] = authorized[k] + after
      BY <1>2, <1>5, <2>7, <3>1 DEF Commit, TypeOK
    <3> HIDE DEF before, after
    <3>4. barriers'[k] + disk'.effects[k] + after = 1 + authorized'[k] + forgotten'[k]
      BY <1>2, <1>3, <2>2, <2>3, <2>7, <3>1, <3>2, <3>3
    <3> QED
      BY <3>4 DEF after
  <2> QED
    BY <2>4, <2>5, <2>6, <2>7 DEF Saving
<1> QED
  BY <1>4, <1>5

-----------------------------------------------------------------------------
(* What the steps keep.                                                    *)

SavingStep(s) == pc[s] \in Saving /\ Commit(s) /\ UNCHANGED sent

\* A step either commits a save or leaves the file and the books alone.
LEMMA CommitOrNot ==
  ASSUME TypeOK, NEW s \in Servers, StepOf(s)
  PROVE  SavingStep(s) \/ (UNCHANGED <<disk, ghosts>> /\ (UNCHANGED sent \/ Dispatch(s)))
<1>1. CASE \/ SaveBarrier(s) \/ BarrierFails(s) \/ SaveLocal(s)
           \/ SaveDisposition(s) \/ DispositionFails(s) \/ SaveReconciled(s)
  BY <1>1 DEF SavingStep, Saving, SaveBarrier, BarrierFails, SaveLocal, SaveDisposition, DispositionFails,
              SaveReconciled, NotWritten
<1>2. CASE RefuseRoute(s) \/ AnswerFromJournal(s) \/ RefuseNew(s) \/ Crash(s) \/ Reconcile(s)
  BY <1>2 DEF RefuseRoute, AnswerFromJournal, RefuseNew, Crash, Reconcile
<1>3. CASE PrepareRetry(s) \/ PrepareLive(s) \/ ApplyLocal(s)
  BY <1>3 DEF PrepareRetry, PrepareLive, ApplyLocal
<1>4. CASE RejectBeforeDispatch(s) \/ OutcomeUnknown(s) \/ DispatchReturns(s) \/ Dispatch(s)
  BY <1>4 DEF RejectBeforeDispatch, OutcomeUnknown, DispatchReturns, Outcome, Dispatch
<1>5. CASE \E k \in Keys, r \in Reqs \cup Resolutions : Admit(s, k, r)
  BY <1>5 DEF Admit
<1> QED
  BY <1>1, <1>2, <1>3, <1>4, <1>5 DEF StepOf, Handle, Submit, SubmitReconcile

\* Every step keeps the books of every key.
LEMMA BalanceStep == TypeOK /\ Staged /\ Balance /\ [Next]_vars => Balance'
<1> SUFFICES ASSUME TypeOK, Staged, Balance, [Next]_vars PROVE Balance'
    OBVIOUS
<1>1. ASSUME NEW s \in Servers, SavingStep(s) PROVE Balance'
  BY <1>1, CommitBalance DEF SavingStep
<1>2. CASE UNCHANGED <<disk, ghosts>>
  BY <1>2 DEF Balance, ghosts
<1> QED
  BY <1>1, <1>2, CommitOrNot DEF Next, StepOf, vars

\* One save more: the barrier counters only grow, and by one.
LEMMA CommitBarriers ==
  ASSUME TypeOK, Staged, NEW s \in Servers, pc[s] \in Saving, Commit(s), NEW k \in Keys
  PROVE  /\ barriers[k] \in Nat /\ barriers'[k] \in Nat /\ barriers'[k] >= barriers[k]
         /\ pc[s] = "barrier" /\ k = Key(s) => barriers'[k] = barriers[k] + 1
<1>1. barriers[k] \in Nat
  BY DEF TypeOK
<1>2. CASE pc[s] = "barrier"
  BY <1>1, <1>2 DEF Commit, TypeOK
<1>3. CASE pc[s] # "barrier"
  BY <1>1, <1>3 DEF Commit
<1> QED
  BY <1>2, <1>3

\* Steps that arm nobody and send nothing keep the attempts fresh.
LEMMA QuietStep ==
  ASSUME TypeOK, Staged, Counted, DispatchesAreFresh, UNCHANGED sent,
         \A k \in Keys : barriers'[k] \in Nat /\ barriers'[k] >= barriers[k],
         \A t \in Servers : pc'[t] = "armed" =>
            pc[t] = "armed" /\ token'[t] = token[t] /\ Key(t)' = Key(t)
  PROVE  Counted' /\ DispatchesAreFresh'
<1>1. \A t \in Servers : pc[t] = "armed" => Key(t) \in Keys
  BY Busy
<1>2. \A k \in Keys : barriers[k] \in Nat /\ barriers'[k] \in Nat /\ barriers'[k] >= barriers[k]
  BY DEF TypeOK
<1>3. Counted'
  BY <1>1, <1>2 DEF Counted
<1>4. \A k \in Keys : sent'[k] \subseteq 1..barriers'[k]
  BY <1>2 DEF DispatchesAreFresh
<1> QED
  BY <1>1, <1>3, <1>4 DEF DispatchesAreFresh

\* A handler's steps other than SaveBarrier arm nobody.
LEMMA ArmsNobody ==
  ASSUME TypeOK, NEW s \in Servers, StepOf(s), ~SaveBarrier(s), NEW t \in Servers, pc'[t] = "armed"
  PROVE  pc[t] = "armed" /\ token'[t] = token[t] /\ Key(t)' = Key(t) /\ t # s
<1>1. CASE t = s
  <2>1. ASSUME Leave(s) PROVE FALSE
    BY <1>1, <2>1 DEF Leave, TypeOK
  <2>2. ASSUME NEW to, to # "armed", Goto(s, to) PROVE FALSE
    BY <1>1, <2>2 DEF Goto, TypeOK
  <2>3. CASE \/ RefuseRoute(s) \/ AnswerFromJournal(s) \/ RefuseNew(s) \/ BarrierFails(s) \/ SaveLocal(s)
             \/ SaveDisposition(s) \/ DispositionFails(s) \/ SaveReconciled(s) \/ Crash(s)
    BY <2>1, <2>3 DEF RefuseRoute, AnswerFromJournal, RefuseNew, BarrierFails, SaveLocal,
                      SaveDisposition, DispositionFails, SaveReconciled, Crash, Reply
  <2>4. CASE \/ PrepareRetry(s) \/ PrepareLive(s) \/ ApplyLocal(s) \/ Dispatch(s)
             \/ \E k \in Keys, r \in Reqs \cup Resolutions : Admit(s, k, r)
    BY <2>2, <2>4 DEF PrepareRetry, PrepareLive, ApplyLocal, Dispatch, Admit
  <2>5. CASE RejectBeforeDispatch(s) \/ OutcomeUnknown(s) \/ DispatchReturns(s)
    BY <2>2, <2>5 DEF RejectBeforeDispatch, OutcomeUnknown, DispatchReturns, Outcome
  <2>6. CASE Reconcile(s)
    BY <2>1, <2>2, <2>6 DEF Reconcile, Reply
  <2> QED
    BY <2>3, <2>4, <2>5, <2>6 DEF StepOf, Handle, Submit, SubmitReconcile
<1>2. CASE t # s
  BY <1>2, Bystanders DEF Key
<1> QED
  BY <1>1, <1>2

\* Every step keeps the attempts in hand counted, unsent and distinct.
LEMMA FreshStep ==
  TypeOK /\ Staged /\ Counted /\ DispatchesAreFresh /\ [Next]_vars => Counted' /\ DispatchesAreFresh'
<1> SUFFICES ASSUME TypeOK, Staged, Counted, DispatchesAreFresh, [Next]_vars
             PROVE  Counted' /\ DispatchesAreFresh'
    OBVIOUS
<1>0. \A k \in Keys : barriers[k] \in Nat
  BY DEF TypeOK
<1>1. ASSUME NEW s \in Servers, StepOf(s), ~SaveBarrier(s), ~Dispatch(s)
      PROVE  Counted' /\ DispatchesAreFresh'
  <2>1. UNCHANGED sent
    BY <1>1, CommitOrNot DEF SavingStep
  <2>2. \A k \in Keys : barriers'[k] \in Nat /\ barriers'[k] >= barriers[k]
    <3>1. CASE SavingStep(s)
      BY <3>1, CommitBarriers DEF SavingStep
    <3>2. CASE UNCHANGED ghosts
      BY <1>0, <3>2 DEF ghosts
    <3> QED
      BY <1>1, <3>1, <3>2, CommitOrNot
  <2>3. \A t \in Servers : pc'[t] = "armed" =>
           pc[t] = "armed" /\ token'[t] = token[t] /\ Key(t)' = Key(t)
    BY <1>1, ArmsNobody
  <2> QED
    BY <2>1, <2>2, <2>3, QuietStep
<1>2. ASSUME NEW s \in Servers, SaveBarrier(s) PROVE Counted' /\ DispatchesAreFresh'
  <2>1. pc[s] = "barrier" /\ Commit(s) /\ pc[s] \in Saving /\ StepOf(s)
    BY <1>2 DEF SaveBarrier, Saving, StepOf, Handle
  <2>2. Key(s) \in Keys /\ Key(s)' = Key(s) /\ UNCHANGED sent
    BY <1>2, <2>1, Busy DEF SaveBarrier, Key
  <2>3. \A k \in Keys : barriers'[k] \in Nat /\ barriers'[k] >= barriers[k]
    BY <2>1, CommitBarriers
  <2>4. token'[s] = barriers[Key(s)] + 1 /\ barriers'[Key(s)] = barriers[Key(s)] + 1
    BY <1>2, <2>1, <2>2, CommitBarriers DEF SaveBarrier, TypeOK
  <2>5. \A t \in Servers \ {s} : pc'[t] = pc[t] /\ token'[t] = token[t] /\ Key(t)' = Key(t)
    BY <2>1, Bystanders DEF Key
  <2>6. \A t \in Servers : pc[t] = "armed" => Key(t) \in Keys
    BY Busy
  <2>7. \A k \in Keys : sent'[k] \subseteq 1..barriers[k] /\ sent'[k] \subseteq 1..barriers'[k]
    BY <1>0, <2>2, <2>3 DEF DispatchesAreFresh
  <2>8. \A t \in Servers \ {s} : pc'[t] = "armed" =>
           token'[t] \in 1..barriers[Key(t)] /\ token'[t] \notin sent'[Key(t)] /\ Key(t) \in Keys
    BY <2>2, <2>5, <2>6 DEF Counted, DispatchesAreFresh
  <2>9. token'[s] \in 1..barriers'[Key(s)] /\ token'[s] \notin 1..barriers[Key(s)]
    BY <1>0, <2>2, <2>4
  <2>10. Counted'
    BY <1>0, <2>2, <2>3, <2>5, <2>8, <2>9 DEF Counted
  <2>11. \A t \in Servers : pc'[t] = "armed" => token'[t] \notin sent'[Key(t)']
    BY <2>2, <2>5, <2>7, <2>8, <2>9
  <2>12. \A t, u \in Servers :
           (t # u /\ pc'[t] = "armed" /\ pc'[u] = "armed" /\ Key(t)' = Key(u)') => token'[t] # token'[u]
    BY <2>2, <2>5, <2>8, <2>9 DEF DispatchesAreFresh
  <2> QED
    BY <2>7, <2>10, <2>11, <2>12 DEF DispatchesAreFresh
<1>3. ASSUME NEW s \in Servers, Dispatch(s) PROVE Counted' /\ DispatchesAreFresh'
  <2>1. pc[s] = "armed" /\ StepOf(s) /\ ~SaveBarrier(s) /\ UNCHANGED ghosts
        /\ sent' = [sent EXCEPT ![Key(s)] = @ \cup {token[s]}]
    BY <1>3 DEF Dispatch, StepOf, Handle, SaveBarrier
  <2>2. Key(s) \in Keys /\ token[s] \in 1..barriers[Key(s)]
    BY <2>1, Busy DEF Counted
  <2>3. \A t \in Servers : pc'[t] = "armed" =>
           pc[t] = "armed" /\ token'[t] = token[t] /\ Key(t)' = Key(t) /\ t # s /\ Key(t) \in Keys
    BY <2>1, ArmsNobody, Busy
  <2>4. UNCHANGED barriers /\ \A k \in Keys :
           sent'[k] = IF k = Key(s) THEN sent[k] \cup {token[s]} ELSE sent[k]
    BY <2>1 DEF TypeOK, ghosts
  <2>5. Counted'
    BY <2>3, <2>4 DEF Counted
  <2>6. \A k \in Keys : sent'[k] \subseteq 1..barriers'[k]
    BY <2>2, <2>4 DEF DispatchesAreFresh
  <2>7. \A t \in Servers : pc'[t] = "armed" => token'[t] \notin sent'[Key(t)']
    BY <2>1, <2>3, <2>4 DEF DispatchesAreFresh
  <2>8. \A t, u \in Servers :
           (t # u /\ pc'[t] = "armed" /\ pc'[u] = "armed" /\ Key(t)' = Key(u)') => token'[t] # token'[u]
    BY <2>3 DEF DispatchesAreFresh
  <2> QED
    BY <2>5, <2>6, <2>7, <2>8 DEF DispatchesAreFresh
<1>4. CASE UNCHANGED vars
  BY <1>0, <1>4, QuietStep DEF vars, locals, ghosts, Key
<1> QED
  BY <1>1, <1>2, <1>3, <1>4 DEF Next, StepOf

\* What a handler has read is remembered by every step.
LEMMA RememberStep == TypeOK /\ Staged /\ Remembered /\ [Next]_vars => Remembered'
<1> SUFFICES ASSUME TypeOK, Staged, Remembered, [Next]_vars PROVE Remembered'
    OBVIOUS
<1>0. \A k \in Keys : forgotten[k] \in Nat
  BY DEF TypeOK
<1>1. ASSUME NEW s \in Servers, StepOf(s) PROVE Remembered'
  <2>1. ASSUME NEW k \in Keys
        PROVE  /\ forgotten[k] > 0 => forgotten'[k] > 0
               /\ disk.journal[k].state \in Terminal =>
                     disk'.journal[k] = disk.journal[k] \/ forgotten'[k] > 0
    <3>1. CASE SavingStep(s)
      <4>1. /\ disk.journal[k].state \in Terminal => disk'.journal[k] \in {disk.journal[k], NoEntry}
            /\ forgotten'[k] = IF disk.journal[k] # NoEntry /\ disk'.journal[k] = NoEntry
                              THEN forgotten[k] + 1 ELSE forgotten[k]
        BY <3>1, CommitKeeps DEF SavingStep
      <4> QED
        BY <1>0, <4>1
    <3>2. CASE UNCHANGED <<disk, ghosts>>
      BY <3>2 DEF ghosts
    <3> QED
      BY <1>1, <3>1, <3>2, CommitOrNot
  <2>2. ASSUME NEW t \in Servers, pc'[t] # "idle"
        PROVE  (pc[t] # "idle" /\ base'[t] = base[t]) \/ base'[t] = disk'
    <3>1. CASE t # s
      BY <1>1, <2>2, <3>1, Bystanders
    <3>2. CASE t = s
      <4>1. ASSUME Leave(s) PROVE FALSE
        BY <2>2, <3>2, <4>1 DEF Leave, TypeOK
      <4>2. CASE \/ RefuseRoute(s) \/ AnswerFromJournal(s) \/ RefuseNew(s) \/ BarrierFails(s)
                 \/ SaveLocal(s) \/ SaveDisposition(s) \/ DispositionFails(s)
                 \/ SaveReconciled(s) \/ Crash(s)
        BY <4>1, <4>2 DEF RefuseRoute, AnswerFromJournal, RefuseNew, BarrierFails, SaveLocal,
                          SaveDisposition, DispositionFails, SaveReconciled, Crash, Reply
      <4>3. CASE PrepareRetry(s) \/ PrepareLive(s) \/ ApplyLocal(s) \/ Dispatch(s)
        BY <3>2, <4>3 DEF PrepareRetry, PrepareLive, ApplyLocal, Dispatch, Deciding, locals
      <4>4. CASE RejectBeforeDispatch(s) \/ OutcomeUnknown(s) \/ DispatchReturns(s)
        BY <3>2, <4>4 DEF RejectBeforeDispatch, OutcomeUnknown, DispatchReturns, Outcome
      <4>5. CASE Reconcile(s)
        BY <3>2, <4>1, <4>5 DEF Reconcile, Reply
      <4>6. CASE \E k \in Keys, r \in Reqs \cup Resolutions : Admit(s, k, r)
        BY <3>2, <4>6 DEF Admit, TypeOK
      <4>7. CASE SaveBarrier(s)
        BY <3>2, <4>7 DEF SaveBarrier, Commit, TypeOK
      <4> QED
        BY <1>1, <4>2, <4>3, <4>4, <4>5, <4>6, <4>7 DEF StepOf, Handle, Submit, SubmitReconcile
    <3> QED
      BY <3>1, <3>2
  <2>3. ASSUME NEW t \in Servers, NEW k \in Keys, pc'[t] # "idle", base'[t].journal[k].state \in Terminal
        PROVE  disk'.journal[k] = base'[t].journal[k] \/ forgotten'[k] > 0
    BY <2>1, <2>2, <2>3 DEF Remembered
  <2> QED
    BY <2>3 DEF Remembered
<1>2. CASE UNCHANGED vars
  BY <1>2 DEF vars, locals, ghosts, Remembered
<1> QED
  BY <1>1, <1>2 DEF Next, StepOf

\* No answer, no claim.
LEMMA SilentIsDurable == ASSUME answer' = Silence PROVE AnswersAreDurable'
  BY RequestNames DEF Silence, NoJob, AnswersAreDurable

\* Other answers claim no outcome.
LEMMA HarmlessAnswer ==
  ASSUME NEW s \in Servers, NEW r, r \notin {"ok", "rejected"}, Reply(s, r) PROVE AnswersAreDurable'
  BY DEF Reply, AnswersAreDurable

\* An answer claims what a save made durable in the same step.
LEMMA SavedAnswer ==
  ASSUME TypeOK, Staged, NEW s \in Servers, NEW r \in {"ok", "rejected"}, Reply(s, r), Commit(s),
         pc[s] \in {"committing", "recording"},
         EntryOf(s).state = IF r = "ok" THEN "completed" ELSE "rejected"
  PROVE  AnswersAreDurable'
<1>1. answer'.job = job[s] /\ answer'.result = r /\ disk' = work[s]
  BY DEF Reply, Commit
<1>2. EntryOf(s).req = Req(s)
  BY DEF Staged, Staging
<1> QED
  BY <1>1, <1>2 DEF AnswersAreDurable, EntryOf, Key, Req

\* Every answer claims only what is durable.
LEMMA AnswerStep ==
  TypeOK /\ Staged /\ Remembered /\ AnswersAreDurable /\ [Next]_vars => AnswersAreDurable'
<1> SUFFICES ASSUME TypeOK, Staged, Remembered, AnswersAreDurable, [Next]_vars
             PROVE  AnswersAreDurable'
    OBVIOUS
<1>1. ASSUME NEW s \in Servers, AnswerFromJournal(s) PROVE AnswersAreDurable'
  <2>1. PICK r \in {"mismatch", "unresolved", "ok", "rejected"} :
          /\ Reply(s, r)
          /\ r \in {"ok", "rejected"} =>
               /\ EntryOf(s).req = Req(s)
               /\ EntryOf(s).state = IF r = "ok" THEN "completed" ELSE "rejected"
    BY <1>1 DEF AnswerFromJournal
  <2>2. CASE r \notin {"ok", "rejected"}
    BY <2>1, <2>2, HarmlessAnswer
  <2>3. CASE r \in {"ok", "rejected"}
    <3>1. pc[s] = "deciding" /\ UNCHANGED <<disk, ghosts>>
      BY <1>1 DEF AnswerFromJournal, Deciding
    <3>2. Key(s) \in Keys /\ work[s] = base[s]
      BY <3>1, Busy DEF Staged, Staging
    <3>3. disk.journal[Key(s)] = EntryOf(s) \/ forgotten[Key(s)] > 0
      BY <2>1, <2>3, <3>1, <3>2 DEF Remembered, EntryOf, Terminal
    <3>4. answer'.job = job[s] /\ answer'.result = r
      BY <2>1 DEF Reply
    <3> QED
      BY <2>1, <2>3, <3>1, <3>3, <3>4 DEF AnswersAreDurable, Key, Req, ghosts
  <2> QED
    BY <2>2, <2>3
<1>2. ASSUME NEW s \in Servers, SaveLocal(s) PROVE AnswersAreDurable'
  <2>1. pc[s] = "committing" /\ EntryOf(s).state = "completed"
    BY <1>2 DEF SaveLocal, Staged, Staging
  <2>2. CASE Commit(s) /\ Reply(s, "ok")
    BY <2>1, <2>2, SavedAnswer
  <2>3. CASE Reply(s, "conflict") \/ Reply(s, "error")
    BY <2>3, HarmlessAnswer
  <2> QED
    BY <1>2, <2>2, <2>3 DEF SaveLocal
<1>3. ASSUME NEW s \in Servers, SaveDisposition(s) PROVE AnswersAreDurable'
  <2>1. pc[s] = "recording" /\ EntryOf(s).state \in {"completed", "rejected", "ambiguous"} /\ Commit(s)
    BY <1>3 DEF SaveDisposition, Staged, Staging
  <2>2. CASE EntryOf(s).state = "completed"
    BY <1>3, <2>1, <2>2, SavedAnswer DEF SaveDisposition
  <2>3. CASE EntryOf(s).state = "rejected"
    BY <1>3, <2>1, <2>3, SavedAnswer DEF SaveDisposition
  <2>4. CASE EntryOf(s).state = "ambiguous"
    BY <1>3, <2>4, HarmlessAnswer DEF SaveDisposition
  <2> QED
    BY <2>1, <2>2, <2>3, <2>4
<1>4. ASSUME NEW s \in Servers, SaveReconciled(s) PROVE AnswersAreDurable'
  <2>1. job[s].req \notin Reqs
    BY <1>4, RequestNames DEF SaveReconciled, Staged, Staging, Req
  <2>2. answer'.job = job[s]
    BY <1>4 DEF SaveReconciled, Reply
  <2> QED
    BY <2>1, <2>2 DEF AnswersAreDurable
<1>5. ASSUME NEW s \in Servers,
             RefuseRoute(s) \/ RefuseNew(s) \/ BarrierFails(s) \/ DispositionFails(s)
      PROVE  AnswersAreDurable'
  <2>1. PICK r \in {"invalid", "conflict", "error", "ambiguous", "uncertain"} : Reply(s, r)
    BY <1>5 DEF RefuseRoute, RefuseNew, BarrierFails, DispositionFails
  <2> QED
    BY <2>1, HarmlessAnswer
<1>6. ASSUME NEW s \in Servers, Reconcile(s) PROVE AnswersAreDurable'
  BY <1>6, HarmlessAnswer, SilentIsDurable DEF Reconcile, Goto
<1>7. ASSUME NEW s \in Servers,
             \/ PrepareRetry(s) \/ PrepareLive(s) \/ ApplyLocal(s) \/ SaveBarrier(s) \/ Dispatch(s)
             \/ RejectBeforeDispatch(s) \/ OutcomeUnknown(s) \/ DispatchReturns(s) \/ Crash(s)
             \/ \E k \in Keys, r \in Reqs \cup Resolutions : Admit(s, k, r)
      PROVE  AnswersAreDurable'
  <2>1. answer' = Silence
    BY <1>7 DEF PrepareRetry, PrepareLive, ApplyLocal, SaveBarrier, Dispatch, RejectBeforeDispatch,
                OutcomeUnknown, DispatchReturns, Outcome, Crash, Admit, Goto
  <2> QED
    BY <2>1, SilentIsDurable
<1>8. CASE UNCHANGED vars
  BY <1>8 DEF vars, ghosts, AnswersAreDurable
<1> QED
  BY <1>1, <1>2, <1>3, <1>4, <1>5, <1>6, <1>7, <1>8 DEF Next, Handle, Submit, SubmitReconcile

-----------------------------------------------------------------------------
(* The theorems.                                                           *)

\* Every reachable state satisfies the inductive invariant.
THEOREM Invariance == Spec => []IInv
<1>1. Init => IInv
  <2> SUFFICES ASSUME Init PROVE IInv
      OBVIOUS
  <2>1. TypeOK
    BY EmptyType, SilenceType DEF Init, TypeOK, PCs
  <2>2. Staged
    BY DEF Init, Staged, Staging, Saving
  <2>3. Balance
    BY DEF Init, Balance, Due, Empty, EmptyJournal
  <2>4. Counted /\ DispatchesAreFresh /\ Remembered
    BY DEF Init, Counted, DispatchesAreFresh, Remembered
  <2>5. AnswersAreDurable
    BY RequestNames DEF Init, Silence, NoJob, AnswersAreDurable
  <2> QED
    BY <2>1, <2>2, <2>3, <2>4, <2>5 DEF IInv
<1>2. IInv /\ [Next]_vars => IInv'
  BY TypeStep, StageStep, BalanceStep, FreshStep, RememberStep, AnswerStep DEF IInv
<1> QED
  BY <1>1, <1>2, PTL DEF Spec

\* Handlers, journal and ghosts keep their types (the AppConfig a handler
\* saves is always one load_config can read back).
THEOREM TypeCorrectness == Spec => []TypeOK
  BY Invariance, PTL DEF IInv

\* No key runs more often than it was due: a repeated request, a crash, a
\* failed save or a second server never runs its mutation again.
THEOREM MutationsRunOnce == Spec => []RunsOnce
<1>1. IInv => RunsOnce
  <2> SUFFICES ASSUME IInv, NEW k \in Keys
               PROVE  barriers[k] + disk.effects[k] <= 1 + authorized[k] + forgotten[k]
      BY DEF RunsOnce
  <2>1. /\ barriers[k] \in Nat /\ disk.effects[k] \in Nat
        /\ authorized[k] \in Nat /\ forgotten[k] \in Nat
    BY DEF IInv, TypeOK, Contents
  <2>2. barriers[k] + disk.effects[k] + (IF Due(disk.journal[k]) THEN 1 ELSE 0)
          = 1 + authorized[k] + forgotten[k]
    BY DEF IInv, Balance
  <2>3. CASE Due(disk.journal[k])
    BY <2>1, <2>2, <2>3
  <2>4. CASE ~Due(disk.journal[k])
    BY <2>1, <2>2, <2>4
  <2> QED
    BY <2>3, <2>4
<1> QED
  BY <1>1, Invariance, PTL

\* The venue is reached only behind a durable barrier, once per barrier.
THEOREM VenueCallsAreFresh == Spec => []DispatchesAreFresh
  BY Invariance, PTL DEF IInv

\* A claimed outcome is durable, whatever else the servers did since.
THEOREM AnswersAreDurableAlways == Spec => []AnswersAreDurable
  BY Invariance, PTL DEF IInv

\* The journal never drops an entry whose outcome is still owed.
THEOREM UnresolvedNeverDropped == Spec => UnresolvedIsKept
<1> DEFINE Kept == \A k \in Keys : disk.journal[k].state \in Unresolved \cup {"retryable"}
                                    => disk'.journal[k] # NoEntry
<1>1. IInv /\ [Next]_vars => [Kept]_vars
  <2> SUFFICES ASSUME IInv, Next PROVE Kept
      OBVIOUS
  <2>1. PICK s \in Servers : StepOf(s)
    BY DEF Next, StepOf
  <2>2. CASE SavingStep(s)
    BY <2>2, CommitKeeps DEF SavingStep, IInv
  <2>3. CASE UNCHANGED disk
    BY <2>3 DEF NoEntry, Unresolved
  <2> QED
    BY <2>1, <2>2, <2>3, CommitOrNot DEF IInv
<1> QED
  BY <1>1, Invariance, PTL DEF Spec, UnresolvedIsKept

\* A recorded outcome is never replaced by another one.
THEOREM OutcomesAreFinal == Spec => TerminalIsFinal
<1> DEFINE Final == \A k \in Keys : disk.journal[k].state \in Terminal
                                     => disk'.journal[k] \in {disk.journal[k], NoEntry}
<1>1. IInv /\ [Next]_vars => [Final]_vars
  <2> SUFFICES ASSUME IInv, Next PROVE Final
      OBVIOUS
  <2>1. PICK s \in Servers : StepOf(s)
    BY DEF Next, StepOf
  <2>2. CASE SavingStep(s)
    BY <2>2, CommitKeeps DEF SavingStep, IInv
  <2>3. CASE UNCHANGED disk
    BY <2>3
  <2> QED
    BY <2>1, <2>2, <2>3, CommitOrNot DEF IInv
<1> QED
  BY <1>1, Invariance, PTL DEF Spec, TerminalIsFinal

-----------------------------------------------------------------------------
(* One server and a truthful operator: the journal and the venue agree.    *)

\* What a journal entry says of its key's last attempt.
Fits(e, dispatched) ==
    /\ Live(e) /\ e.state = "completed" => dispatched
    /\ e.state = "retryable" => ~dispatched
    /\ e.code = "validation" => ~dispatched /\ e.state = "rejected"

\* What the only handler has in hand: nobody else saved since it read the file.
InHand(s) ==
    /\ pc[s] # "idle" => base[s] = disk
    /\ pc[s] \in Saving => Fits(EntryOf(s), Dispatched(Key(s)))
    /\ pc[s] = "barrier" => EntryOf(s).code # "validation"
    /\ pc[s] = "armed" => token[s] = barriers[Key(s)] /\ ~Dispatched(Key(s))
    /\ pc[s] = "calling" => Dispatched(Key(s))
    /\ pc[s] = "deciding" /\ Req(s) = "confirmed_dispatched" => Dispatched(Key(s))
    /\ pc[s] = "deciding" /\ Req(s) = "confirmed_not_dispatched" => ~Dispatched(Key(s))

\* The attempts an authorisation stands for, and one that may still get it, never
\* reached the venue.
Open(k) == disk.journal[k].state \in Unresolved /\ ~Dispatched(k)
Unsent  == \A k \in Keys : authorized[k] + Cardinality(sent[k]) + (IF Open(k) THEN 1 ELSE 0) <= barriers[k]

VenueInv ==
    /\ \A s \in Servers : InHand(s)
    /\ \A k \in Keys : Fits(disk.journal[k], Dispatched(k))
    /\ Unsent

\* Sets of attempts are finite, and the next attempt has not been sent.
LEMMA SentFacts ==
  ASSUME TypeOK, DispatchesAreFresh, NEW k \in Keys
  PROVE  /\ IsFiniteSet(sent[k]) /\ Cardinality(sent[k]) \in Nat
         /\ barriers[k] \in Nat /\ barriers[k] + 1 \notin sent[k] /\ authorized[k] \in Nat
<1>1. barriers[k] \in Nat /\ sent[k] \subseteq 1..barriers[k] /\ authorized[k] \in Nat
  BY DEF TypeOK, DispatchesAreFresh
<1>2. IsFiniteSet(1..barriers[k])
  BY <1>1, FS_Interval
<1>3. IsFiniteSet(sent[k])
  BY <1>1, <1>2, FS_Subset
<1> QED
  BY <1>1, <1>3, FS_CardinalityType

\* No entry says anything of an attempt, and none is authorised.
LEMMA AbsentFits == ASSUME NEW d PROVE Fits(NoEntry, d) /\ NoEntry.state \notin Unresolved
  BY DEF Fits, NoEntry, Unresolved

\* A save keeps the journal in agreement with the venue.
LEMMA VenueCommit ==
  ASSUME TypeOK, Staged, DispatchesAreFresh, VenueInv, NEW s \in Servers, SavingStep(s)
  PROVE  (\A k \in Keys : Fits(disk'.journal[k], Dispatched(k)')) /\ Unsent'
<1> USE DEF SavingStep
<1>1. base[s] = disk /\ disk' = work[s] /\ Key(s) \in Keys /\ Staging(s) /\ InHand(s)
  BY OwnEntry DEF Commit, Staged, VenueInv
<1> SUFFICES ASSUME NEW k \in Keys
             PROVE  /\ Fits(disk'.journal[k], Dispatched(k)')
                    /\ authorized'[k] + Cardinality(sent'[k]) + (IF Open(k)' THEN 1 ELSE 0) <= barriers'[k]
    BY DEF Unsent
<1>2. /\ Cardinality(sent[k]) \in Nat /\ barriers[k] \in Nat /\ authorized[k] \in Nat
      /\ barriers[k] + 1 \notin sent[k] /\ sent'[k] = sent[k]
  BY SentFacts
<1>3. authorized[k] + Cardinality(sent[k]) + (IF Open(k) THEN 1 ELSE 0) <= barriers[k]
  BY DEF VenueInv, Unsent
<1>4. Fits(disk.journal[k], Dispatched(k))
  BY DEF VenueInv
<1>5. CASE k # Key(s)
  <2>1. barriers'[k] = barriers[k] /\ authorized'[k] = authorized[k]
    BY <1>1, <1>5 DEF Commit, TypeOK
  <2>2. Dispatched(k)' = Dispatched(k)
    BY <1>2, <2>1 DEF Dispatched
  <2>3. CASE disk'.journal[k] = disk.journal[k]
    <3>1. Open(k)' = Open(k)
      BY <2>2, <2>3 DEF Open
    <3> QED
      BY <1>2, <1>3, <1>4, <2>1, <2>2, <2>3, <3>1
  <2>4. CASE disk'.journal[k] = NoEntry
    <3>1. ~Open(k)' /\ Fits(disk'.journal[k], Dispatched(k)')
      BY <2>4, AbsentFits DEF Open
    <3> QED
      BY <1>2, <1>3, <2>1, <3>1
  <2> QED
    BY <1>1, <1>5, <2>3, <2>4, OwnEntry DEF OthersKept
<1>6. CASE k = Key(s)
  <2>1. disk.journal[k] = EntryRead(s) /\ disk'.journal[k] = EntryOf(s)
    BY <1>1, <1>6 DEF EntryRead, EntryOf
  <2>2. Fits(EntryOf(s), Dispatched(k))
    BY <1>1, <1>6 DEF InHand
  <2>3. CASE pc[s] = "barrier"
    <3>1. barriers'[k] = barriers[k] + 1 /\ authorized'[k] = authorized[k]
      BY <1>6, <2>3 DEF Commit, TypeOK
    <3>2. ~Dispatched(k)'
      BY <1>2, <3>1 DEF Dispatched
    <3>3. EntryOf(s).state = "pending" /\ EntryOf(s).code # "validation"
      BY <1>1, <2>3 DEF Staging, InHand
    <3>4. Fits(disk'.journal[k], Dispatched(k)')
      BY <2>1, <3>2, <3>3 DEF Fits
    <3>5. ~Open(k)
      BY <1>1, <2>1, <2>3 DEF Open, Staging, Due, NoEntry, Unresolved
    <3> QED
      BY <1>2, <1>3, <3>1, <3>4, <3>5
  <2>4. CASE pc[s] # "barrier"
    <3>1. barriers'[k] = barriers[k] /\ Dispatched(k)' = Dispatched(k)
      BY <1>2, <2>4 DEF Commit, TypeOK, Dispatched
    <3>2. CASE pc[s] = "reconciling" /\ EntryOf(s).state = "retryable"
      <4>1. authorized'[k] = authorized[k] + 1
        BY <1>6, <3>2 DEF Commit, TypeOK
      <4>2. Open(k) /\ ~Open(k)'
        BY <1>1, <2>1, <2>2, <3>1, <3>2 DEF Open, Fits, Staging, Unresolved
      <4> QED
        BY <1>2, <1>3, <2>1, <2>2, <3>1, <4>1, <4>2
    <3>3. CASE ~(pc[s] = "reconciling" /\ EntryOf(s).state = "retryable")
      <4>1. authorized'[k] = authorized[k]
        BY <3>3 DEF Commit, TypeOK
      <4>2. Open(k)' => Open(k)
        BY <1>1, <2>1, <2>4, <3>1 DEF Open, Staging, Saving, Unresolved
      <4> QED
        BY <1>2, <1>3, <2>1, <2>2, <3>1, <4>1, <4>2
    <3> QED
      BY <3>2, <3>3
  <2> QED
    BY <2>3, <2>4
<1> QED
  BY <1>5, <1>6

\* A dispatch reaches the venue with the attempt the journal has pending.
LEMMA VenueDispatch ==
  ASSUME TypeOK, Staged, DispatchesAreFresh, VenueInv, NEW s \in Servers, Dispatch(s)
  PROVE  (\A k \in Keys : Fits(disk'.journal[k], Dispatched(k)')) /\ Unsent'
<1>1. /\ pc[s] = "armed" /\ UNCHANGED <<disk, barriers, authorized>>
      /\ sent' = [sent EXCEPT ![Key(s)] = @ \cup {token[s]}]
  BY DEF Dispatch, ghosts
<1>2. /\ Key(s) \in Keys /\ base[s] = disk /\ work[s] = base[s] /\ EntryOf(s).state = "pending"
      /\ token[s] = barriers[Key(s)] /\ ~Dispatched(Key(s))
  BY <1>1, Busy DEF Staged, Staging, VenueInv, InHand
<1>3. disk.journal[Key(s)].state = "pending"
  BY <1>2 DEF EntryOf
<1> SUFFICES ASSUME NEW k \in Keys
             PROVE  /\ Fits(disk'.journal[k], Dispatched(k)')
                    /\ authorized'[k] + Cardinality(sent'[k]) + (IF Open(k)' THEN 1 ELSE 0) <= barriers'[k]
    BY DEF Unsent
<1>4. /\ Cardinality(sent[k]) \in Nat /\ barriers[k] \in Nat /\ authorized[k] \in Nat
      /\ IsFiniteSet(sent[k])
  BY SentFacts
<1>5. authorized[k] + Cardinality(sent[k]) + (IF Open(k) THEN 1 ELSE 0) <= barriers[k]
  BY DEF VenueInv, Unsent
<1>6. Fits(disk.journal[k], Dispatched(k))
  BY DEF VenueInv
<1>7. CASE k # Key(s)
  <2>1. sent'[k] = sent[k] /\ Dispatched(k)' = Dispatched(k)
    BY <1>1, <1>7 DEF TypeOK, Dispatched
  <2>2. Open(k)' = Open(k)
    BY <1>1, <2>1 DEF Open
  <2> QED
    BY <1>1, <1>5, <1>6, <2>1, <2>2
<1>8. CASE k = Key(s)
  <2>1. sent'[k] = sent[k] \cup {barriers[k]}
    BY <1>1, <1>2, <1>8 DEF TypeOK
  <2>2. Dispatched(k)' /\ ~Open(k)'
    BY <1>1, <2>1 DEF Dispatched, Open
  <2>3. Open(k)
    BY <1>2, <1>3, <1>8 DEF Open, Unresolved
  <2>4. Cardinality(sent'[k]) <= Cardinality(sent[k]) + 1 /\ Cardinality(sent'[k]) \in Nat
    <3>1. /\ IsFiniteSet(sent[k] \cup {barriers[k]})
          /\ Cardinality(sent[k] \cup {barriers[k]})
               = IF barriers[k] \in sent[k] THEN Cardinality(sent[k]) ELSE Cardinality(sent[k]) + 1
      BY <1>4, FS_AddElement
    <3> QED
      BY <1>4, <2>1, <3>1
  <2>5. Fits(disk'.journal[k], Dispatched(k)')
    BY <1>1, <1>3, <1>6, <1>8, <2>2 DEF Fits
  <2>6. barriers'[k] = barriers[k] /\ authorized'[k] = authorized[k]
    BY <1>1
  <2>7. authorized[k] + Cardinality(sent'[k]) <= barriers[k]
    BY <1>4, <1>5, <2>3, <2>4
  <2>8. authorized'[k] + Cardinality(sent'[k]) + 0 <= barriers'[k]
    BY <1>4, <2>4, <2>6, <2>7
  <2> QED
    BY <2>2, <2>5, <2>8
<1> QED
  BY <1>7, <1>8

\* A handler that left has nothing in hand.
LEMMA LeftInHand ==
  ASSUME TypeOK, NEW s \in Servers, Leave(s) PROVE InHand(s)'
<1>1. pc'[s] = "idle"
  BY DEF Leave, TypeOK
<1> QED
  BY <1>1 DEF InHand, Saving

\* A handler that stages an entry for its key over what it read.
LEMMA StagedInHand ==
  ASSUME TypeOK, NEW s \in Servers, base[s] = disk, UNCHANGED <<disk, base, barriers, sent, job>>,
         pc'[s] \in Saving, NEW e, EntryOf(s)' = e, Fits(e, Dispatched(Key(s))),
         pc'[s] = "barrier" => e.code # "validation"
  PROVE  InHand(s)'
<1>1. Key(s)' = Key(s) /\ Dispatched(Key(s))' = Dispatched(Key(s))
  BY DEF Key, Dispatched
<1> QED
  BY <1>1 DEF InHand, Saving

\* The steps of the only handler keep what it has in hand.
LEMMA InHandStep ==
  ASSUME Truthful, TypeOK, Staged, DispatchesAreFresh, VenueInv, NEW s \in Servers, StepOf(s)
  PROVE  InHand(s)'
<1>0. Staging(s) /\ InHand(s)
  BY DEF Staged, VenueInv
<1>a. ASSUME pc[s] # "idle", work[s] = base[s]
      PROVE  /\ base[s] = disk /\ Key(s) \in Keys /\ EntryOf(s) = disk.journal[Key(s)]
             /\ Fits(EntryOf(s), Dispatched(Key(s)))
  BY <1>0, <1>a, Busy DEF InHand, VenueInv, EntryOf
<1>1. ASSUME NEW k \in Keys, NEW r \in Reqs \cup Resolutions, Admit(s, k, r),
             r = "confirmed_dispatched" => Dispatched(k),
             r = "confirmed_not_dispatched" => ~Dispatched(k)
      PROVE  InHand(s)'
  <2>1. /\ pc'[s] = "deciding" /\ job'[s] = [key |-> k, req |-> r] /\ base'[s] = disk
        /\ UNCHANGED <<disk, sent, barriers>>
    BY <1>1 DEF Admit, Goto, TypeOK, ghosts
  <2>2. Key(s)' = k /\ Req(s)' = r /\ Dispatched(k)' = Dispatched(k)
    BY <2>1 DEF Key, Req, Dispatched
  <2>3. pc'[s] \notin Saving
    BY <2>1 DEF Saving
  <2> QED
    BY <1>1, <2>1, <2>2, <2>3 DEF InHand
<1>2. CASE PrepareRetry(s)
  <2> DEFINE e == [EntryOf(s) EXCEPT !.state = "pending", !.authorized = FALSE]
  <2>1. /\ pc[s] = "deciding" /\ EntryOf(s).state = "retryable"
        /\ UNCHANGED <<disk, base, barriers, sent, job>>
        /\ work' = [work EXCEPT ![s] = WithEntry(s, e)] /\ pc'[s] = "barrier"
    BY <1>2 DEF PrepareRetry, Deciding, Goto, TypeOK, ghosts
  <2>2. EntryOf(s) \in Entry /\ work[s] = base[s]
    BY <1>0, <2>1, Busy DEF NoEntry, Staging
  <2>3. e \in Entry /\ e.state = "pending" /\ e.code = EntryOf(s).code
    BY <2>2 DEF Entry, EntryStates, Unresolved
  <2>4. EntryOf(s).code # "validation" /\ base[s] = disk
    BY <1>a, <2>1, <2>2 DEF Fits
  <2> HIDE DEF e
  <2>5. EntryOf(s)' = e
    BY <2>1, <2>2, <2>3, OwnKey
  <2>6. Fits(e, Dispatched(Key(s)))
    BY <2>3, <2>4 DEF Fits
  <2> QED
    BY <2>1, <2>3, <2>4, <2>5, <2>6, StagedInHand DEF Saving
<1>3. CASE PrepareLive(s) \/ ApplyLocal(s)
  <2>1. PICK e \in {NewEntry(Req(s), "pending"), NewEntry(Req(s), "completed")} :
           /\ e.state = "pending" \/ Req(s) \notin LiveReqs
           /\ e.code = "plain" /\ e.req = Req(s)
           /\ \E j \in Appended(work[s].journal, Key(s), e) : work'[s].journal = j
    <3>1. Deciding(s) /\ pc[s] # "idle" /\ work[s] \in Contents
      BY <1>3, Busy DEF PrepareLive, ApplyLocal, Deciding
    <3>2. CASE PrepareLive(s)
      <4>1. PICK j \in Appended(work[s].journal, Key(s), NewEntry(Req(s), "pending")) :
               work' = [work EXCEPT ![s].journal = j]
        BY <3>2 DEF PrepareLive
      <4>2. work'[s].journal = j
        BY <3>1, <4>1 DEF TypeOK, Contents
      <4> QED
        BY <4>1, <4>2 DEF NewEntry
    <3>3. CASE ApplyLocal(s)
      <4>1. PICK j \in Appended(work[s].journal, Key(s), NewEntry(Req(s), "completed")) :
               work' = [work EXCEPT ![s] =
                          [journal |-> j, effects |-> [work[s].effects EXCEPT ![Key(s)] = @ + 1]]]
        BY <3>3 DEF ApplyLocal
      <4>2. work'[s].journal = j /\ Req(s) \notin LiveReqs
        BY <3>3, <4>1 DEF TypeOK, ApplyLocal
      <4> QED
        BY <4>1, <4>2 DEF NewEntry
    <3> QED
      BY <1>3, <3>2, <3>3
  <2>2. /\ pc[s] = "deciding" /\ Req(s) \in Reqs /\ UNCHANGED <<disk, base, barriers, sent, job>>
        /\ pc'[s] \in {"barrier", "committing"}
    BY <1>3 DEF PrepareLive, ApplyLocal, Deciding, Goto, TypeOK, ghosts
  <2>3. base[s] = disk /\ Key(s) \in Keys /\ work[s].journal \in Journals
    BY <1>0, <1>a, <2>2, Busy DEF Staging, Contents
  <2>4. e \in Entry
    BY <2>2, NewEntryType DEF EntryStates, Unresolved, Terminal
  <2>5. work'[s].journal[Key(s)] = e
    BY <2>1, <2>3, <2>4, AppendedProperties
  <2>6. EntryOf(s)' = e
    BY <2>2, <2>5 DEF EntryOf, Key
  <2>7. Fits(e, Dispatched(Key(s)))
    BY <2>1 DEF Fits, Live, NewEntry
  <2> QED
    BY <2>1, <2>2, <2>3, <2>6, <2>7, StagedInHand DEF Saving
<1>4. CASE SaveBarrier(s)
  <2>1. /\ pc[s] = "barrier" /\ Commit(s) /\ pc'[s] = "armed" /\ base'[s] = disk'
        /\ token'[s] = barriers'[Key(s)] /\ UNCHANGED <<job, sent>>
    BY <1>4 DEF SaveBarrier, Goto, TypeOK, Commit
  <2>2. Key(s)' = Key(s) /\ Key(s) \in Keys
    BY <2>1, Busy DEF Key
  <2>3. barriers'[Key(s)] = barriers[Key(s)] + 1
    BY <2>1, <2>2, CommitBarriers DEF Saving
  <2>4. ~Dispatched(Key(s))'
    BY <2>1, <2>2, <2>3, SentFacts DEF Dispatched
  <2> QED
    BY <2>1, <2>2, <2>4 DEF InHand, Saving
<1>5. CASE Dispatch(s)
  <2>1. /\ pc[s] = "armed" /\ pc'[s] = "calling" /\ UNCHANGED <<disk, base, job, barriers>>
        /\ sent' = [sent EXCEPT ![Key(s)] = @ \cup {token[s]}]
    BY <1>5 DEF Dispatch, Goto, TypeOK, locals, ghosts
  <2>2. Key(s)' = Key(s) /\ Key(s) \in Keys /\ token[s] = barriers[Key(s)] /\ base[s] = disk
    BY <1>0, <2>1, Busy DEF Key, InHand
  <2>3. Dispatched(Key(s))'
    BY <2>1, <2>2 DEF Dispatched, TypeOK
  <2> QED
    BY <2>1, <2>2, <2>3 DEF InHand, Saving
<1>6. CASE RejectBeforeDispatch(s) \/ OutcomeUnknown(s) \/ DispatchReturns(s)
  <2> DEFINE refused   == [EntryOf(s) EXCEPT !.state = "rejected", !.code = "validation"]
             unknown   == [EntryOf(s) EXCEPT !.state = "ambiguous"]
             completed == [EntryOf(s) EXCEPT !.state = "completed"]
  <2>1. pc[s] \in {"armed", "calling"}
    BY <1>6 DEF RejectBeforeDispatch, OutcomeUnknown, DispatchReturns
  <2>2. /\ EntryOf(s) \in Entry /\ work[s] = base[s] /\ base[s] = disk
        /\ EntryOf(s).code # "validation"
    BY <1>0, <1>a, <2>1, Busy DEF Staging, NoEntry, Fits
  <2>3. refused \in Entry /\ unknown \in Entry /\ completed \in Entry
    BY <2>2 DEF Entry, EntryStates, Terminal, Unresolved, Codes
  <2>4. /\ pc[s] = "armed" => Fits(refused, Dispatched(Key(s)))
        /\ Fits(unknown, Dispatched(Key(s)))
        /\ pc[s] = "calling" => Fits(completed, Dispatched(Key(s)))
    BY <1>0, <2>2 DEF Fits, InHand, Entry
  <2>5. \/ pc[s] = "armed" /\ Outcome(s, refused)
        \/ Outcome(s, unknown)
        \/ pc[s] = "calling" /\ Outcome(s, completed)
    BY <1>6 DEF RejectBeforeDispatch, OutcomeUnknown, DispatchReturns
  <2> HIDE DEF refused, unknown, completed
  <2>6. PICK e \in Entry : Outcome(s, e) /\ Fits(e, Dispatched(Key(s)))
    BY <2>3, <2>4, <2>5
  <2>7. /\ pc'[s] = "recording" /\ UNCHANGED <<disk, base, barriers, sent, job>>
        /\ work' = [work EXCEPT ![s] = WithEntry(s, e)]
    BY <2>6 DEF Outcome, Goto, TypeOK, ghosts
  <2>8. EntryOf(s)' = e
    BY <2>1, <2>2, <2>6, <2>7, OwnKey
  <2> QED
    BY <2>2, <2>6, <2>7, <2>8, StagedInHand DEF Saving
<1>7. CASE Reconcile(s)
  <2>1. CASE Reply(s, "invalid")
    BY <2>1, LeftInHand DEF Reply
  <2>2. CASE ~Reply(s, "invalid")
    <3> DEFINE e == Reconciled(EntryOf(s), Req(s))
    <3>1. /\ EntryOf(s) # NoEntry /\ Req(s) \in Resolutions
          /\ pc[s] = "deciding" /\ UNCHANGED <<disk, base, barriers, sent, job>>
          /\ work' = [work EXCEPT ![s] = WithEntry(s, e)] /\ Goto(s, "reconciling")
      BY <1>7, <2>2 DEF Reconcile, ghosts
    <3>2. /\ EntryOf(s) \in Entry /\ work[s] = base[s] /\ base[s] = disk /\ pc'[s] = "reconciling"
      BY <1>0, <1>a, <3>1, Busy DEF Staging, Goto, TypeOK
    <3>3. e \in Entry
      BY <3>1, <3>2, ReconciledProperties
    <3>4. Fits(e, Dispatched(Key(s)))
      <4>1. CASE Req(s) = "confirmed_dispatched"
        BY <1>0, <3>1, <3>2, <4>1 DEF Reconciled, Fits, InHand, Entry
      <4>2. CASE Req(s) = "confirmed_not_dispatched"
        BY <1>0, <3>1, <3>2, <4>2 DEF Reconciled, Fits, InHand, Entry
      <4>3. CASE Req(s) = "discard"
        BY <3>2, <4>3 DEF Reconciled, Fits, Entry
      <4> QED
        BY <3>1, <4>1, <4>2, <4>3 DEF Resolutions
    <3> HIDE DEF e
    <3>5. EntryOf(s)' = e
      BY <3>1, <3>2, <3>3, OwnKey
    <3> QED
      BY <3>1, <3>2, <3>4, <3>5, StagedInHand DEF Saving
  <2> QED
    BY <2>1, <2>2
<1>8. CASE \/ RefuseRoute(s) \/ AnswerFromJournal(s) \/ RefuseNew(s) \/ BarrierFails(s) \/ SaveLocal(s)
           \/ SaveDisposition(s) \/ DispositionFails(s) \/ SaveReconciled(s) \/ Crash(s)
  <2>1. Leave(s)
    BY <1>8 DEF RefuseRoute, AnswerFromJournal, RefuseNew, BarrierFails, SaveLocal,
                SaveDisposition, DispositionFails, SaveReconciled, Crash, Reply
  <2> QED
    BY <2>1, LeftInHand
<1>9. ASSUME NEW k \in Keys, NEW r \in Reqs, Submit(s, k, r) PROVE InHand(s)'
  BY <1>1, <1>9, RequestNames DEF Submit, Resolutions
<1>10. ASSUME NEW k \in Keys, NEW r \in Resolutions, SubmitReconcile(s, k, r) PROVE InHand(s)'
  BY <1>1, <1>10 DEF SubmitReconcile, Dispatched
<1> QED
  BY <1>2, <1>3, <1>4, <1>5, <1>6, <1>7, <1>8, <1>9, <1>10 DEF StepOf, Handle

\* With one server process and an operator who reads the venue's history
\* correctly, the journal never contradicts the venue: a key reaches it once
\* per retention of its entry, "completed" means it did, and "retryable" and a
\* validation refusal mean it did not.
THEOREM JournalAgreesWithVenue ==
  ASSUME Truthful, \A s, t \in Servers : s = t
  PROVE  Spec => []JournalMatchesVenue
<1>1. Init => VenueInv
  <2> SUFFICES ASSUME Init PROVE VenueInv
      OBVIOUS
  <2>1. \A s \in Servers : InHand(s)
    BY DEF Init, InHand, Saving
  <2>2. \A k \in Keys : Fits(disk.journal[k], Dispatched(k)) /\ ~Open(k)
    BY AbsentFits DEF Init, Empty, EmptyJournal, Open
  <2>3. Unsent
    BY <2>2, FS_EmptySet DEF Init, Unsent
  <2> QED
    BY <2>1, <2>2, <2>3 DEF VenueInv
<1>2. IInv /\ VenueInv /\ [Next]_vars => VenueInv'
  <2> SUFFICES ASSUME TypeOK, Staged, DispatchesAreFresh, VenueInv, [Next]_vars PROVE VenueInv'
      BY DEF IInv
  <2>1. ASSUME NEW s \in Servers, StepOf(s) PROVE VenueInv'
    <3>1. \A t \in Servers : InHand(t)'
      BY <2>1, InHandStep
    <3>2. (\A k \in Keys : Fits(disk'.journal[k], Dispatched(k)')) /\ Unsent'
      <4>1. CASE UNCHANGED <<disk, ghosts>> /\ UNCHANGED sent
        BY <4>1 DEF VenueInv, Unsent, Open, Dispatched, ghosts
      <4> QED
        BY <2>1, <4>1, CommitOrNot, VenueCommit, VenueDispatch
    <3> QED
      BY <3>1, <3>2 DEF VenueInv
  <2>2. CASE UNCHANGED vars
    BY <2>2 DEF vars, locals, ghosts, VenueInv, InHand, Unsent, Open, Dispatched, EntryOf, Key, Req
  <2> QED
    BY <2>1, <2>2 DEF Next, StepOf
<1>3. IInv /\ VenueInv => JournalMatchesVenue
  <2> SUFFICES ASSUME TypeOK, Balance, DispatchesAreFresh, VenueInv, NEW k \in Keys
               PROVE  /\ Cardinality(sent[k]) <= 1 + forgotten[k]
                      /\ Fits(disk.journal[k], Dispatched(k))
      BY DEF IInv, JournalMatchesVenue, Fits
  <2>1. Cardinality(sent[k]) \in Nat /\ barriers[k] \in Nat /\ authorized[k] \in Nat
    BY SentFacts
  <2>2. disk.effects[k] \in Nat /\ forgotten[k] \in Nat
    BY DEF TypeOK, Contents
  <2>3. /\ barriers[k] + disk.effects[k] + (IF Due(disk.journal[k]) THEN 1 ELSE 0)
             = 1 + authorized[k] + forgotten[k]
        /\ authorized[k] + Cardinality(sent[k]) + (IF Open(k) THEN 1 ELSE 0) <= barriers[k]
    BY DEF Balance, VenueInv, Unsent
  <2> QED
    BY <2>1, <2>2, <2>3 DEF VenueInv
<1> QED
  BY <1>1, <1>2, <1>3, Invariance, PTL DEF Spec

-----------------------------------------------------------------------------
(* The servers implement the once ledger.  An entry that may be started is *)
(* due, a server at the venue's door is a started attempt, and what the    *)
(* venue or the file took is what ran.                                     *)

ArmedAt(k) == {s \in Servers : pc[s] = "armed" /\ Key(s) = k}
DueAt      == [k \in Keys |-> Due(disk.journal[k])]
StartedAt  == [k \in Keys |-> Cardinality(ArmedAt(k))]
RanAt      == [k \in Keys |-> Cardinality(sent[k]) + disk.effects[k]]

\* Recording and reconciling rewrite the own entry and evict none.
Rewriting(s) ==
    pc[s] \in {"recording", "reconciling"} =>
        \A x \in Keys \ {Key(s)} : work[s].journal[x] = base[s].journal[x]
RewritesOnly == \A s \in Servers : Rewriting(s)

\* A handler that records or reconciles next has put its entry over what it read.
LEMMA OwnRewrite ==
  ASSUME TypeOK, Staged, NEW s \in Servers, StepOf(s) PROVE Rewriting(s)'
<1>0. Staging(s)
  BY DEF Staged
<1>a. ASSUME pc[s] # "idle", work[s] = base[s], NEW e \in Entry,
             work' = [work EXCEPT ![s] = WithEntry(s, e)], UNCHANGED <<job, base>>
      PROVE  Rewriting(s)'
  <2>1. Key(s) \in Keys /\ work[s] \in Contents
    BY <1>a, Busy
  <2>2. work'[s] = WithEntry(s, e) /\ Key(s)' = Key(s)
    BY <1>a DEF TypeOK, Key
  <2> QED
    BY <1>a, <2>1, <2>2, WithEntryProperties DEF Rewriting
<1>b. ASSUME NEW to \in PCs \ {"recording", "reconciling"}, pc'[s] = to PROVE Rewriting(s)'
  BY <1>b DEF Rewriting
<1>1. CASE \/ RefuseRoute(s) \/ AnswerFromJournal(s) \/ RefuseNew(s) \/ BarrierFails(s) \/ SaveLocal(s)
           \/ SaveDisposition(s) \/ DispositionFails(s) \/ SaveReconciled(s) \/ Crash(s)
  <2>1. Leave(s)
    BY <1>1 DEF RefuseRoute, AnswerFromJournal, RefuseNew, BarrierFails, SaveLocal,
                SaveDisposition, DispositionFails, SaveReconciled, Crash, Reply
  <2> QED
    BY <1>b, <2>1 DEF Leave, TypeOK, PCs
<1>2. CASE \/ PrepareRetry(s) \/ PrepareLive(s) \/ ApplyLocal(s) \/ Dispatch(s) \/ SaveBarrier(s)
           \/ \E k \in Keys, r \in Reqs \cup Resolutions : Admit(s, k, r)
  <2>1. PICK to \in PCs \ {"recording", "reconciling"} : Goto(s, to)
    BY <1>2 DEF PrepareRetry, PrepareLive, ApplyLocal, Dispatch, SaveBarrier, Admit, PCs
  <2> QED
    BY <1>b, <2>1 DEF Goto, TypeOK
<1>3. CASE RejectBeforeDispatch(s) \/ OutcomeUnknown(s) \/ DispatchReturns(s)
  <2>1. pc[s] \in {"armed", "calling"}
    BY <1>3 DEF RejectBeforeDispatch, OutcomeUnknown, DispatchReturns
  <2>2. EntryOf(s) \in Entry /\ work[s] = base[s]
    BY <1>0, <2>1, Busy DEF Staging, NoEntry
  <2>3. PICK e \in Entry : Outcome(s, e)
    BY <1>3, <2>2 DEF RejectBeforeDispatch, OutcomeUnknown, DispatchReturns,
                      Entry, EntryStates, Terminal, Unresolved, Codes
  <2> QED
    BY <1>a, <2>1, <2>2, <2>3 DEF Outcome
<1>4. CASE Reconcile(s)
  <2>1. CASE Reply(s, "invalid")
    BY <1>b, <2>1 DEF Reply, Leave, TypeOK, PCs
  <2>2. CASE ~Reply(s, "invalid")
    <3>1. /\ EntryOf(s) # NoEntry /\ Req(s) \in Resolutions /\ pc[s] = "deciding"
          /\ UNCHANGED <<base, job>>
          /\ work' = [work EXCEPT ![s] = WithEntry(s, Reconciled(EntryOf(s), Req(s)))]
      BY <1>4, <2>2 DEF Reconcile
    <3>2. Reconciled(EntryOf(s), Req(s)) \in Entry /\ work[s] = base[s]
      BY <1>0, <3>1, Busy, ReconciledProperties DEF Staging
    <3> QED
      BY <1>a, <3>1, <3>2
  <2> QED
    BY <2>1, <2>2
<1> QED
  BY <1>1, <1>2, <1>3, <1>4 DEF StepOf, Handle, Submit, SubmitReconcile

\* Every step keeps that.
LEMMA RewriteStep == TypeOK /\ Staged /\ RewritesOnly /\ [Next]_vars => RewritesOnly'
<1> SUFFICES ASSUME TypeOK, Staged, RewritesOnly, [Next]_vars, NEW t \in Servers PROVE Rewriting(t)'
    BY DEF RewritesOnly
<1>a. ASSUME pc'[t] = pc[t], job'[t] = job[t], base'[t] = base[t], work'[t] = work[t]
      PROVE  Rewriting(t)'
  BY <1>a DEF RewritesOnly, Rewriting, Key
<1>1. ASSUME NEW s \in Servers, StepOf(s) PROVE Rewriting(t)'
  BY <1>1, <1>a, OwnRewrite, Bystanders
<1>2. CASE UNCHANGED vars
  BY <1>2, <1>a DEF vars, locals
<1> QED
  BY <1>1, <1>2 DEF Next, StepOf

\* The attempts started at a key are finitely many.
LEMMA ArmedFinite ==
  ASSUME NEW k PROVE IsFiniteSet(ArmedAt(k)) /\ Cardinality(ArmedAt(k)) \in Nat
<1>1. IsFiniteSet(ArmedAt(k))
  BY ServerAssumption, FS_Subset DEF ArmedAt
<1> QED
  BY <1>1, FS_CardinalityType

\* Only a saved barrier starts an attempt; any other step of a handler ends its own.
LEMMA ArmedStep ==
  ASSUME TypeOK, Staged, NEW s \in Servers, StepOf(s), NEW k \in Keys
  PROVE  /\ ~SaveBarrier(s) => ArmedAt(k)' = ArmedAt(k) \ {s}
         /\ SaveBarrier(s) => /\ s \notin ArmedAt(k)
                              /\ ArmedAt(k)' = IF k = Key(s) THEN ArmedAt(k) \cup {s} ELSE ArmedAt(k)
<1>1. \A t \in Servers \ {s} : pc'[t] = pc[t] /\ Key(t)' = Key(t)
  BY Bystanders DEF Key
<1>2. ASSUME ~SaveBarrier(s) PROVE ArmedAt(k)' = ArmedAt(k) \ {s}
  <2>1. pc'[s] # "armed"
    BY <1>2, ArmsNobody
  <2> QED
    BY <1>1, <2>1 DEF ArmedAt
<1>3. ASSUME SaveBarrier(s)
      PROVE  /\ s \notin ArmedAt(k)
             /\ ArmedAt(k)' = IF k = Key(s) THEN ArmedAt(k) \cup {s} ELSE ArmedAt(k)
  <2>1. pc[s] = "barrier" /\ pc'[s] = "armed" /\ Key(s)' = Key(s)
    BY <1>3 DEF SaveBarrier, Goto, TypeOK, Key
  <2> QED
    BY <1>1, <2>1 DEF ArmedAt
<1> QED
  BY <1>2, <1>3

\* How many attempts are started after a step.
LEMMA StartedStep ==
  ASSUME TypeOK, Staged, NEW s \in Servers, StepOf(s)
  PROVE  /\ SaveBarrier(s) => StartedAt' = [StartedAt EXCEPT ![Key(s)] = @ + 1]
         /\ pc[s] = "armed" => StartedAt' = [StartedAt EXCEPT ![Key(s)] = @ - 1] /\ StartedAt[Key(s)] > 0
         /\ ~SaveBarrier(s) /\ pc[s] # "armed" => UNCHANGED StartedAt
<1>1. \A k \in Keys : IsFiniteSet(ArmedAt(k)) /\ Cardinality(ArmedAt(k)) \in Nat
  BY ArmedFinite
<1>2. ASSUME SaveBarrier(s) PROVE StartedAt' = [StartedAt EXCEPT ![Key(s)] = @ + 1]
  <2>1. ASSUME NEW k \in Keys
        PROVE  Cardinality(ArmedAt(k)') = IF k = Key(s) THEN Cardinality(ArmedAt(k)) + 1
                                                        ELSE Cardinality(ArmedAt(k))
    <3>1. s \notin ArmedAt(k) /\ ArmedAt(k)' = IF k = Key(s) THEN ArmedAt(k) \cup {s} ELSE ArmedAt(k)
      BY <1>2, ArmedStep
    <3>2. Cardinality(ArmedAt(k) \cup {s})
            = IF s \in ArmedAt(k) THEN Cardinality(ArmedAt(k)) ELSE Cardinality(ArmedAt(k)) + 1
      BY <1>1, FS_AddElement
    <3> QED
      BY <3>1, <3>2
  <2> QED
    BY <2>1 DEF StartedAt
<1>3. ASSUME ~SaveBarrier(s), NEW k \in Keys
      PROVE  Cardinality(ArmedAt(k)') = IF pc[s] = "armed" /\ k = Key(s)
                                        THEN Cardinality(ArmedAt(k)) - 1 ELSE Cardinality(ArmedAt(k))
  <2>1. ArmedAt(k)' = ArmedAt(k) \ {s}
    BY <1>3, ArmedStep
  <2>2. s \in ArmedAt(k) <=> pc[s] = "armed" /\ k = Key(s)
    BY DEF ArmedAt
  <2>3. Cardinality(ArmedAt(k) \ {s})
          = IF s \in ArmedAt(k) THEN Cardinality(ArmedAt(k)) - 1 ELSE Cardinality(ArmedAt(k))
    BY <1>1, FS_RemoveElement
  <2> QED
    BY <2>1, <2>2, <2>3
<1>4. ASSUME pc[s] = "armed"
      PROVE  StartedAt' = [StartedAt EXCEPT ![Key(s)] = @ - 1] /\ StartedAt[Key(s)] > 0
  <2>1. ~SaveBarrier(s) /\ Key(s) \in Keys /\ s \in ArmedAt(Key(s))
    BY <1>4, Busy DEF SaveBarrier, ArmedAt
  <2>2. Cardinality(ArmedAt(Key(s))) # 0
    BY <2>1, <1>1, FS_EmptySet
  <2>3. Cardinality(ArmedAt(Key(s))) > 0
    BY <2>1, <2>2, <1>1
  <2> QED
    BY <1>3, <1>4, <2>1, <2>3 DEF StartedAt
<1>5. ASSUME ~SaveBarrier(s), pc[s] # "armed" PROVE UNCHANGED StartedAt
  BY <1>3, <1>5 DEF StartedAt
<1> QED
  BY <1>2, <1>4, <1>5

\* A save that starts something spends what is due; evictions make others due.
LEMMA SpendStep ==
  ASSUME TypeOK, Staged, NEW s \in Servers, SavingStep(s), pc[s] \in {"barrier", "committing"}
  PROVE  \E A \in SUBSET Keys : Ledger!Spend(Key(s), A)
<1> DEFINE A == {x \in Keys \ {Key(s)} : Due(disk'.journal[x])}
<1>1. base[s] = disk /\ disk' = work[s] /\ Key(s) \in Keys /\ Staging(s)
  BY OwnEntry DEF SavingStep, Commit, Staged
<1>2. Due(disk.journal[Key(s)]) /\ ~Due(disk'.journal[Key(s)])
  BY <1>1 DEF Staging, EntryOf, EntryRead, Due, NoEntry
<1>3. \A x \in Keys \ {Key(s)} : Due(disk.journal[x]) => Due(disk'.journal[x])
  BY <1>1, OwnEntry DEF SavingStep, OthersKept, Due
<1>4. \A x \in Keys : Due(disk'.journal[x]) <=> x # Key(s) /\ (x \in A \/ Due(disk.journal[x]))
  BY <1>1, <1>2, <1>3
<1>5. A \in SUBSET Keys /\ Key(s) \notin A
  OBVIOUS
<1> HIDE DEF A
<1>6. Ledger!Spend(Key(s), A)
  <2>1. DueAt[Key(s)] /\ \A x \in Keys : DueAt[x] = Due(disk.journal[x])
    BY <1>1, <1>2 DEF DueAt
  <2>2. \A x \in Keys : Due(disk'.journal[x]) = (x # Key(s) /\ (x \in A \/ DueAt[x]))
    BY <1>4, <2>1 DEF Due
  <2>3. DueAt' = [x \in Keys |-> x # Key(s) /\ (x \in A \/ DueAt[x])]
    BY <2>2 DEF DueAt
  <2> QED
    BY <1>5, <2>1, <2>3 DEF Ledger!Spend, DueAt
<1> QED
  BY <1>5, <1>6

\* What ran after a save: a local mutation, if that was what it saved.
LEMMA RanBySave ==
  ASSUME TypeOK, Staged, DispatchesAreFresh, NEW s \in Servers, SavingStep(s)
  PROVE  RanAt' = IF pc[s] = "committing" THEN [RanAt EXCEPT ![Key(s)] = @ + 1] ELSE RanAt
<1>1. base[s] = disk /\ disk' = work[s] /\ Key(s) \in Keys /\ Staging(s) /\ UNCHANGED sent
  BY OwnEntry DEF SavingStep, Commit, Staged
<1>2. \A k \in Keys : Cardinality(sent[k]) \in Nat /\ disk.effects[k] \in Nat
  BY SentFacts DEF TypeOK, Contents
<1>3. \A k \in Keys : disk'.effects[k] = IF pc[s] = "committing" /\ k = Key(s)
                                        THEN disk.effects[k] + 1 ELSE disk.effects[k]
  BY <1>1, OwnEntry DEF SavingStep, OthersKept, Staging
<1> DEFINE sum(k) == Cardinality(sent[k]) + disk.effects[k]
<1>4. \A k \in Keys : sum(k) \in Nat
  BY <1>2
<1>5. \A k \in Keys : sum(k)' = IF pc[s] = "committing" /\ k = Key(s) THEN sum(k) + 1 ELSE sum(k)
  BY <1>1, <1>2, <1>3
<1>6. RanAt = [k \in Keys |-> sum(k)] /\ RanAt' = [k \in Keys |-> sum(k)']
  BY DEF RanAt
<1> HIDE DEF sum
<1> QED
  BY <1>1, <1>5, <1>6

\* A dispatch runs one attempt of its key.
LEMMA RanByDispatch ==
  ASSUME TypeOK, Staged, DispatchesAreFresh, NEW s \in Servers, Dispatch(s)
  PROVE  RanAt' = [RanAt EXCEPT ![Key(s)] = @ + 1]
<1>1. pc[s] = "armed" /\ UNCHANGED disk /\ sent' = [sent EXCEPT ![Key(s)] = @ \cup {token[s]}]
  BY DEF Dispatch
<1>2. Key(s) \in Keys /\ token[s] \notin sent[Key(s)]
  BY <1>1, Busy DEF DispatchesAreFresh
<1>3. \A k \in Keys : IsFiniteSet(sent[k]) /\ Cardinality(sent[k]) \in Nat /\ disk.effects[k] \in Nat
  BY SentFacts DEF TypeOK, Contents
<1>4. \A k \in Keys : sent'[k] = IF k = Key(s) THEN sent[k] \cup {token[s]} ELSE sent[k]
  BY <1>1 DEF TypeOK
<1>5. Cardinality(sent[Key(s)] \cup {token[s]}) = Cardinality(sent[Key(s)]) + 1
  <2>1. Cardinality(sent[Key(s)] \cup {token[s]})
          = IF token[s] \in sent[Key(s)] THEN Cardinality(sent[Key(s)]) ELSE Cardinality(sent[Key(s)]) + 1
    BY <1>2, <1>3, FS_AddElement
  <2> QED
    BY <1>2, <2>1
<1> DEFINE sum(k) == Cardinality(sent[k]) + disk.effects[k]
<1>6. \A k \in Keys : Cardinality(sent'[k]) + disk'.effects[k] = IF k = Key(s) THEN sum(k) + 1 ELSE sum(k)
  <2>1. ASSUME NEW k \in Keys \ {Key(s)} PROVE Cardinality(sent'[k]) + disk'.effects[k] = sum(k)
    BY <1>1, <1>4
  <2>2. Cardinality(sent'[Key(s)]) = Cardinality(sent[Key(s)] \cup {token[s]})
    BY <1>2, <1>4
  <2>3. Cardinality(sent'[Key(s)]) + disk'.effects[Key(s)] = sum(Key(s)) + 1
    BY <1>1, <1>2, <1>3, <1>5, <2>2
  <2> HIDE DEF sum
  <2> QED
    BY <2>1, <2>3
<1>7. RanAt = [k \in Keys |-> sum(k)]
      /\ RanAt' = [k \in Keys |-> Cardinality(sent'[k]) + disk'.effects[k]]
  BY DEF RanAt
<1> HIDE DEF sum
<1> QED
  BY <1>2, <1>6, <1>7

\* A save that records or reconciles makes at most its own key due, by the
\* operator's word that its attempt did not run.
LEMMA DueByRewrite ==
  ASSUME TypeOK, Staged, RewritesOnly, NEW s \in Servers, SavingStep(s),
         pc[s] \in {"recording", "reconciling"}
  PROVE  DueAt' \in {DueAt, [DueAt EXCEPT ![Key(s)] = TRUE]}
<1>1. base[s] = disk /\ disk' = work[s] /\ Key(s) \in Keys /\ Staging(s) /\ Rewriting(s)
  BY OwnEntry DEF SavingStep, Commit, Staged, RewritesOnly
<1>2. \A x \in Keys \ {Key(s)} : disk'.journal[x] = disk.journal[x]
  BY <1>1 DEF Rewriting
<1>3. ~Due(disk.journal[Key(s)])
  BY <1>1 DEF Staging, EntryRead, Due, NoEntry, Unresolved
<1>4. CASE Due(disk'.journal[Key(s)])
  <2>1. \A x \in Keys : Due(disk'.journal[x]) = IF x = Key(s) THEN TRUE ELSE Due(disk.journal[x])
    BY <1>2, <1>4 DEF Due
  <2>2. DueAt' = [DueAt EXCEPT ![Key(s)] = TRUE]
    BY <1>1, <2>1 DEF DueAt
  <2> QED
    BY <2>2
<1>5. CASE ~Due(disk'.journal[Key(s)])
  <2>1. \A x \in Keys : Due(disk'.journal[x]) = Due(disk.journal[x])
    BY <1>2, <1>3, <1>5 DEF Due
  <2>2. DueAt' = DueAt
    BY <2>1 DEF DueAt
  <2> QED
    BY <2>2
<1> QED
  BY <1>4, <1>5

\* The ledger's actions that spend what is due, over the mapped variables.
LEMMA SpendActions ==
  ASSUME NEW k, NEW A
  PROVE  /\ Ledger!Spend(k, A) /\ StartedAt' = [StartedAt EXCEPT ![k] = @ + 1] /\ RanAt' = RanAt
               => Ledger!Start(k, A)
         /\ Ledger!Spend(k, A) /\ StartedAt' = StartedAt /\ RanAt' = RanAt => Ledger!StartInVain(k, A)
         /\ Ledger!Spend(k, A) /\ RanAt' = [RanAt EXCEPT ![k] = @ + 1] /\ StartedAt' = StartedAt
               => Ledger!RunAtOnce(k, A)
<1> USE DEF DueAt, StartedAt, RanAt, ArmedAt
<1>1. Ledger!Spend(k, A) /\ StartedAt' = [StartedAt EXCEPT ![k] = @ + 1] /\ RanAt' = RanAt
         => Ledger!Start(k, A)
  BY DEF Ledger!Start
<1>2. Ledger!Spend(k, A) /\ StartedAt' = StartedAt /\ RanAt' = RanAt => Ledger!StartInVain(k, A)
  BY DEF Ledger!StartInVain
<1>3. Ledger!Spend(k, A) /\ RanAt' = [RanAt EXCEPT ![k] = @ + 1] /\ StartedAt' = StartedAt
         => Ledger!RunAtOnce(k, A)
  BY DEF Ledger!RunAtOnce
<1> QED
  BY <1>1, <1>2, <1>3

\* The ledger's other actions, and its stuttering, over the mapped variables.
LEMMA OtherActions ==
  ASSUME NEW k
  PROVE  /\ StartedAt[k] > 0 /\ StartedAt' = [StartedAt EXCEPT ![k] = @ - 1] /\ DueAt' = DueAt
               => /\ RanAt' = [RanAt EXCEPT ![k] = @ + 1] => Ledger!Run(k)
                  /\ RanAt' = RanAt => Ledger!Lose(k)
         /\ DueAt' = [DueAt EXCEPT ![k] = TRUE] /\ StartedAt' = StartedAt /\ RanAt' = RanAt
               => Ledger!Allow(k)
         /\ DueAt' = DueAt /\ StartedAt' = StartedAt /\ RanAt' = RanAt => UNCHANGED Ledger!vars
<1> USE DEF DueAt, StartedAt, RanAt, ArmedAt
<1>1. StartedAt[k] > 0 /\ StartedAt' = [StartedAt EXCEPT ![k] = @ - 1] /\ DueAt' = DueAt
      /\ RanAt' = [RanAt EXCEPT ![k] = @ + 1] => Ledger!Run(k)
  BY DEF Ledger!Run
<1>2. StartedAt[k] > 0 /\ StartedAt' = [StartedAt EXCEPT ![k] = @ - 1] /\ DueAt' = DueAt
      /\ RanAt' = RanAt => Ledger!Lose(k)
  BY DEF Ledger!Lose
<1>3. DueAt' = [DueAt EXCEPT ![k] = TRUE] /\ StartedAt' = StartedAt /\ RanAt' = RanAt => Ledger!Allow(k)
  BY DEF Ledger!Allow
<1>4. DueAt' = DueAt /\ StartedAt' = StartedAt /\ RanAt' = RanAt => UNCHANGED Ledger!vars
  BY DEF Ledger!vars
<1> QED
  BY <1>1, <1>2, <1>3, <1>4

\* Every step of a handler is a step of the ledger, or none.
LEMMA LedgerStep ==
  ASSUME IInv, RewritesOnly, NEW s \in Servers, StepOf(s)
  PROVE  Ledger!Next \/ UNCHANGED Ledger!vars
<1>0. TypeOK /\ Staged /\ DispatchesAreFresh
  BY DEF IInv
<1> DEFINE K == Key(s)
<1>1. ASSUME SavingStep(s)
      PROVE  K \in Keys /\ pc[s] # "armed" /\ (SaveBarrier(s) => pc[s] = "barrier")
  BY <1>0, <1>1, OwnEntry DEF SavingStep, SaveBarrier, Saving
<1>2. CASE SavingStep(s) /\ pc[s] \in {"barrier", "committing"}
  <2>1. PICK A \in SUBSET Keys : Ledger!Spend(K, A)
    BY <1>0, <1>2, SpendStep
  <2>2. Ledger!Start(K, A) \/ Ledger!StartInVain(K, A) \/ Ledger!RunAtOnce(K, A)
    <3>1. CASE pc[s] = "committing"
      <4>1. RanAt' = [RanAt EXCEPT ![K] = @ + 1] /\ StartedAt' = StartedAt
        BY <1>0, <1>1, <1>2, <3>1, RanBySave, StartedStep
      <4> QED
        BY <2>1, <4>1, SpendActions
    <3>2. CASE SaveBarrier(s)
      <4>1. RanAt' = RanAt /\ StartedAt' = [StartedAt EXCEPT ![K] = @ + 1]
        BY <1>0, <1>1, <1>2, <3>2, RanBySave, StartedStep
      <4> QED
        BY <2>1, <4>1, SpendActions
    <3>3. CASE pc[s] = "barrier" /\ ~SaveBarrier(s)
      <4>1. RanAt' = RanAt /\ StartedAt' = StartedAt
        BY <1>0, <1>1, <1>2, <3>3, RanBySave, StartedStep
      <4> QED
        BY <2>1, <4>1, SpendActions
    <3> QED
      BY <1>2, <3>1, <3>2, <3>3
  <2> QED
    BY <1>1, <1>2, <2>2 DEF Ledger!Next
<1>3. CASE SavingStep(s) /\ pc[s] \in {"recording", "reconciling"}
  <2>1. RanAt' = RanAt /\ StartedAt' = StartedAt
    BY <1>0, <1>1, <1>3, RanBySave, StartedStep
  <2>2. DueAt' \in {DueAt, [DueAt EXCEPT ![K] = TRUE]}
    BY <1>0, <1>3, DueByRewrite
  <2>3. Ledger!Allow(K) \/ UNCHANGED Ledger!vars
    BY <2>1, <2>2, OtherActions
  <2> QED
    BY <1>1, <1>3, <2>3 DEF Ledger!Next
<1>4. CASE Dispatch(s)
  <2>1. pc[s] = "armed" /\ UNCHANGED disk
    BY <1>4 DEF Dispatch
  <2>2. StartedAt[K] > 0 /\ StartedAt' = [StartedAt EXCEPT ![K] = @ - 1]
        /\ RanAt' = [RanAt EXCEPT ![K] = @ + 1] /\ DueAt' = DueAt
    BY <1>0, <1>4, <2>1, StartedStep, RanByDispatch DEF DueAt
  <2>3. PICK k \in Keys : k = K
    BY <1>0, <2>1, Busy
  <2>4. Ledger!Run(k)
    BY <2>2, <2>3, OtherActions
  <2> QED
    BY <2>4 DEF Ledger!Next
<1>5. CASE ~SavingStep(s) /\ ~Dispatch(s)
  <2>1. UNCHANGED <<disk, sent>> /\ ~SaveBarrier(s)
    BY <1>0, <1>5, CommitOrNot DEF SavingStep, SaveBarrier, Saving
  <2>2. DueAt' = DueAt /\ RanAt' = RanAt
    BY <2>1 DEF DueAt, RanAt
  <2>3. CASE pc[s] = "armed"
    <3>1. PICK k \in Keys : k = K
      BY <1>0, <2>3, Busy
    <3>2. StartedAt[k] > 0 /\ StartedAt' = [StartedAt EXCEPT ![k] = @ - 1]
      BY <1>0, <2>3, <3>1, StartedStep
    <3>3. Ledger!Lose(k)
      BY <2>2, <3>2, OtherActions
    <3> QED
      BY <3>3 DEF Ledger!Next
  <2>4. CASE pc[s] # "armed"
    <3>1. StartedAt' = StartedAt
      BY <1>0, <2>1, <2>4, StartedStep
    <3> QED
      BY <2>2, <3>1, OtherActions
  <2> QED
    BY <2>3, <2>4
<1> QED
  BY <1>2, <1>3, <1>4, <1>5 DEF SavingStep, Saving

\* The servers, whatever they share, lose or repeat, keep the promise of the
\* once ledger: nothing starts that is not due, and what started runs at most once.
THEOREM JournalImplementsLedger == Spec => ImplementsLedger
<1>1. Init => Ledger!Init
  <2> SUFFICES ASSUME Init PROVE Ledger!Init
      OBVIOUS
  <2>1. \A k \in Keys : disk.journal[k] = NoEntry /\ disk.effects[k] = 0 /\ sent[k] = {}
    BY DEF Init, Empty, EmptyJournal
  <2>2. DueAt = [k \in Keys |-> TRUE]
    BY <2>1 DEF DueAt, Due
  <2>3. \A k \in Keys : ArmedAt(k) = {}
    BY DEF Init, ArmedAt
  <2>4. StartedAt = [k \in Keys |-> 0] /\ RanAt = [k \in Keys |-> 0]
    BY <2>1, <2>3, FS_EmptySet DEF StartedAt, RanAt
  <2> QED
    BY <2>2, <2>4 DEF Ledger!Init, DueAt, StartedAt, RanAt, ArmedAt
<1>2. Init => RewritesOnly
  BY DEF Init, RewritesOnly, Rewriting
<1>3. IInv /\ RewritesOnly /\ [Next]_vars => RewritesOnly'
  BY RewriteStep DEF IInv
<1>4. IInv /\ RewritesOnly /\ [Next]_vars => [Ledger!Next]_(Ledger!vars)
  <2> SUFFICES ASSUME IInv, RewritesOnly, [Next]_vars PROVE Ledger!Next \/ UNCHANGED Ledger!vars
      OBVIOUS
  <2>1. CASE UNCHANGED vars
    <3>1. DueAt' = DueAt /\ RanAt' = RanAt /\ \A k \in Keys : ArmedAt(k)' = ArmedAt(k)
      BY <2>1 DEF vars, locals, DueAt, RanAt, ArmedAt, Key
    <3>2. StartedAt' = StartedAt
      BY <3>1 DEF StartedAt
    <3> QED
      BY <3>1, <3>2, OtherActions
  <2> QED
    BY <2>1, LedgerStep DEF Next, StepOf
<1> QED
  BY <1>1, <1>2, <1>3, <1>4, Invariance, PTL DEF Spec, ImplementsLedger, Ledger!Spec
=============================================================================
