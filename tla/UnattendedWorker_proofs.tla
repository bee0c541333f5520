----------------------- MODULE UnattendedWorker_proofs -----------------------
(***************************************************************************)
(* Proofs about UnattendedWorker for any tasks, deadline, timeouts,        *)
(* back-off and number of attempts and runs.  The argument, task by task:  *)
(* every wait was begun with no more time than the run had left (Timed),   *)
(* an attempt with Budget less; an entry is written over the one the run   *)
(* wrote before it (Known); a success is reported by an attempt whose save *)
(* is done (Honest); and attempts are started only behind an entry that is *)
(* not healthy (Known), so that a healthy one speaks for the last of them. *)
(***************************************************************************)
EXTENDS UnattendedWorker, TLAPS

\* What is left of a run covers the wait it is in, and a stop request has been waited on for
\* no longer than the budget.
Timed(t) ==
    LET r == run[t]
    IN  /\ r.pc = "idle" => r = NoRun
        /\ r.left >= 0 /\ r.age <= Budget
        /\ r.pc \in {"locking", "waiting", "terminating"} => r.timer >= 0 /\ r.timer <= r.left
        /\ r.pc = "attempting" => r.timer >= 0 /\ r.timer + Budget <= r.left
        /\ ~r.stop \/ r.pc \in {"locking", "starting", "deciding", "attempting", "waiting"} => r.age = 0
        /\ r.pc = "terminating" => r.age + r.timer <= Budget

\* A wait is followed by another attempt.
Numbered(t) == run[t].pc = "waiting" => run[t].n < MaxAttempts

\* A run that published its start finds its last entry in the file.
Known(t) ==
    run[t].pc \notin {"idle", "locking", "starting"} =>
        run[t].entry = file[t] /\ file[t].state \in Open

\* An attempt lives while its run waits for it, or after a crash; a success it reported is
\* that of an attempt that had saved.
Honest(t) ==
    /\ run[t].pc \notin {"idle", "attempting", "terminating"} => child[t] = "none"
    /\ run[t].pc = "terminating" => run[t].result # "succeeded"
    /\ run[t].pc \in {"recording", "finishing"} /\ run[t].result = "succeeded" => earned[t]

Healthy(t) ==
    file[t].state = "succeeded" => earned[t] /\ child[t] = "none"

Counted(t) ==
    LET open == IF file[t].state \in Open THEN 1 ELSE 0
    IN  /\ file[t].consecutive + open = begun[t]
        /\ file[t].total + file[t].abandoned + open = published[t]

TaskInv(t) == Timed(t) /\ Numbered(t) /\ Known(t) /\ Honest(t) /\ Healthy(t) /\ Counted(t)

IInv == TypeOK /\ \A t \in Tasks : TaskInv(t)

-----------------------------------------------------------------------------
USE WorkerAssumption DEF WorkerAssumption

LEMMA BackoffType == \A k : Backoff(k) \in Nat
  BY DEF Backoff

LEMMA LesserFacts ==
  ASSUME NEW a \in Int, NEW b \in Int
  PROVE  Lesser(a, b) \in Int /\ Lesser(a, b) <= a /\ Lesser(a, b) <= b /\ Lesser(a, b) \in {a, b}
  BY DEF Lesser

LEMMA NoRunTyped == NoRun \in Runs /\ Missing \in Entries
  BY DEF NoRun, Missing, Runs, Entries, PCs, Results, States

\* No task has run.
LEMMA InitIInv == Init => IInv
<1> SUFFICES ASSUME Init PROVE IInv
    OBVIOUS
<1>1. TypeOK
    BY NoRunTyped DEF Init, TypeOK, Exits
<1>2. ASSUME NEW t \in Tasks PROVE TaskInv(t)
    BY <1>2 DEF Init, TaskInv, Timed, Numbered, Known, Honest, Healthy, Counted, NoRun, Missing, Open
<1> QED
    BY <1>1, <1>2 DEF IInv

\* A step of one task disturbs no other.
LEMMA OneTask ==
  ASSUME IInv, TypeOK', NEW t \in Tasks, TaskInv(t)',
         \A u \in Tasks \ {t} :
            /\ run'[u] = run[u] /\ child'[u] = child[u] /\ file'[u] = file[u]
            /\ published'[u] = published[u] /\ begun'[u] = begun[u] /\ earned'[u] = earned[u]
  PROVE  IInv'
<1>1. ASSUME NEW u \in Tasks \ {t} PROVE TaskInv(u)'
    BY <1>1 DEF IInv, TaskInv, Timed, Numbered, Known, Honest, Healthy, Counted
<1> QED
    BY <1>1 DEF IInv

\* A step that touches no entry and starts no attempt: what is left to see is the run.
LEMMA QuietStep ==
  ASSUME IInv, NEW t \in Tasks, NEW r \in Runs, NEW c \in {"none", child[t]},
         run' = [run EXCEPT ![t] = r], child' = [child EXCEPT ![t] = c],
         lock' \in Tasks \cup {None}, runs' \in Nat, exit' \in [Tasks -> Exits],
         UNCHANGED <<file, published, begun, earned>>,
         Timed(t)', Numbered(t)', Known(t)', Honest(t)'
  PROVE  IInv'
<1>1. TypeOK'
    BY DEF IInv, TypeOK
<1>2. TaskInv(t)'
    BY DEF IInv, TypeOK, TaskInv, Healthy, Counted
<1> QED
    BY <1>1, <1>2, OneTask DEF IInv, TypeOK

\* A step of an attempt: the entry in the file is not a healthy one.
LEMMA AttemptStep ==
  ASSUME IInv, NEW t \in Tasks, NEW r \in Runs, NEW c \in {"none", "fetching", "committed"},
         NEW good \in BOOLEAN, earned' = [earned EXCEPT ![t] = good],
         run' = [run EXCEPT ![t] = r], child' = [child EXCEPT ![t] = c],
         UNCHANGED <<lock, file, runs, published, begun, exit>>, file[t].state # "succeeded",
         Timed(t)', Numbered(t)', Known(t)', Honest(t)'
  PROVE  IInv'
<1>1. TypeOK'
    BY DEF IInv, TypeOK
<1>2. TaskInv(t)'
    BY DEF IInv, TaskInv, Healthy, Counted
<1> QED
    BY <1>1, <1>2, OneTask DEF IInv, TypeOK

\* The process is gone, its last entry written or not.
LEMMA GoneStep ==
  ASSUME IInv, NEW t \in Tasks, NEW code \in Exits, Exit(t, code),
         lock' \in Tasks \cup {None}, UNCHANGED <<child, runs, earned>>,
         \/ UNCHANGED <<file, published, begun>>
         \/ \E entry \in Entries : Write(t, entry) /\ Healthy(t)' /\ Counted(t)' /\ Active(t)
                                   /\ run[t].pc \notin {"attempting", "terminating"}
  PROVE  IInv'
<1>1. run' = [run EXCEPT ![t] = NoRun] /\ exit' \in [Tasks -> Exits] /\ run'[t] = NoRun
    BY DEF Exit, IInv, TypeOK
<1>2. Timed(t)' /\ Numbered(t)' /\ Known(t)'
    BY <1>1 DEF Timed, Numbered, Known, NoRun
<1>3. CASE UNCHANGED <<file, published, begun>>
  <2>1. Honest(t)'
    BY <1>1, <1>3 DEF IInv, TaskInv, Honest, NoRun
  <2>2. child' = [child EXCEPT ![t] = child[t]] /\ child[t] \in {"none", child[t]}
    BY DEF IInv, TypeOK
  <2>3. runs' \in Nat
    BY DEF IInv, TypeOK
  <2> HIDE DEF Exits
  <2> QED
    BY <1>1, <1>2, <1>3, <2>1, <2>2, <2>3, QuietStep, NoRunTyped
<1>4. ASSUME NEW entry \in Entries, Write(t, entry), Healthy(t)', Counted(t)', Active(t),
             run[t].pc \notin {"attempting", "terminating"}
      PROVE  IInv'
  <2>1. child'[t] = "none"
    BY <1>4 DEF IInv, TaskInv, Honest, Active
  <2>2. TaskInv(t)'
    BY <1>1, <1>2, <1>4, <2>1 DEF TaskInv, Honest, NoRun
  <2>3. TypeOK'
    BY <1>1, <1>4, NoRunTyped DEF IInv, TypeOK, Write
  <2> QED
    BY <1>1, <1>4, <2>2, <2>3, OneTask DEF IInv, TypeOK, Write
<1> QED
    BY <1>3, <1>4

-----------------------------------------------------------------------------
(* The three entries a run writes.                                         *)

LEMMA BeginFacts ==
  ASSUME NEW old \in Entries
  PROVE  LET entry == BeginEntry(old)
             lost  == IF old.state \in Open THEN 1 ELSE 0
         IN  /\ entry \in Entries /\ entry.state = "running" /\ entry.total = old.total
             /\ entry.consecutive = old.consecutive + lost /\ entry.abandoned = old.abandoned + lost
<1>1. PICK lost \in {0, 1} : lost = IF old.state \in Open THEN 1 ELSE 0
    OBVIOUS
<1>2. BeginEntry(old) = [old EXCEPT !.state = "running", !.attempts = 0,
                                    !.consecutive = @ + lost, !.abandoned = @ + lost]
    BY <1>1 DEF BeginEntry
<1>3. /\ old.consecutive + lost \in Nat /\ old.abandoned + lost \in Nat /\ 0 \in 0..MaxAttempts
    BY DEF Entries
<1> QED
    BY <1>1, <1>2, <1>3 DEF Entries, States

LEMMA TerminalFacts ==
  ASSUME NEW old \in Entries, NEW r \in Results
  PROVE  LET entry == TerminalEntry(old, r)
         IN  /\ entry \in Entries /\ entry.state \notin Open
             /\ entry.state = "succeeded" <=> r = "succeeded"
             /\ entry.total = old.total + 1 /\ entry.abandoned = old.abandoned
             /\ entry.consecutive = IF r = "succeeded" THEN 0 ELSE old.consecutive + 1
<1> DEFINE end  == IF r \in {"succeeded", "interrupted"} THEN r ELSE "failed"
           lost == IF r = "succeeded" THEN 0 ELSE old.consecutive + 1
<1>1. end \in {"succeeded", "interrupted", "failed"} /\ (end = "succeeded" <=> r = "succeeded")
    OBVIOUS
<1>2. lost \in Nat /\ old.total + 1 \in Nat
    BY DEF Entries
<1>3. TerminalEntry(old, r) = [old EXCEPT !.state = end, !.total = @ + 1, !.consecutive = lost]
    BY DEF TerminalEntry, Entries
<1>4. lost = IF r = "succeeded" THEN 0 ELSE old.consecutive + 1
    OBVIOUS
<1> HIDE DEF end, lost
<1> QED
    BY <1>1, <1>2, <1>3, <1>4 DEF Entries, States, Open

LEMMA FirstEntry ==
  ASSUME IInv, NEW t \in Tasks, run[t].pc = "starting"
  PROVE  LET entry == BeginEntry(file[t])
         IN  /\ entry \in Entries /\ entry.state \in Open
             /\ Write(t, entry) => file'[t] = entry /\ Healthy(t)' /\ Counted(t)'
<1> DEFINE entry == BeginEntry(file[t])
           lost  == IF file[t].state \in Open THEN 1 ELSE 0
<1>1. file[t] \in Entries
    BY DEF IInv, TypeOK
<1>2. /\ entry \in Entries /\ entry.state = "running" /\ entry.total = file[t].total
      /\ entry.consecutive = file[t].consecutive + lost /\ entry.abandoned = file[t].abandoned + lost
    BY <1>1, BeginFacts
<1>3. ASSUME Write(t, entry) PROVE file'[t] = entry /\ Healthy(t)' /\ Counted(t)'
  <2>1. file'[t] = entry /\ begun'[t] = begun[t] + 1 /\ published'[t] = published[t] + 1
    BY <1>2, <1>3 DEF Write, IInv, TypeOK
  <2>2. file[t].consecutive + lost = begun[t] /\ file[t].total + file[t].abandoned + lost = published[t]
    BY DEF IInv, TaskInv, Counted
  <2>3. lost \in Nat /\ file[t].total \in Nat /\ file[t].abandoned \in Nat /\ file[t].consecutive \in Nat
    BY <1>1 DEF Entries
  <2>4. Counted(t)'
    <3> HIDE DEF entry, lost
    <3> QED
      BY <1>2, <2>1, <2>2, <2>3 DEF Counted, Open
  <2> QED
    BY <1>2, <2>1, <2>4 DEF Healthy
<1> QED
    BY <1>2, <1>3 DEF Open

LEMMA NextEntry ==
  ASSUME IInv, NEW t \in Tasks, run[t].pc = "recording", NEW retry \in BOOLEAN
  PROVE  LET entry == AttemptEntry(run[t].entry, run[t].n, retry)
         IN  /\ entry \in Entries /\ entry.state \in Open
             /\ Write(t, entry) => file'[t] = entry /\ Healthy(t)' /\ Counted(t)'
<1> DEFINE entry == AttemptEntry(run[t].entry, run[t].n, retry)
<1>1. run[t] \in Runs /\ run[t].entry = file[t] /\ file[t].state \in Open /\ file[t] \in Entries
    BY DEF IInv, TypeOK, TaskInv, Known
<1>2. /\ entry \in Entries /\ entry.state \in Open /\ entry.total = file[t].total
      /\ entry.consecutive = file[t].consecutive /\ entry.abandoned = file[t].abandoned
    BY <1>1 DEF AttemptEntry, Entries, States, Runs, Open
<1>3. ASSUME Write(t, entry) PROVE file'[t] = entry /\ Healthy(t)' /\ Counted(t)'
  <2>1. file'[t] = entry /\ begun'[t] = begun[t] /\ published'[t] = published[t]
    BY <1>2, <1>3 DEF Write, IInv, TypeOK, Open
  <2>2. Counted(t)
    BY DEF IInv, TaskInv
  <2> HIDE DEF entry
  <2> QED
    BY <1>1, <1>2, <2>1, <2>2 DEF Counted, Healthy, Open
<1> QED
    BY <1>2, <1>3

LEMMA LastEntry ==
  ASSUME IInv, NEW t \in Tasks, run[t].pc = "finishing", UNCHANGED <<child, earned>>
  PROVE  LET entry == TerminalEntry(run[t].entry, run[t].result)
         IN  /\ entry \in Entries
             /\ Write(t, entry) => Healthy(t)' /\ Counted(t)'
<1> DEFINE r     == run[t].result
           entry == TerminalEntry(run[t].entry, r)
<1>1. run[t] \in Runs /\ run[t].entry = file[t] /\ file[t].state \in Open /\ file[t] \in Entries
    BY DEF IInv, TypeOK, TaskInv, Known
<1>2. /\ entry \in Entries /\ entry.state \notin Open
      /\ entry.state = "succeeded" <=> r = "succeeded"
      /\ entry.total = file[t].total + 1 /\ entry.abandoned = file[t].abandoned
      /\ entry.consecutive = IF r = "succeeded" THEN 0 ELSE file[t].consecutive + 1
    BY <1>1, TerminalFacts DEF Runs
<1>3. ASSUME Write(t, entry) PROVE Healthy(t)' /\ Counted(t)'
  <2>1. /\ file'[t] = entry /\ published'[t] = published[t]
        /\ earned'[t] = earned[t] /\ child'[t] = "none"
        /\ begun'[t] = IF entry.state = "succeeded" THEN 0 ELSE begun[t]
    BY <1>3 DEF Write, IInv, TypeOK, TaskInv, Honest
  <2>2. /\ file[t].consecutive + 1 = begun[t] /\ file[t].total + file[t].abandoned + 1 = published[t]
        /\ file[t].total \in Nat /\ file[t].abandoned \in Nat /\ file[t].consecutive \in Nat
    BY <1>1 DEF IInv, TaskInv, Counted, Entries
  <2>3. r = "succeeded" => earned[t]
    BY DEF IInv, TaskInv, Honest
  <2>4. Healthy(t)'
    <3> HIDE DEF entry, r
    <3> QED
      BY <1>2, <2>1, <2>3 DEF Healthy
  <2>5. Counted(t)'
    <3> HIDE DEF entry, r
    <3> QED
      BY <1>2, <2>1, <2>2 DEF Counted
  <2> QED
    BY <2>4, <2>5
<1> QED
    BY <1>2, <1>3

-----------------------------------------------------------------------------
(* The steps.                                                              *)

\* What is known of a task, and of the run it holds.
LEMMA TaskFacts ==
  ASSUME IInv, NEW t \in Tasks
  PROVE  /\ run[t] \in Runs /\ child[t] \in {"none", "fetching", "committed"}
         /\ lock \in Tasks \cup {None} /\ runs \in Nat /\ exit \in [Tasks -> Exits]
         /\ run \in [Tasks -> Runs] /\ file \in [Tasks -> Entries]
         /\ child \in [Tasks -> {"none", "fetching", "committed"}]
         /\ child = [child EXCEPT ![t] = child[t]] /\ run = [run EXCEPT ![t] = run[t]]
         /\ Timed(t) /\ Numbered(t) /\ Known(t) /\ Honest(t)
  BY DEF IInv, TypeOK, TaskInv

LEMMA RunTyped == ASSUME IInv, NEW t \in Tasks PROVE run[t] \in Runs
  BY DEF IInv, TypeOK

LEMMA Names ==
  /\ "locking" \in PCs /\ "starting" \in PCs /\ "deciding" \in PCs /\ "attempting" \in PCs
  /\ "terminating" \in PCs /\ "recording" \in PCs /\ "waiting" \in PCs /\ "finishing" \in PCs
  /\ "interrupted" \in Results /\ "retryable" \in Results /\ "fatal" \in Results
  /\ 0 \in Int /\ 1 \in 0..MaxAttempts /\ Budget \in Int /\ Deadline \in Int
  BY DEF PCs, Results

LEMMA StartStep == ASSUME IInv, NEW t \in Tasks, Start(t) PROVE IInv'
<1> DEFINE r == [NoRun EXCEPT !.pc = "locking", !.left = Deadline, !.timer = Lesser(LockTimeout, Deadline)]
<1>1. run' = [run EXCEPT ![t] = r] /\ child[t] = "none" /\ UNCHANGED <<lock, child, file, published, begun, earned>>
    BY DEF Start
<1>2. r \in Runs /\ r.pc = "locking" /\ r.age = 0 /\ r.timer >= 0 /\ r.timer <= r.left /\ r.stop = FALSE
  <2> DEFINE wait == Lesser(LockTimeout, Deadline)
  <2>1. wait \in Int /\ wait >= 0 /\ wait <= Deadline
    BY DEF Lesser
  <2> HIDE DEF wait
  <2>2. [NoRun EXCEPT !.pc = "locking", !.left = Deadline, !.timer = wait] \in Runs
    BY <2>1, Names, NoRunTyped, Zenon DEF Runs
  <2> QED
    BY <2>1, <2>2 DEF NoRun, wait
<1>3. run'[t] = r
    BY <1>1, TaskFacts
<1>4. runs' \in Nat /\ exit' \in [Tasks -> Exits]
    BY TaskFacts DEF Start, Exits
<1> HIDE DEF r
<1>5. child'[t] = "none" /\ child = [child EXCEPT ![t] = child[t]]
    BY <1>1, TaskFacts
<1>6. r.age <= Budget /\ r.left >= 0 /\ r.left \in Int /\ r.timer \in Int
    BY <1>2 DEF Runs
<1>7. Timed(t)' /\ Numbered(t)' /\ Known(t)' /\ Honest(t)'
    BY <1>2, <1>3, <1>5, <1>6 DEF Timed, Numbered, Known, Honest
<1> QED
    BY <1>1, <1>2, <1>4, <1>7, TaskFacts, QuietStep

\* A stop request.
LEMMA StopStep == ASSUME IInv, NEW t \in Tasks, Stop(t) PROVE IInv'
<1> DEFINE r == [run[t] EXCEPT !.stop = TRUE]
<1>1. /\ run' = [run EXCEPT ![t] = r] /\ UNCHANGED <<child, lock, file, ghosts>>
      /\ run[t].pc # "idle" /\ ~run[t].stop
    BY TaskFacts DEF Stop, Active
<1>2. r \in Runs
    BY RunTyped, Zenon DEF Runs
<1>3. run'[t] = r
    BY <1>1, TaskFacts
<1>4. Timed(t)' /\ Numbered(t)' /\ Known(t)' /\ Honest(t)'
    BY <1>1, <1>3, TaskFacts DEF Timed, Numbered, Known, Honest, Runs, ghosts
<1> QED
    BY <1>1, <1>2, <1>4, TaskFacts, QuietStep DEF ghosts

LEMMA LockStep == ASSUME IInv, NEW t \in Tasks, Lock(t) PROVE IInv'
<1>1. /\ run[t].pc = "locking" /\ UNCHANGED <<child, file, runs, published, begun, earned>>
      /\ lock' \in Tasks \cup {None}
    BY TaskFacts DEF Lock
<1>2. CASE \E code \in {"interrupted", "busy"} : Exit(t, code)
    BY <1>1, <1>2, GoneStep DEF Exits
<1>3. CASE run' = [run EXCEPT ![t].pc = "starting", ![t].timer = 0] /\ UNCHANGED exit
  <2> DEFINE r == [run[t] EXCEPT !.pc = "starting", !.timer = 0]
  <2>1. run' = [run EXCEPT ![t] = r] /\ r \in Runs /\ run'[t] = r
    <3>1. r \in Runs
      BY <1>3, RunTyped, Names, Zenon DEF Runs
    <3> HIDE DEF r
    <3>2. run' = [run EXCEPT ![t] = r]
      BY <1>3, TaskFacts DEF r
    <3> QED
      BY <3>1, <3>2, TaskFacts
  <2>2. Timed(t)' /\ Numbered(t)' /\ Known(t)' /\ Honest(t)'
    BY <1>1, <2>1, TaskFacts DEF Timed, Numbered, Known, Honest, Runs
  <2> QED
    BY <1>1, <1>3, <2>1, <2>2, TaskFacts, QuietStep
<1> QED
    BY <1>2, <1>3 DEF Lock

\* A write that succeeded, of an entry that keeps the books.
LEMMA WrittenStep ==
  ASSUME IInv, NEW t \in Tasks, NEW r \in Runs, NEW entry \in Entries,
         run' = [run EXCEPT ![t] = r], Write(t, entry), UNCHANGED <<child, lock, runs, earned, exit>>,
         run[t].pc \in {"starting", "recording"}, Healthy(t)', Counted(t)', entry.state \in Open,
         Timed(t)', Numbered(t)', r.entry = entry, r.pc \notin {"attempting", "terminating"},
         r.pc \in {"recording", "finishing"} /\ r.result = "succeeded" =>
            run[t].pc = "recording" /\ run[t].result = "succeeded"
  PROVE  IInv'
<1>1. run'[t] = r /\ file'[t] = entry /\ child'[t] = "none"
    BY TaskFacts DEF Write, Honest
<1>2. Known(t)' /\ Honest(t)'
    BY <1>1, TaskFacts DEF Known, Honest
<1>3. TypeOK'
    BY TaskFacts DEF IInv, TypeOK, Write
<1> QED
    BY <1>2, <1>3, OneTask DEF IInv, TypeOK, TaskInv, Write

\* A write that failed, or is not known to be durable.
LEMMA TelemetryStep ==
  ASSUME IInv, NEW t \in Tasks, NEW entry \in Entries, TelemetryFails(t, entry), UNCHANGED <<child, runs, earned>>,
         run[t].pc \in {"starting", "recording", "finishing"}, Write(t, entry) => Healthy(t)' /\ Counted(t)'
  PROVE  IInv'
<1>1. lock' \in Tasks \cup {None} /\ "ioerr" \in Exits /\ Exit(t, "ioerr")
    BY DEF TelemetryFails, Exits
<1>2. Active(t) /\ run[t].pc \notin {"attempting", "terminating"}
    BY DEF Active
<1>3. \/ UNCHANGED <<file, published, begun>>
      \/ Write(t, entry) /\ Healthy(t)' /\ Counted(t)' /\ Active(t) /\ run[t].pc \notin {"attempting", "terminating"}
    BY <1>2 DEF TelemetryFails
<1> QED
    BY <1>1, <1>3, GoneStep

LEMMA PublishStep == ASSUME IInv, NEW t \in Tasks, Publish(t) PROVE IInv'
<1> DEFINE entry == BeginEntry(file[t])
<1>1. run[t].pc = "starting" /\ UNCHANGED <<child, runs, earned>>
    BY DEF Publish
<1>2. /\ entry \in Entries /\ entry.state \in Open
      /\ Write(t, entry) => file'[t] = entry /\ Healthy(t)' /\ Counted(t)'
    BY <1>1, FirstEntry
<1>3. CASE /\ Write(t, entry) /\ UNCHANGED <<lock, exit>>
           /\ run' = [run EXCEPT ![t].pc = "deciding", ![t].n = 1, ![t].entry = entry]
  <2> HIDE DEF entry
  <2> DEFINE r == [run[t] EXCEPT !.pc = "deciding", !.n = 1, !.entry = entry]
  <2>1. run' = [run EXCEPT ![t] = r] /\ r \in Runs /\ run'[t] = r
    <3>1. r \in Runs
      BY <1>2, <1>3, RunTyped, Names, Zenon DEF Runs
    <3> HIDE DEF r
    <3>2. run' = [run EXCEPT ![t] = r]
      BY <1>2, <1>3, TaskFacts DEF r
    <3> QED
      BY <3>1, <3>2, TaskFacts
  <2>2. Timed(t)' /\ Numbered(t)'
    BY <1>1, <2>1, TaskFacts DEF Timed, Numbered, Runs
  <2>3. r.pc = "deciding" /\ r.entry = entry
    BY TaskFacts DEF Runs
  <2> HIDE DEF r
  <2> QED
    BY <1>1, <1>2, <1>3, <2>1, <2>2, <2>3, WrittenStep
<1>4. CASE TelemetryFails(t, entry)
  <2> HIDE DEF entry
  <2> QED
    BY <1>1, <1>2, <1>4, TelemetryStep
<1> QED
    BY <1>3, <1>4 DEF Publish

\* An attempt is given what is left of the run without the budget.
LEMMA DecideStep == ASSUME IInv, NEW t \in Tasks, Decide(t) PROVE IInv'
<1>1. run[t].pc = "deciding" /\ UNCHANGED <<lock, file, runs, published, begun, exit>>
    BY DEF Decide
<1>2. PICK p \in {"finishing", "recording"}, res \in {"interrupted", "fatal", "retryable"} :
          \/ /\ run' = [run EXCEPT ![t].pc = p, ![t].result = res]
             /\ UNCHANGED <<child, earned>>
          \/ /\ run[t].left > Budget /\ child' = [child EXCEPT ![t] = "fetching"]
             /\ earned' = [earned EXCEPT ![t] = FALSE]
             /\ run' = [run EXCEPT ![t].pc = "attempting", ![t].timer = AttemptTime(t)]
    BY DEF Decide
<1>3. CASE run' = [run EXCEPT ![t].pc = p, ![t].result = res] /\ UNCHANGED <<child, earned>>
  <2> DEFINE r == [run[t] EXCEPT !.pc = p, !.result = res]
  <2>1. run' = [run EXCEPT ![t] = r] /\ r \in Runs /\ run'[t] = r
    <3>1. r \in Runs
      BY <1>3, RunTyped, Names, Zenon DEF Runs
    <3> HIDE DEF r
    <3>2. run' = [run EXCEPT ![t] = r]
      BY <1>3, TaskFacts DEF r
    <3> QED
      BY <3>1, <3>2, TaskFacts
  <2>2. Timed(t)' /\ Numbered(t)' /\ Known(t)' /\ Honest(t)'
    BY <1>1, <1>3, <2>1, TaskFacts DEF Timed, Numbered, Known, Honest, Runs
  <2> QED
    BY <1>1, <1>3, <2>1, <2>2, TaskFacts, QuietStep
<1>4. CASE /\ run[t].left > Budget /\ child' = [child EXCEPT ![t] = "fetching"]
           /\ earned' = [earned EXCEPT ![t] = FALSE]
           /\ run' = [run EXCEPT ![t].pc = "attempting", ![t].timer = AttemptTime(t)]
  <2> DEFINE time == AttemptTime(t)
             r    == [run[t] EXCEPT !.pc = "attempting", !.timer = time]
  <2>1. time \in Nat /\ time + Budget <= run[t].left
    BY <1>4, TaskFacts, LesserFacts DEF AttemptTime, Runs
  <2>2. run' = [run EXCEPT ![t] = [run[t] EXCEPT !.pc = "attempting", !.timer = time]]
    BY <1>4, TaskFacts
  <2> HIDE DEF time
  <2>3. r \in Runs /\ run'[t] = r
    <3>1. time \in Int
      BY <2>1
    <3>2. r \in Runs
      BY <3>1, RunTyped, Names, Zenon DEF Runs
    <3> QED
      BY <2>2, <3>2, TaskFacts
  <2>4. Timed(t)' /\ Numbered(t)' /\ Known(t)'
    BY <1>1, <2>1, <2>3, TaskFacts DEF Timed, Numbered, Known, Runs
  <2>5. Honest(t)'
    BY <1>1, <1>4, <2>3, TaskFacts DEF Honest, Runs
  <2>6. file[t].state # "succeeded"
    BY <1>1, TaskFacts DEF Known, Open
  <2> QED
    BY <1>1, <1>4, <2>2, <2>3, <2>4, <2>5, <2>6, AttemptStep
<1> QED
    BY <1>2, <1>3, <1>4

LEMMA ChildCommitsStep == ASSUME IInv, NEW t \in Tasks, ChildCommits(t) PROVE IInv'
<1>1. /\ child[t] = "fetching" /\ child' = [child EXCEPT ![t] = "committed"]
      /\ UNCHANGED <<run, lock, file, ghosts>>
    BY DEF ChildCommits
<1>2. child'[t] = "committed"
    BY <1>1 DEF IInv, TypeOK
<1>3. TaskInv(t)'
    BY <1>1, <1>2 DEF IInv, TaskInv, Timed, Numbered, Known, Honest, Healthy, Counted, ghosts
<1>4. TypeOK'
    BY <1>1 DEF IInv, TypeOK, ghosts
<1> QED
    BY <1>1, <1>3, <1>4, OneTask DEF IInv, TypeOK, ghosts

\* A success is reported only with the save done.
LEMMA CollectStep == ASSUME IInv, NEW t \in Tasks, Collect(t) PROVE IInv'
<1>1. PICK res \in ChildOutcomes(t) :
          /\ run[t].pc = "attempting" /\ child' = [child EXCEPT ![t] = "none"]
          /\ earned' = [earned EXCEPT ![t] = res = "succeeded" /\ (t \in Savers => child[t] = "committed")]
          /\ UNCHANGED <<lock, file, runs, published, begun, exit>>
          /\ run' = [run EXCEPT ![t].pc = "recording", ![t].timer = 0, ![t].result = res]
    BY DEF Collect
<1>2. res \in Results /\ (res = "succeeded" /\ t \in Savers => child[t] = "committed")
    BY DEF ChildOutcomes, Results
<1> DEFINE r == [run[t] EXCEPT !.pc = "recording", !.timer = 0, !.result = res]
<1>3. run' = [run EXCEPT ![t] = r] /\ r \in Runs /\ run'[t] = r
  <2>1. r \in Runs
    BY <1>1, <1>2, RunTyped, Names, Zenon DEF Runs
  <2> HIDE DEF r
  <2>2. run' = [run EXCEPT ![t] = r]
    BY <1>1, <1>2, TaskFacts DEF r
  <2> QED
    BY <2>1, <2>2, TaskFacts
<1>4. Timed(t)' /\ Numbered(t)' /\ Known(t)'
    BY <1>1, <1>3, TaskFacts DEF Timed, Numbered, Known, Runs
<1>5. Honest(t)'
    BY <1>1, <1>2, <1>3, TaskFacts DEF Honest, Runs, IInv, TypeOK
<1>6. file[t].state # "succeeded"
    BY <1>1, TaskFacts DEF Known, Open
<1> QED
    BY <1>1, <1>2, <1>3, <1>4, <1>5, <1>6, AttemptStep

LEMMA TerminateStep == ASSUME IInv, NEW t \in Tasks, Terminate(t) PROVE IInv'
<1>1. PICK res \in {"interrupted", "retryable"} :
          /\ run[t].pc = "attempting" /\ UNCHANGED <<child, lock, file, ghosts>>
          /\ run' = [run EXCEPT ![t].pc = "terminating", ![t].timer = Budget, ![t].result = res]
    BY DEF Terminate
<1> DEFINE r == [run[t] EXCEPT !.pc = "terminating", !.timer = Budget, !.result = res]
<1>2. run' = [run EXCEPT ![t] = r] /\ r \in Runs /\ run'[t] = r
  <2>1. r \in Runs
    BY <1>1, RunTyped, Names, Zenon DEF Runs
  <2> HIDE DEF r
  <2>2. run' = [run EXCEPT ![t] = r]
    BY <1>1, TaskFacts DEF r
  <2> QED
    BY <2>1, <2>2, TaskFacts
<1>3. Timed(t)' /\ Numbered(t)' /\ Known(t)' /\ Honest(t)'
    BY <1>1, <1>2, TaskFacts DEF Timed, Numbered, Known, Honest, Runs, ghosts
<1> QED
    BY <1>1, <1>2, <1>3, TaskFacts, QuietStep DEF ghosts

LEMMA TerminatedStep == ASSUME IInv, NEW t \in Tasks, Terminated(t) PROVE IInv'
<1>1. /\ run[t].pc = "terminating" /\ child' = [child EXCEPT ![t] = "none"] /\ UNCHANGED <<lock, file, ghosts>>
      /\ run' = [run EXCEPT ![t].pc = "recording", ![t].timer = 0]
    BY DEF Terminated
<1> DEFINE r == [run[t] EXCEPT !.pc = "recording", !.timer = 0]
<1>2. run' = [run EXCEPT ![t] = r] /\ r \in Runs /\ run'[t] = r
  <2>1. r \in Runs
    BY <1>1, RunTyped, Names, Zenon DEF Runs
  <2> HIDE DEF r
  <2>2. run' = [run EXCEPT ![t] = r]
    BY <1>1, TaskFacts DEF r
  <2> QED
    BY <2>1, <2>2, TaskFacts
<1>3. Timed(t)' /\ Numbered(t)' /\ Known(t)' /\ Honest(t)'
    BY <1>1, <1>2, TaskFacts DEF Timed, Numbered, Known, Honest, Runs, ghosts
<1> QED
    BY <1>1, <1>2, <1>3, TaskFacts, QuietStep DEF ghosts

\* A retry is begun only with its back-off inside the deadline and no stop requested.
LEMMA RecordStep == ASSUME IInv, NEW t \in Tasks, Record(t) PROVE IInv'
<1> DEFINE retry == Retries(t)
           entry == AttemptEntry(run[t].entry, run[t].n, retry)
           delay == Backoff(run[t].n)
<1>1. run[t].pc = "recording" /\ UNCHANGED <<child, runs, earned>> /\ retry \in BOOLEAN
    BY DEF Record, Retries
<1>2. /\ entry \in Entries /\ entry.state \in Open
      /\ Write(t, entry) => file'[t] = entry /\ Healthy(t)' /\ Counted(t)'
    BY <1>1, NextEntry
<1>3. delay \in Nat /\ (retry => run[t].left > delay /\ ~run[t].stop /\ run[t].n < MaxAttempts)
    BY BackoffType DEF Retries
<1>4. \/ /\ Write(t, entry) /\ UNCHANGED <<lock, exit>>
         /\ run' = [run EXCEPT ![t].entry = entry, ![t].pc = IF retry THEN "waiting" ELSE "finishing",
                               ![t].timer = IF retry THEN delay ELSE 0]
      \/ TelemetryFails(t, entry)
    BY DEF Record
<1> HIDE DEF retry, entry, delay
<1>5. CASE /\ Write(t, entry) /\ UNCHANGED <<lock, exit>>
           /\ run' = [run EXCEPT ![t].entry = entry, ![t].pc = IF retry THEN "waiting" ELSE "finishing",
                                 ![t].timer = IF retry THEN delay ELSE 0]
  <2> DEFINE r == [run[t] EXCEPT !.entry = entry, !.pc = IF retry THEN "waiting" ELSE "finishing",
                                 !.timer = IF retry THEN delay ELSE 0]
  <2>1. r \in Runs
    <3> DEFINE p == IF retry THEN "waiting" ELSE "finishing"
               k == IF retry THEN delay ELSE 0
    <3>1. p \in PCs /\ k \in Int
      BY <1>3, Names
    <3> HIDE DEF p, k
    <3>2. [run[t] EXCEPT !.entry = entry, !.pc = p, !.timer = k] \in Runs
      BY <1>2, <3>1, RunTyped, Zenon DEF Runs
    <3> QED
      BY <3>2 DEF p, k
  <2>2. run' = [run EXCEPT ![t] = r] /\ run'[t] = r
    BY <1>5, TaskFacts
  <2>3. Timed(t)' /\ Numbered(t)'
    BY <1>1, <1>3, <2>2, TaskFacts DEF Timed, Numbered, Runs
  <2>4. r.pc \in {"waiting", "finishing"} /\ r.entry = entry /\ r.result = run[t].result
    BY TaskFacts DEF Runs
  <2> HIDE DEF r
  <2> QED
    BY <1>1, <1>2, <1>5, <2>1, <2>2, <2>3, <2>4, WrittenStep
<1>6. CASE TelemetryFails(t, entry)
    BY <1>1, <1>2, <1>6, TelemetryStep
<1> QED
    BY <1>4, <1>5, <1>6

LEMMA ResumeStep == ASSUME IInv, NEW t \in Tasks, Resume(t) PROVE IInv'
<1>1. run[t].pc = "waiting" /\ UNCHANGED <<child, lock, file, ghosts>>
    BY DEF Resume
<1>2. CASE run' = [run EXCEPT ![t].pc = "finishing", ![t].timer = 0, ![t].result = "interrupted"]
  <2> DEFINE r == [run[t] EXCEPT !.pc = "finishing", !.timer = 0, !.result = "interrupted"]
  <2>1. run' = [run EXCEPT ![t] = r] /\ r \in Runs /\ run'[t] = r
    <3>1. r \in Runs
      BY <1>2, RunTyped, Names, Zenon DEF Runs
    <3> HIDE DEF r
    <3>2. run' = [run EXCEPT ![t] = r]
      BY <1>2, TaskFacts DEF r
    <3> QED
      BY <3>1, <3>2, TaskFacts
  <2>2. Timed(t)' /\ Numbered(t)' /\ Known(t)' /\ Honest(t)'
    BY <1>1, <2>1, TaskFacts DEF Timed, Numbered, Known, Honest, Runs, ghosts
  <2> QED
    BY <1>1, <2>1, <2>2, TaskFacts, QuietStep DEF ghosts
<1>3. CASE run' = [run EXCEPT ![t].pc = "deciding", ![t].n = @ + 1]
  <2> DEFINE r == [run[t] EXCEPT !.pc = "deciding", !.n = @ + 1]
  <2>1. run[t].n + 1 \in 0..MaxAttempts
    BY <1>1, TaskFacts DEF Numbered, Runs
  <2>2. run' = [run EXCEPT ![t] = r] /\ r \in Runs /\ run'[t] = r
    <3>1. r \in Runs
      BY <1>3, <2>1, RunTyped, Names, Zenon DEF Runs
    <3> HIDE DEF r
    <3>2. run' = [run EXCEPT ![t] = r]
      BY <1>3, <2>1, TaskFacts DEF r
    <3> QED
      BY <3>1, <3>2, TaskFacts
  <2>3. Timed(t)' /\ Numbered(t)' /\ Known(t)' /\ Honest(t)'
    BY <1>1, <2>2, TaskFacts DEF Timed, Numbered, Known, Honest, Runs, ghosts
  <2> QED
    BY <1>1, <2>2, <2>3, TaskFacts, QuietStep DEF ghosts
<1> QED
    BY <1>2, <1>3 DEF Resume

LEMMA FinishStep == ASSUME IInv, NEW t \in Tasks, Finish(t) PROVE IInv'
<1> DEFINE entry == TerminalEntry(run[t].entry, run[t].result)
<1>1. run[t].pc = "finishing" /\ UNCHANGED <<child, runs, earned>>
    BY DEF Finish
<1>2. entry \in Entries /\ (Write(t, entry) => Healthy(t)' /\ Counted(t)')
    BY <1>1, LastEntry
<1>3. PICK code \in {"ok", "failed"} :
          (Write(t, entry) /\ lock' = None /\ Exit(t, code)) \/ TelemetryFails(t, entry)
    BY DEF Finish
<1> HIDE DEF entry
<1>4. CASE Write(t, entry) /\ lock' = None /\ Exit(t, code)
  <2>1. lock' \in Tasks \cup {None} /\ code \in Exits
    BY <1>4 DEF Exits
  <2>2. Active(t) /\ run[t].pc \notin {"attempting", "terminating"}
    BY <1>1 DEF Active
  <2> QED
    BY <1>1, <1>2, <1>4, <2>1, <2>2, GoneStep
<1>5. CASE TelemetryFails(t, entry)
    BY <1>1, <1>2, <1>5, TelemetryStep
<1> QED
    BY <1>3, <1>4, <1>5

LEMMA CrashStep == ASSUME IInv, NEW t \in Tasks, Crash(t) PROVE IInv'
<1>1. /\ Exit(t, "killed") /\ "killed" \in Exits /\ lock' \in Tasks \cup {None}
      /\ UNCHANGED <<child, file, runs, published, begun, earned>>
    BY TaskFacts DEF Crash, Exits
<1> QED
    BY <1>1, GoneStep

LEMMA ReapStep == ASSUME IInv, NEW t \in Tasks, Reap(t) PROVE IInv'
<1>1. run[t].pc = "idle" /\ child' = [child EXCEPT ![t] = "none"] /\ UNCHANGED <<run, lock, file, ghosts>>
    BY DEF Reap, Active
<1>2. Timed(t)' /\ Numbered(t)' /\ Known(t)' /\ Honest(t)'
    BY <1>1, TaskFacts DEF Timed, Numbered, Known, Honest, ghosts
<1> QED
    BY <1>1, <1>2, TaskFacts, QuietStep DEF ghosts

\* Time passes only inside waits that have time left.
LEMMA TickStep == ASSUME IInv, Tick PROVE IInv'
<1>1. UNCHANGED <<child, lock, file, ghosts>>
    BY DEF Tick
<1>2. ASSUME NEW t \in Tasks PROVE TaskInv(t)' /\ run'[t] \in Runs
  <2>1. CASE ~Active(t)
    <3>1. run'[t] = run[t]
      BY <2>1 DEF Tick
    <3> QED
      BY <1>1, <3>1, TaskFacts DEF IInv, TaskInv, Timed, Numbered, Known, Honest, Healthy, Counted, ghosts
  <2>2. CASE Active(t)
    <3>1. /\ run[t].pc \in {"locking", "attempting", "waiting", "terminating"} /\ run[t].timer > 0
          /\ run[t].pc = "terminating" \/ ~run[t].stop
      BY <2>2 DEF Tick, MayWait
    <3> DEFINE age == IF run[t].stop THEN run[t].age + 1 ELSE run[t].age
               r   == [run[t] EXCEPT !.left = @ - 1, !.timer = @ - 1, !.age = age]
    <3>2. run'[t] = r
      BY <2>2, TaskFacts DEF Tick, Runs
    <3>3. age \in Nat /\ (run[t].stop => age = run[t].age + 1) /\ (~run[t].stop => age = run[t].age)
      BY TaskFacts DEF Runs
    <3> HIDE DEF age
    <3>4. r \in Runs
      <4>1. run[t].left - 1 \in Int /\ run[t].timer - 1 \in Int
        BY TaskFacts DEF Runs
      <4> QED
        BY <3>3, <4>1, RunTyped, Zenon DEF Runs
    <3>5. Timed(t)'
      BY <3>1, <3>2, <3>3, TaskFacts DEF Timed, Runs
    <3>6. Numbered(t)' /\ Known(t)' /\ Honest(t)'
      BY <1>1, <3>1, <3>2, TaskFacts DEF Numbered, Known, Honest, Runs, ghosts
    <3>7. Healthy(t)' /\ Counted(t)'
      BY <1>1 DEF IInv, TaskInv, Healthy, Counted, ghosts
    <3> QED
      BY <3>2, <3>4, <3>5, <3>6, <3>7 DEF TaskInv
  <2> QED
    BY <2>1, <2>2
<1>3. run' \in [Tasks -> Runs]
    BY <1>2 DEF Tick
<1>4. TypeOK'
    BY <1>1, <1>3 DEF IInv, TypeOK, ghosts
<1> QED
    BY <1>2, <1>4 DEF IInv

-----------------------------------------------------------------------------
(* Theorems.                                                               *)

\* The invariant is inductive.
THEOREM Invariance == Spec => []IInv
<1>1. IInv /\ [Next]_vars => IInv'
  <2> SUFFICES ASSUME IInv, [Next]_vars PROVE IInv'
      OBVIOUS
  <2>1. ASSUME NEW t \in Tasks, Start(t) \/ Stop(t) \/ Supervise(t) \/ Collect(t)
                                \/ ChildCommits(t) \/ Crash(t) \/ Reap(t)
        PROVE  IInv'
    BY <2>1, StartStep, StopStep, LockStep, PublishStep, DecideStep, TerminateStep, TerminatedStep, RecordStep,
       ResumeStep, FinishStep, CollectStep, ChildCommitsStep, CrashStep, ReapStep DEF Supervise
  <2>2. CASE UNCHANGED vars
    BY <2>2 DEF vars, ghosts, IInv, TypeOK, TaskInv, Timed, Numbered, Known, Honest, Healthy, Counted
  <2> QED
    BY <2>1, <2>2, TickStep DEF Next
<1> QED
    BY <1>1, InitIInv, PTL DEF Spec

\* Runs, their entries and the state file keep their types.
THEOREM TypeCorrect == Spec => []TypeOK
  BY Invariance, PTL DEF IInv

\* A run has ended its attempt and written its last entry inside its deadline, whatever its
\* attempts and the other task's run do.
THEOREM RunsEndInTime == Spec => []WithinDeadline
<1>1. IInv => WithinDeadline
    BY DEF IInv, TaskInv, Timed, WithinDeadline
<1> QED
    BY <1>1, Invariance, PTL

\* No wait of the supervisor outlives a stop request by more than the shutdown budget.
THEOREM StopsArePrompt == Spec => []StopIsPrompt
<1>1. IInv => StopIsPrompt
    BY DEF IInv, TaskInv, Timed, StopIsPrompt
<1> QED
    BY <1>1, Invariance, PTL

\* A healthy entry speaks for the last attempt ever started: it succeeded, with its save done,
\* and no run, whether killed or unable to write its state, has started another since.
THEOREM HealthIsEarned == Spec => []HealthyIsTrue
<1>1. IInv => HealthyIsTrue
    BY DEF IInv, TaskInv, Healthy, HealthyIsTrue
<1> QED
    BY <1>1, Invariance, PTL

\* The counters of the state file add up to the runs whose start reached it, killed ones
\* included.
THEOREM FailuresAddUp == Spec => []FailuresAreCounted
<1>1. IInv => FailuresAreCounted
    BY DEF IInv, TaskInv, Counted, FailuresAreCounted
<1> QED
    BY <1>1, Invariance, PTL
=============================================================================
