-------------------------- MODULE UnattendedWorker --------------------------
(***************************************************************************)
(* The supervisor of the unattended refresh jobs                           *)
(* (core/unattended_worker.py).  A systemd unit per task starts one run at *)
(* a time; runs of different tasks share a lock and one state file.  A run *)
(* publishes its start, supervises attempts that are processes of their    *)
(* own, retries with back-off and publishes its end, inside a deadline     *)
(* that keeps room for ending an attempt.                                  *)
(*                                                                         *)
(* Time passes (Tick) only while nobody but sleepers is left: `left` is    *)
(* what remains of a run's deadline, `timer` what remains of the wait it   *)
(* is in.                                                                  *)
(***************************************************************************)
EXTENDS Integers

CONSTANTS Tasks,          \* TASKS
          Savers,         \* tasks whose attempt saves the configuration (TASK_ALERTS)
          Deadline,       \* --deadline-seconds
          AttemptTimeout, \* --attempt-timeout-seconds
          LockTimeout,    \* --lock-timeout-seconds
          MaxAttempts,    \* --max-attempts
          InitialBackoff, \* --initial-backoff-seconds
          MaxBackoff,     \* --max-backoff-seconds
          Budget,         \* ATTEMPT_SHUTDOWN_BUDGET_SECONDS
          MaxRuns,        \* bound: runs of all tasks
          None

\* _validate_run_arguments.
ASSUME WorkerAssumption ==
    /\ Savers \subseteq Tasks /\ None \notin Tasks
    /\ Deadline \in Nat /\ AttemptTimeout \in Nat \ {0} /\ LockTimeout \in Nat
    /\ MaxAttempts \in Nat \ {0} /\ MaxRuns \in Nat
    /\ InitialBackoff \in Nat /\ MaxBackoff \in Nat /\ InitialBackoff <= MaxBackoff
    /\ Budget \in Nat \ {0} /\ Deadline > Budget /\ AttemptTimeout <= Deadline

VARIABLES
    run,        \* per task: the process of its run
    child,      \* per task: the attempt process
    lock,       \* the task whose run holds the lock file
    file,       \* the state file: an entry per task
    runs,       \* ghost: runs started
    published,  \* ghost, per task: runs whose start reached the state file
    begun,      \* ghost, per task: those since the last success in the state file
    earned,     \* ghost, per task: the last attempt started reported success, its save done
    exit        \* ghost, per task: how its last run ended

ghosts == <<runs, published, begun, earned, exit>>
vars   == <<run, child, lock, file, ghosts>>

PCs     == {"idle", "locking", "starting", "deciding", "attempting", "terminating",
            "recording", "waiting", "finishing"}
Results == {"succeeded", "retryable", "fatal", "interrupted"}
States  == {"missing", "running", "retrying", "succeeded", "interrupted", "failed"}
Exits   == {"none", "busy", "interrupted", "ioerr", "ok", "failed", "killed"}
Entries == [state : States, attempts : 0..MaxAttempts, consecutive : Nat, abandoned : Nat,
            total : Nat]

\* What a run's process holds: stop is the ShutdownRequest, entry the local `running`,
\* n the attempt number, result last_result; age is the time since the stop request.
Runs == [pc : PCs, stop : BOOLEAN, left : Int, timer : Int, age : Nat,
         n : 0..MaxAttempts, result : Results, entry : Entries]

Open == {"running", "retrying"}

Missing == [state |-> "missing", attempts |-> 0, consecutive |-> 0, abandoned |-> 0, total |-> 0]

NoRun == [pc |-> "idle", stop |-> FALSE, left |-> 0, timer |-> 0, age |-> 0,
          n |-> 0, result |-> "retryable", entry |-> Missing]

Active(t) == run[t].pc # "idle"

Lesser(a, b) == IF a <= b THEN a ELSE b

\* initial_backoff * 2 ** (attempt_number - 1), capped.
Backoff(k) ==
    LET delay == InitialBackoff * 2 ^ (k - 1)
    IN  IF delay \in 0..MaxBackoff THEN delay ELSE MaxBackoff

\* Mutant: an abandoned run is forgotten.
BeginForgetful(old) == [old EXCEPT !.state = "running", !.attempts = 0]

\* _initial_running_entry: a run that left no terminal entry failed.
BeginEntry(old) ==
    LET lost == IF old.state \in Open THEN 1 ELSE 0
    IN  [old EXCEPT !.state = "running", !.attempts = 0,
                    !.consecutive = @ + lost, !.abandoned = @ + lost]

\* _attempt_state_entry.
AttemptEntry(entry, k, retry) ==
    [entry EXCEPT !.state = IF retry THEN "retrying" ELSE "running", !.attempts = k]

\* _terminal_state_entry; attempts_completed is that of the last attempt entry.
TerminalEntry(entry, r) ==
    [entry EXCEPT
        !.state = IF r \in {"succeeded", "interrupted"} THEN r ELSE "failed",
        !.total = @ + 1,
        !.consecutive = IF r = "succeeded" THEN 0 ELSE @ + 1]

Init ==
    /\ run = [t \in Tasks |-> NoRun]
    /\ child = [t \in Tasks |-> "none"]
    /\ lock = None
    /\ file = [t \in Tasks |-> Missing]
    /\ runs = 0
    /\ published = [t \in Tasks |-> 0] /\ begun = [t \in Tasks |-> 0]
    /\ earned = [t \in Tasks |-> FALSE]
    /\ exit = [t \in Tasks |-> "none"]

-----------------------------------------------------------------------------
(* The run.                                                                *)

\* The unit is activated: not before everything of its last activation is gone.
Start(t) ==
    /\ ~Active(t) /\ child[t] = "none" /\ runs < MaxRuns
    /\ run' = [run EXCEPT ![t] = [NoRun EXCEPT !.pc = "locking", !.left = Deadline,
                                              !.timer = Lesser(LockTimeout, Deadline)]]
    /\ runs' = runs + 1
    /\ exit' = [exit EXCEPT ![t] = "none"]
    /\ UNCHANGED <<lock, child, file, published, begun, earned>>

\* SIGTERM or SIGINT: the handler sets the event.
Stop(t) ==
    /\ Active(t) /\ ~run[t].stop
    /\ run' = [run EXCEPT ![t].stop = TRUE]
    /\ UNCHANGED <<child, lock, file, ghosts>>

\* The process exits; its memory is gone.
Exit(t, code) == run' = [run EXCEPT ![t] = NoRun] /\ exit' = [exit EXCEPT ![t] = code]

\* exclusive_worker_lock: one round of its loop.
Lock(t) ==
    /\ run[t].pc = "locking"
    /\ \/ run[t].stop /\ Exit(t, "interrupted") /\ UNCHANGED lock
       \/ /\ ~run[t].stop /\ lock = None
          /\ lock' = t /\ run' = [run EXCEPT ![t].pc = "starting", ![t].timer = 0]
          /\ UNCHANGED exit
       \/ /\ ~run[t].stop /\ lock # None /\ run[t].timer = 0
          /\ Exit(t, "busy") /\ UNCHANGED lock
    /\ UNCHANGED <<child, file, runs, published, begun, earned>>

\* _update_task_state reads the file, replaces t's entry and writes the file. Both are inside
\* the worker lock, so that no other run writes between them and the other entry stays.
Write(t, entry) ==
    /\ file' = [file EXCEPT ![t] = entry]
    /\ begun' = [begun EXCEPT ![t] = IF entry.state = "succeeded" THEN 0
                                     ELSE IF run[t].pc = "starting" THEN @ + 1 ELSE @]
    /\ published' = IF run[t].pc = "starting" THEN [published EXCEPT ![t] = @ + 1] ELSE published

\* The write raises: nothing was replaced, or it was and is not known to be durable. The
\* run ends with EXIT_IOERR and no other entry.
TelemetryFails(t, entry) ==
    /\ Write(t, entry) \/ UNCHANGED <<file, published, begun>>
    /\ lock' = None
    /\ Exit(t, "ioerr")

\* Mutant: telemetry that cannot be written does not stop the run.
PublishAnyway(t) ==
    LET entry == BeginEntry(file[t])
    IN  /\ run[t].pc = "starting"
        /\ Write(t, entry) \/ UNCHANGED <<file, published, begun>>
        /\ run' = [run EXCEPT ![t].pc = "deciding", ![t].n = 1, ![t].entry = entry]
        /\ UNCHANGED <<lock, child, runs, earned, exit>>

\* The first entry of the run.
Publish(t) ==
    LET entry == BeginEntry(file[t])
    IN  /\ run[t].pc = "starting"
        /\ \/ /\ Write(t, entry)
              /\ run' = [run EXCEPT ![t].pc = "deciding", ![t].n = 1, ![t].entry = entry]
              /\ UNCHANGED <<lock, exit>>
           \/ TelemetryFails(t, entry)
        /\ UNCHANGED <<child, runs, earned>>

\* Mutant: the attempt is given its whole timeout, whatever is left of the run.
AttemptTimeGreedy(t) == AttemptTimeout

\* attempt_timeout.
AttemptTime(t) == Lesser(AttemptTimeout, run[t].left - Budget)

\* The head of the attempt loop, and run_attempt_process up to the spawn.
Decide(t) ==
    LET refuse(r) == run' = [run EXCEPT ![t].pc = "finishing", ![t].result = r]
    IN  /\ run[t].pc = "deciding"
        /\ \/ run[t].stop /\ refuse("interrupted") /\ UNCHANGED <<child, earned>>
           \/ ~run[t].stop /\ run[t].left <= Budget /\ refuse("fatal") /\ UNCHANGED <<child, earned>>
           \/ /\ ~run[t].stop /\ run[t].left > Budget
              /\ child' = [child EXCEPT ![t] = "fetching"]
              /\ earned' = [earned EXCEPT ![t] = FALSE]
              /\ run' = [run EXCEPT ![t].pc = "attempting", ![t].timer = AttemptTime(t)]
           \/ /\ ~run[t].stop /\ run[t].left > Budget
              /\ run' = [run EXCEPT ![t].pc = "recording", ![t].result = "retryable"]
              /\ UNCHANGED <<child, earned>>
        /\ UNCHANGED <<lock, file, runs, published, begun, exit>>

\* execute_task_once saves the configuration.
ChildCommits(t) ==
    /\ child[t] = "fetching" /\ t \in Savers
    /\ child' = [child EXCEPT ![t] = "committed"]
    /\ UNCHANGED <<run, lock, file, ghosts>>

\* What an attempt may report: success only with its save done. A feed can fail after
\* the save, the result can be unreadable, the save can be of uncertain durability, and the
\* attempt can be interrupted by a signal of its own.
ChildOutcomes(t) ==
    {"retryable", "fatal", "interrupted"}
        \cup (IF t \in Savers /\ child[t] # "committed" THEN {} ELSE {"succeeded"})

\* communicate returns: the process ended by itself.
Collect(t) ==
    /\ run[t].pc = "attempting"
    /\ \E r \in ChildOutcomes(t) :
         /\ run' = [run EXCEPT ![t].pc = "recording", ![t].timer = 0, ![t].result = r]
         /\ earned' = [earned EXCEPT ![t] =
                          r = "succeeded" /\ (t \in Savers => child[t] = "committed")]
    /\ child' = [child EXCEPT ![t] = "none"]
    /\ UNCHANGED <<lock, file, runs, published, begun, exit>>

\* A stop request or the attempt's deadline: _terminate_process begins.
Terminate(t) ==
    /\ run[t].pc = "attempting" /\ (run[t].stop \/ run[t].timer = 0)
    /\ run' = [run EXCEPT ![t].pc = "terminating", ![t].timer = Budget,
                          ![t].result = IF run[t].stop THEN "interrupted" ELSE "retryable"]
    /\ UNCHANGED <<child, lock, file, ghosts>>

\* The process group is gone: by SIGTERM, or by SIGKILL after the grace period.
Terminated(t) ==
    /\ run[t].pc = "terminating"
    /\ child' = [child EXCEPT ![t] = "none"]
    /\ run' = [run EXCEPT ![t].pc = "recording", ![t].timer = 0]
    /\ UNCHANGED <<lock, file, ghosts>>

\* Whether another attempt follows.
Retries(t) ==
    /\ run[t].result = "retryable" /\ run[t].n < MaxAttempts /\ ~run[t].stop
    /\ run[t].left > Backoff(run[t].n)

\* The entry of an attempt, and what follows it.
Record(t) ==
    LET entry == AttemptEntry(run[t].entry, run[t].n, Retries(t))
    IN  /\ run[t].pc = "recording"
        /\ \/ /\ Write(t, entry)
              /\ run' = [run EXCEPT ![t].entry = entry,
                            ![t].pc = IF Retries(t) THEN "waiting" ELSE "finishing",
                            ![t].timer = IF Retries(t) THEN Backoff(run[t].n) ELSE 0]
              /\ UNCHANGED <<lock, exit>>
           \/ TelemetryFails(t, entry)
        /\ UNCHANGED <<child, runs, earned>>

\* shutdown.event.wait(delay).
Resume(t) ==
    /\ run[t].pc = "waiting"
    /\ \/ /\ run[t].stop
          /\ run' = [run EXCEPT ![t].pc = "finishing", ![t].timer = 0, ![t].result = "interrupted"]
       \/ /\ ~run[t].stop /\ run[t].timer = 0
          /\ run' = [run EXCEPT ![t].pc = "deciding", ![t].n = @ + 1]
    /\ UNCHANGED <<child, lock, file, ghosts>>

\* The last entry of the run.
Finish(t) ==
    LET entry == TerminalEntry(run[t].entry, run[t].result)
    IN  /\ run[t].pc = "finishing"
        /\ \/ /\ Write(t, entry)
              /\ lock' = None
              /\ Exit(t, IF run[t].result = "succeeded" THEN "ok" ELSE "failed")
           \/ TelemetryFails(t, entry)
        /\ UNCHANGED <<child, runs, earned>>

-----------------------------------------------------------------------------
(* Faults and time.                                                        *)

\* The supervisor is killed: the kernel drops its lock, its attempt lives on.
Crash(t) ==
    /\ Active(t)
    /\ Exit(t, "killed")
    /\ lock' = IF lock = t THEN None ELSE lock
    /\ UNCHANGED <<child, file, runs, published, begun, earned>>

\* The service manager ends what is left of the unit (KillMode=mixed), or it ends by itself.
Reap(t) ==
    /\ ~Active(t) /\ child[t] # "none"
    /\ child' = [child EXCEPT ![t] = "none"]
    /\ UNCHANGED <<run, lock, file, ghosts>>

\* Mutant: communicate is called once, with the whole timeout.
MayWaitDeaf(t) ==
    \/ ~Active(t)
    \/ run[t].pc \in {"locking", "waiting"} /\ run[t].timer > 0 /\ ~run[t].stop
    \/ run[t].pc \in {"terminating", "attempting"} /\ run[t].timer > 0

\* A wait lasts until its timer ends or a stop is requested; the end of a terminated
\* process takes its time whatever is requested.
MayWait(t) ==
    \/ ~Active(t)
    \/ run[t].pc \in {"locking", "attempting", "waiting"} /\ run[t].timer > 0 /\ ~run[t].stop
    \/ run[t].pc = "terminating" /\ run[t].timer > 0

Tick ==
    /\ \A t \in Tasks : MayWait(t)
    /\ \E t \in Tasks : Active(t)
    /\ run' = [t \in Tasks |->
                  IF Active(t)
                  THEN [run[t] EXCEPT !.left = @ - 1, !.timer = @ - 1,
                                      !.age = IF run[t].stop THEN @ + 1 ELSE @]
                  ELSE run[t]]
    /\ UNCHANGED <<child, lock, file, ghosts>>

\* What the supervisor does whether or not its attempt ever ends.
Supervise(t) ==
    \/ Lock(t) \/ Publish(t) \/ Decide(t) \/ Terminate(t) \/ Terminated(t)
    \/ Record(t) \/ Resume(t) \/ Finish(t)

Next ==
    \/ \E t \in Tasks : \/ Start(t) \/ Stop(t) \/ Supervise(t) \/ Collect(t)
                        \/ ChildCommits(t) \/ Crash(t) \/ Reap(t)
    \/ Tick

Spec     == Init /\ [][Next]_vars

-----------------------------------------------------------------------------
(* Properties.                                                             *)

\* Every variable keeps its type.
TypeOK ==
    /\ run \in [Tasks -> Runs] /\ lock \in Tasks \cup {None}
    /\ child \in [Tasks -> {"none", "fetching", "committed"}]
    /\ file \in [Tasks -> Entries]
    /\ runs \in Nat /\ published \in [Tasks -> Nat] /\ begun \in [Tasks -> Nat]
    /\ earned \in [Tasks -> BOOLEAN]
    /\ exit \in [Tasks -> Exits]

\* A run, whatever its attempts do, has ended an attempt it gave up on and written its
\* last entry inside its deadline: the budget taken off each attempt's time pays for it.
WithinDeadline == \A t \in Tasks : Active(t) => run[t].left >= 0

\* A stop request ends the run within the budget, which is less than the units'
\* TimeoutStopSec: no wait of the supervisor ignores the request.
StopIsPrompt == \A t \in Tasks : run[t].age <= Budget

\* The entry that makes `status` healthy speaks for the last attempt ever started: it reported
\* success, with the configuration saved, it is gone, and no run has started another since,
\* one that was killed or could not write its state included, because a run publishes its
\* start before its first attempt and ends if it cannot. A run that neither publishes nor
\* attempts anything leaves the health as it was: the lock was busy, its first write failed
\* or it was killed before.
HealthyIsTrue ==
    \A t \in Tasks :
        file[t].state = "succeeded" => earned[t] /\ child[t] = "none"

\* consecutive_failures counts every published run since the last success in the file, killed
\* ones included as soon as the next one is published, and no published run is left out of
\* the totals. A run that ends before its start is in the file is in no counter.
FailuresAreCounted ==
    \A t \in Tasks :
        LET open == IF file[t].state \in Open THEN 1 ELSE 0
        IN  /\ file[t].consecutive + open = begun[t]
            /\ file[t].total + file[t].abandoned + open = published[t]

=============================================================================
