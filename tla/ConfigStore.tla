----------------------------- MODULE ConfigStore -----------------------------
(***************************************************************************)
(* core/storage.py: the JSON configuration file shared by the web server,  *)
(* the desktop application, the command line and the unattended worker.    *)
(* Threads of several processes load it into AppConfig objects, edit them  *)
(* and save them with a compare-and-replace under two locks: a lock per    *)
(* path inside the process (_config_thread_lock) and an flock between      *)
(* processes (_config_file_lock).  Processes crash; the machine loses      *)
(* power; every system call of a save may fail.                            *)
(*                                                                         *)
(* sha256 over the file's bytes is modelled as the content itself: equal   *)
(* contents have equal revisions, so A-B-A histories are included.         *)
(***************************************************************************)
EXTENDS Integers, FiniteSets

CONSTANTS Threads, Procs, Objs,
          ProcOf,       \* the process a thread runs in
          OwnerOf,      \* the process an AppConfig object lives in
          Values,       \* configuration contents
          Default,      \* the content of AppConfig()
          Missing,      \* the revision "missing": no directory entry
          Torn,         \* a file whose bytes never reached the disk
          None,
          MaxCommits    \* bound on publications, for model checking

ASSUME ConfigStoreAssumption ==
    /\ ProcOf \in [Threads -> Procs]
    /\ OwnerOf \in [Objs -> Procs]
    /\ Default \in Values
    /\ {Missing, Torn} \cap Values = {}
    /\ Missing # Torn
    /\ None \notin Threads \cup Objs
    /\ MaxCommits \in Nat

VARIABLES
    file,       \* content visible under the configuration's name
    inode,      \* identity of the file: one more for every replacement
    survivors,  \* <<content, inode>> pairs a power loss may leave
    acked,      \* ghost: newest inode whose save returned normally
    data,       \* content of each AppConfig object
    rev,        \* its _STORAGE_REVISION_ATTR
    origin,     \* ghost: the file content the object's data descends from
    threadLock, \* holder of the path's RLock in each process
    fileLock,   \* holder of the flock on the sibling lock file
    pc, obj, snap, base, seen, synced, wrote,   \* local to each thread's call
    answer      \* how the call that just returned ended, and whether it wrote

store   == <<file, inode, survivors, acked>>
objects == <<data, rev, origin>>
locks   == <<threadLock, fileLock>>
locals  == <<obj, snap, base, seen, synced, wrote>>
vars    == <<store, objects, locks, pc, locals, answer>>

Contents == Values \cup {Missing, Torn}
PCs      == {"idle", "opening", "waiting", "locking", "checking", "writing",
             "syncing", "replacing", "dirsync"}
Results  == {"none", "loaded", "load_error", "invalid", "conflict", "error",
             "commit_error", "ok"}

Silence  == [result |-> "none", wrote |-> FALSE]

Init ==
    /\ file = Missing /\ inode = 0
    /\ survivors = {<<Missing, 0>>} /\ acked = 0
    /\ data = [o \in Objs |-> Default]
    /\ rev = [o \in Objs |-> Missing]
    /\ origin = [o \in Objs |-> Missing]
    /\ threadLock = [p \in Procs |-> None] /\ fileLock = None
    /\ pc = [t \in Threads |-> "idle"]
    /\ obj = [t \in Threads |-> None]
    /\ snap = [t \in Threads |-> Default]
    /\ base = [t \in Threads |-> Missing]
    /\ seen = [t \in Threads |-> 0]
    /\ synced = [t \in Threads |-> FALSE]
    /\ wrote = [t \in Threads |-> FALSE]
    /\ answer = Silence

Owns(t, o) == ProcOf[t] = OwnerOf[o]
InUse(o)   == \E t \in Threads : obj[t] = o

\* The calls running on the threads T are over, and so are their local variables.
Forget(T) ==
    /\ pc' = [t \in Threads |-> IF t \in T THEN "idle" ELSE pc[t]]
    /\ obj' = [t \in Threads |-> IF t \in T THEN None ELSE obj[t]]
    /\ snap' = [t \in Threads |-> IF t \in T THEN Default ELSE snap[t]]
    /\ base' = [t \in Threads |-> IF t \in T THEN Missing ELSE base[t]]
    /\ seen' = [t \in Threads |-> IF t \in T THEN 0 ELSE seen[t]]
    /\ synced' = [t \in Threads |-> IF t \in T THEN FALSE ELSE synced[t]]
    /\ wrote' = [t \in Threads |-> IF t \in T THEN FALSE ELSE wrote[t]]

-----------------------------------------------------------------------------
(* load_config: lstat, then open the same inode and parse it. A load makes *)
(* a new object, so the name o is not one a running call still holds.      *)

LoadStat(t, o) ==
    /\ pc[t] = "idle" /\ Owns(t, o) /\ ~InUse(o)
    /\ IF file = Missing
       THEN /\ data' = [data EXCEPT ![o] = Default]
            /\ rev' = [rev EXCEPT ![o] = Missing]
            /\ origin' = [origin EXCEPT ![o] = Missing]
            /\ answer' = [result |-> "loaded", wrote |-> FALSE]
            /\ UNCHANGED <<pc, obj, seen>>
       ELSE /\ pc' = [pc EXCEPT ![t] = "opening"]
            /\ obj' = [obj EXCEPT ![t] = o]
            /\ seen' = [seen EXCEPT ![t] = inode]
            /\ answer' = Silence
            /\ UNCHANGED objects
    /\ UNCHANGED <<store, locks, snap, base, synced, wrote>>

\* An open descriptor keeps reading the inode it opened, so a replacement
\* matters only between lstat and open.
LoadOpen(t) ==
    /\ pc[t] = "opening"
    /\ IF seen[t] = inode /\ file \in Values
       THEN /\ data' = [data EXCEPT ![obj[t]] = file]
            /\ rev' = [rev EXCEPT ![obj[t]] = file]
            /\ origin' = [origin EXCEPT ![obj[t]] = file]
            /\ answer' = [result |-> "loaded", wrote |-> FALSE]
       ELSE /\ answer' = [result |-> "load_error", wrote |-> FALSE]
            /\ UNCHANGED objects
    /\ Forget({t})
    /\ UNCHANGED <<store, locks>>

\* Application code changes an object, even one another thread is saving.
Edit(o) ==
    /\ \A t \in Threads : ~(obj[t] = o /\ pc[t] = "opening")
    /\ \E v \in Values : data' = [data EXCEPT ![o] = v]
    /\ answer' = Silence
    /\ UNCHANGED <<store, rev, origin, locks, pc, locals>>

-----------------------------------------------------------------------------
(* save_config.                                                            *)

SaveCall(t, o) ==
    /\ pc[t] = "idle" /\ Owns(t, o) /\ inode < MaxCommits
    /\ \A u \in Threads : ~(obj[u] = o /\ pc[u] = "opening")
    /\ pc' = [pc EXCEPT ![t] = "waiting"]
    /\ obj' = [obj EXCEPT ![t] = o]
    /\ answer' = Silence
    /\ UNCHANGED <<store, objects, locks, snap, base, seen, synced, wrote>>

\* Mutant: the thread lock is not released on the way out.
ReturnKeepsLock(t, r) ==
    /\ answer' = [result |-> r, wrote |-> wrote[t]]
    /\ Forget({t})
    /\ fileLock' = IF fileLock = t THEN None ELSE fileLock
    /\ UNCHANGED threadLock

\* The call ends with result r: the locks the thread holds are released.
Return(t, r) ==
    /\ answer' = [result |-> r, wrote |-> wrote[t]]
    /\ Forget({t})
    /\ threadLock' = [threadLock EXCEPT ![ProcOf[t]] = None]
    /\ fileLock' = IF fileLock = t THEN None ELSE fileLock

\* Under the thread lock the snapshot is taken, validated and measured.
TakeSnapshot(t) ==
    /\ pc[t] = "waiting"
    /\ threadLock[ProcOf[t]] = None
    /\ \/ /\ threadLock' = [threadLock EXCEPT ![ProcOf[t]] = t]
          /\ snap' = [snap EXCEPT ![t] = data[obj[t]]]
          /\ base' = [base EXCEPT ![t] = origin[obj[t]]]
          /\ pc' = [pc EXCEPT ![t] = "locking"]
          /\ answer' = Silence
          /\ UNCHANGED <<fileLock, obj, seen, synced, wrote>>
       \/ Return(t, "invalid")
    /\ UNCHANGED <<store, objects>>

\* Mutant: no lock between processes.
LockFileInProcessOnly(t) ==
    /\ pc[t] = "locking"
    /\ fileLock' = t
    /\ pc' = [pc EXCEPT ![t] = "checking"]
    /\ answer' = Silence
    /\ UNCHANGED <<store, objects, threadLock, locals>>

LockFile(t) ==
    /\ pc[t] = "locking"
    /\ fileLock = None
    /\ fileLock' = t
    /\ pc' = [pc EXCEPT ![t] = "checking"]
    /\ answer' = Silence
    /\ UNCHANGED <<store, objects, threadLock, locals>>

\* Ten seconds without the flock: ConfigConflictError, no data was written.
LockTimeout(t) ==
    /\ pc[t] = "locking"
    /\ fileLock # None
    /\ Return(t, "conflict")
    /\ UNCHANGED <<store, objects>>

CheckRevision(t) ==
    /\ pc[t] = "checking"
    /\ IF rev[obj[t]] = file
       THEN /\ pc' = [pc EXCEPT ![t] = "writing"]
            /\ answer' = Silence
            /\ UNCHANGED <<locks, locals>>
       ELSE Return(t, "conflict")
    /\ UNCHANGED <<store, objects>>

WriteTemp(t) ==
    /\ pc[t] = "writing"
    /\ pc' = [pc EXCEPT ![t] = "syncing"]
    /\ answer' = Silence
    /\ UNCHANGED <<store, objects, locks, locals>>

SyncTemp(t) ==
    /\ pc[t] = "syncing"
    /\ synced' = [synced EXCEPT ![t] = TRUE]
    /\ pc' = [pc EXCEPT ![t] = "replacing"]
    /\ answer' = Silence
    /\ UNCHANGED <<store, objects, locks, obj, snap, base, seen, wrote>>

\* os.replace: the commit point. What a power loss may leave now includes
\* the new entry, and an unsynced entry may come back without its bytes.
Replace(t) ==
    /\ pc[t] = "replacing"
    /\ file' = snap[t]
    /\ inode' = inode + 1
    /\ survivors' = survivors \cup {<<snap[t], inode + 1>>}
                        \cup (IF synced[t] THEN {} ELSE {<<Torn, inode + 1>>})
    /\ wrote' = [wrote EXCEPT ![t] = TRUE]
    /\ rev' = [rev EXCEPT ![obj[t]] = snap[t]]
    /\ origin' = [origin EXCEPT ![obj[t]] = snap[t]]
    /\ pc' = [pc EXCEPT ![t] = "dirsync"]
    /\ answer' = Silence
    /\ UNCHANGED <<acked, data, locks, obj, snap, base, seen, synced>>

\* Mutant: a failure after os.replace is reported like one before it.
FailAnywhere(t) ==
    /\ pc[t] \in {"locking", "checking", "writing", "syncing", "replacing", "dirsync"}
    /\ Return(t, "error")
    /\ UNCHANGED <<store, objects>>

\* Any system call before the commit point fails: the error is raised as is
\* and the temporary file is unlinked.
FailBeforeCommit(t) ==
    /\ pc[t] \in {"locking", "checking", "writing", "syncing", "replacing"}
    /\ Return(t, "error")
    /\ UNCHANGED <<store, objects>>

\* Mutant: the save returns without the directory fsync.
SkipDirectorySync(t) ==
    /\ pc[t] = "dirsync"
    /\ acked' = inode
    /\ Return(t, "ok")
    /\ UNCHANGED <<file, inode, survivors, objects>>

SyncDirectory(t) ==
    /\ pc[t] = "dirsync"
    /\ survivors' = {<<file, inode>>}
    /\ acked' = inode
    /\ Return(t, "ok")
    /\ UNCHANGED <<file, inode, objects>>

\* The directory fsync, the unlink or the unlock fails after the commit
\* point; the directory may or may not have reached the disk.
FailAfterCommit(t) ==
    /\ pc[t] = "dirsync"
    /\ survivors' \in {survivors, {<<file, inode>>}}
    /\ Return(t, "commit_error")
    /\ UNCHANGED <<file, inode, acked, objects>>

-----------------------------------------------------------------------------
(* The environment.                                                        *)

\* Processes in P die: their objects are gone and the kernel drops their flock.
Die(P) ==
    /\ data' = [o \in Objs |-> IF OwnerOf[o] \in P THEN Default ELSE data[o]]
    /\ rev' = [o \in Objs |-> IF OwnerOf[o] \in P THEN Missing ELSE rev[o]]
    /\ origin' = [o \in Objs |-> IF OwnerOf[o] \in P THEN Missing ELSE origin[o]]
    /\ threadLock' = [p \in Procs |-> IF p \in P THEN None ELSE threadLock[p]]
    /\ fileLock' = IF fileLock \in {t \in Threads : ProcOf[t] \in P} THEN None ELSE fileLock
    /\ Forget({t \in Threads : ProcOf[t] \in P})
    /\ answer' = Silence

Crash(p) == Die({p}) /\ UNCHANGED store

PowerLoss ==
    /\ \E s \in survivors : file' = s[1] /\ inode' = s[2] /\ survivors' = {s}
    /\ UNCHANGED acked
    /\ Die(Procs)

ThreadStep(t) ==
    \/ LoadOpen(t) \/ TakeSnapshot(t) \/ LockFile(t) \/ LockTimeout(t)
    \/ CheckRevision(t) \/ WriteTemp(t) \/ SyncTemp(t) \/ Replace(t)
    \/ FailBeforeCommit(t) \/ SyncDirectory(t) \/ FailAfterCommit(t)

Next ==
    \/ \E t \in Threads : ThreadStep(t)
    \/ \E t \in Threads, o \in Objs : LoadStat(t, o) \/ SaveCall(t, o)
    \/ \E o \in Objs : Edit(o)
    \/ \E p \in Procs : Crash(p)
    \/ PowerLoss

Spec == Init /\ [][Next]_vars

\* A running thread keeps running; an RLock waiter eventually gets the lock
\* when it is released again and again.
Fairness == \A t \in Threads : WF_vars(ThreadStep(t)) /\ SF_vars(TakeSnapshot(t))
FairSpec == Spec /\ Fairness

-----------------------------------------------------------------------------
(* Properties.                                                             *)

\* Types of all state of core/storage.py's load_config and save_config.
TypeOK ==
    /\ file \in Contents /\ inode \in Nat /\ acked \in Nat
    /\ survivors \in SUBSET (Contents \X Nat)
    /\ data \in [Objs -> Values]
    /\ rev \in [Objs -> Contents] /\ origin \in [Objs -> Contents]
    /\ threadLock \in [Procs -> Threads \cup {None}]
    /\ fileLock \in Threads \cup {None}
    /\ pc \in [Threads -> PCs] /\ obj \in [Threads -> Objs \cup {None}]
    /\ snap \in [Threads -> Values] /\ base \in [Threads -> Contents]
    /\ seen \in [Threads -> Nat]
    /\ synced \in [Threads -> BOOLEAN] /\ wrote \in [Threads -> BOOLEAN]
    /\ answer \in [result : Results, wrote : BOOLEAN]

\* A publication replaces exactly the content its snapshot was derived from:
\* neither another process nor another thread saving the same object loses an
\* update (the two locks and the revision check of save_config).
NoLostUpdate ==
    [][\A t \in Threads : (~wrote[t] /\ wrote'[t]) => (base[t] = file /\ file' = snap[t])]_vars

\* What save_config raises says whether it wrote: ConfigConflictError and
\* other errors mean no data was written, ConfigCommitError and a normal
\* return mean this call's snapshot was published.
OutcomeIsTruthful ==
    /\ answer.result \in {"conflict", "error", "invalid"} => ~answer.wrote
    /\ answer.result \in {"ok", "commit_error"} => answer.wrote

\* A save that returned normally is never undone by a power loss (the
\* directory fsync of save_config precedes its return).
AckedSurvives == \A s \in survivors : s[2] >= acked

\* No crash leaves a configuration without its bytes under the real name
\* (the temporary file is fsynced before os.replace).
NeverTorn == file # Torn

\* Every save and load returns: nobody waits on the two locks forever.
CallsReturn == \A t \in Threads : pc[t] # "idle" ~> pc[t] = "idle"

\* The snapshot each thread tries to publish, as the register sees it.
Attempt == [t \in Threads |->
    IF pc[t] \in {"locking", "checking", "writing", "syncing", "replacing"}
    THEN [base |-> base[t], new |-> snap[t], open |-> TRUE]
    ELSE [base |-> Missing, new |-> Missing, open |-> FALSE]]

\* The store implements the compare-and-swap register: save_config publishes
\* a whole snapshot over exactly what it derives from, or nothing.
Register == INSTANCE ConfigRegister WITH
    value <- file, version <- inode, recoverable <- survivors, attempt <- Attempt
ImplementsRegister == Register!Spec
=============================================================================
