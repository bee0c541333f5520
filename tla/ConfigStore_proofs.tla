-------------------------- MODULE ConfigStore_proofs --------------------------
(***************************************************************************)
(* Proofs about ConfigStore for any number of threads, processes, objects  *)
(* and publications.  The argument: a saving thread holds the thread lock  *)
(* of its process from snapshot to return and the flock from the revision  *)
(* check to return, so neither the object's revision nor the file changes  *)
(* under it, and what it replaces is what its snapshot descends from.      *)
(***************************************************************************)
EXTENDS ConfigStore, TLAPS

Checked  == {"writing", "syncing", "replacing"}
FlockPCs == {"checking", "dirsync"} \cup Checked
LockPCs  == {"locking"} \cup FlockPCs
SavePCs  == {"waiting"} \cup LockPCs

\* Who holds which lock.
Locking ==
    \A t \in Threads :
        /\ pc[t] \in LockPCs => threadLock[ProcOf[t]] = t
        /\ pc[t] \in FlockPCs => fileLock = t

\* Calls hold objects of their own process; a load shares its object with nobody.
Holding ==
    \A t \in Threads :
        /\ pc[t] # "idle" => obj[t] \in Objs /\ Owns(t, obj[t])
        /\ pc[t] = "idle" => obj[t] = None
        /\ pc[t] = "opening" => \A u \in Threads : obj[u] = obj[t] => u = t

\* A revision is the content it stands for, never a torn one, and what a saver
\* checked still holds.
Deriving ==
    /\ \A o \in Objs : rev[o] = origin[o] /\ origin[o] # Torn
    /\ \A t \in Threads :
          /\ pc[t] \in LockPCs \ {"dirsync"} => base[t] = origin[obj[t]]
          /\ pc[t] \in Checked => rev[obj[t]] = file

\* What is known about the disk, and about the call that wrote it.
Durable ==
    /\ <<file, inode>> \in survivors
    /\ \A s \in survivors : s[1] # Torn /\ s[2] >= acked
    /\ \A t \in Threads :
          /\ pc[t] = "replacing" => synced[t]
          /\ wrote[t] <=> pc[t] = "dirsync"

IInv == TypeOK /\ Locking /\ Holding /\ Deriving /\ Durable /\ OutcomeIsTruthful

-----------------------------------------------------------------------------
USE ConfigStoreAssumption DEF ConfigStoreAssumption

\* TypeOK holds initially and every action of the store keeps it.
LEMMA TypeInit == Init => TypeOK
  BY DEF Init, TypeOK, Silence, Results, Contents, PCs

\* What Forget and Return leave is of the right type.
LocalTypes ==
    /\ pc \in [Threads -> PCs] /\ obj \in [Threads -> Objs \cup {None}]
    /\ snap \in [Threads -> Values] /\ base \in [Threads -> Contents]
    /\ seen \in [Threads -> Nat]
    /\ synced \in [Threads -> BOOLEAN] /\ wrote \in [Threads -> BOOLEAN]

\* A call that ends leaves well-typed locals on every thread.
LEMMA ForgetTypes ==
  ASSUME LocalTypes, NEW T, Forget(T)
  PROVE  LocalTypes'
<1>1. pc' \in [Threads -> PCs] /\ obj' \in [Threads -> Objs \cup {None}]
    BY DEF LocalTypes, Forget, PCs
<1>2. snap' \in [Threads -> Values] /\ base' \in [Threads -> Contents]
    BY DEF LocalTypes, Forget, Contents
<1>3. seen' \in [Threads -> Nat]
    BY DEF LocalTypes, Forget
<1>4. synced' \in [Threads -> BOOLEAN] /\ wrote' \in [Threads -> BOOLEAN]
    BY DEF LocalTypes, Forget
<1> QED
    BY <1>1, <1>2, <1>3, <1>4 DEF LocalTypes

ReturnTypes ==
    /\ LocalTypes
    /\ threadLock \in [Procs -> Threads \cup {None}]
    /\ fileLock \in Threads \cup {None}
    /\ answer \in [result : Results, wrote : BOOLEAN]

\* Returning from save_config keeps locks, locals and answer well-typed.
LEMMA ReturnKeepsTypes ==
  ASSUME ReturnTypes, NEW t \in Threads, NEW r \in Results, Return(t, r)
  PROVE  ReturnTypes'
<1>1. LocalTypes'
    BY ForgetTypes DEF ReturnTypes, Return
<1>2. threadLock' \in [Procs -> Threads \cup {None}] /\ fileLock' \in Threads \cup {None}
    BY DEF ReturnTypes, Return
<1>3. wrote[t] \in BOOLEAN
    BY DEF ReturnTypes, LocalTypes
<1>4. answer' \in [result : Results, wrote : BOOLEAN]
    BY <1>3 DEF Return
<1> QED
    BY <1>1, <1>2, <1>4 DEF ReturnTypes

StoreTypes ==
    /\ file \in Contents /\ inode \in Nat /\ acked \in Nat
    /\ survivors \in SUBSET (Contents \X Nat)

ObjectTypes ==
    /\ data \in [Objs -> Values]
    /\ rev \in [Objs -> Contents] /\ origin \in [Objs -> Contents]

\* TypeOK is the types of the store, of the objects and of what a call leaves.
LEMMA TypeParts == TypeOK <=> StoreTypes /\ ObjectTypes /\ ReturnTypes
  BY DEF TypeOK, StoreTypes, ObjectTypes, ReturnTypes, LocalTypes

\* Every step of a load, a save or the environment keeps the types.
LEMMA TypeStep == TypeOK /\ Holding /\ [Next]_vars => TypeOK'
<1> SUFFICES ASSUME TypeOK, Holding, [Next]_vars PROVE TypeOK'
    OBVIOUS
<1>0. StoreTypes /\ ObjectTypes /\ ReturnTypes /\ LocalTypes
    BY TypeParts DEF ReturnTypes
<1>a. ASSUME StoreTypes', ObjectTypes', ReturnTypes' PROVE TypeOK'
    BY <1>a DEF TypeOK, StoreTypes, ObjectTypes, ReturnTypes, LocalTypes
<1>r. "none" \in Results /\ "loaded" \in Results /\ "load_error" \in Results
      /\ "invalid" \in Results /\ "conflict" \in Results /\ "error" \in Results
      /\ "commit_error" \in Results /\ "ok" \in Results
    BY DEF Results
<1>b. ASSUME UNCHANGED store PROVE StoreTypes'
    BY <1>0, <1>b DEF store, StoreTypes
<1>c. ASSUME UNCHANGED objects PROVE ObjectTypes'
    BY <1>0, <1>c DEF objects, ObjectTypes
<1>1. ASSUME NEW t \in Threads, NEW o \in Objs, LoadStat(t, o) PROVE TypeOK'
  <2>1. ObjectTypes'
    BY <1>0, <1>1 DEF LoadStat, objects, ObjectTypes, Contents
  <2>2. ReturnTypes'
    <3>1. CASE file = Missing
      <4>1. answer' = [result |-> "loaded", wrote |-> FALSE] /\ UNCHANGED <<pc, obj, seen>>
        BY <1>1, <3>1 DEF LoadStat
      <4>2. answer' \in [result : Results, wrote : BOOLEAN]
        BY <1>r, <4>1
      <4>3. UNCHANGED <<locks, snap, base, synced, wrote>>
        BY <1>1 DEF LoadStat
      <4> QED
        BY <1>0, <4>1, <4>2, <4>3 DEF locks, ReturnTypes, LocalTypes
    <3>2. CASE file # Missing
      <4>1. pc' \in [Threads -> PCs] /\ obj' \in [Threads -> Objs \cup {None}]
        BY <1>0, <1>1, <3>2 DEF LoadStat, LocalTypes, PCs
      <4>2. seen' \in [Threads -> Nat]
        BY <1>0, <1>1, <3>2 DEF LoadStat, LocalTypes, StoreTypes
      <4>. answer' = Silence
        BY <1>1, <3>2 DEF LoadStat
      <4>3. answer' \in [result : Results, wrote : BOOLEAN]
        BY <1>r DEF Silence
      <4> QED
        BY <1>0, <1>1, <4>1, <4>2, <4>3 DEF LoadStat, locks, ReturnTypes, LocalTypes
    <3> QED
      BY <3>1, <3>2
  <2> QED
    BY <1>a, <1>b, <1>1, <2>1, <2>2 DEF LoadStat
<1>2. ASSUME NEW t \in Threads, LoadOpen(t) PROVE TypeOK'
  <2>1. LocalTypes'
    BY <1>0, <1>2, ForgetTypes DEF LoadOpen
  <2>2. ObjectTypes'
    BY <1>0, <1>2 DEF LoadOpen, objects, ObjectTypes, Contents
  <2>3. \/ answer' = [result |-> "loaded", wrote |-> FALSE]
        \/ answer' = [result |-> "load_error", wrote |-> FALSE]
    BY <1>2 DEF LoadOpen
  <2>4. answer' \in [result : Results, wrote : BOOLEAN]
    <3>1. CASE answer' = [result |-> "loaded", wrote |-> FALSE]
      BY <1>r, <3>1
    <3>2. CASE answer' = [result |-> "load_error", wrote |-> FALSE]
      BY <1>r, <3>2
    <3> QED
      BY <2>3, <3>1, <3>2
  <2> QED
    BY <1>0, <1>a, <1>b, <1>2, <2>1, <2>2, <2>4 DEF LoadOpen, locks, ReturnTypes
<1>3. ASSUME NEW o \in Objs, Edit(o) PROVE TypeOK'
    BY <1>3 DEF Edit, TypeOK, Contents, PCs, Results, Silence, store, objects, locks, locals
<1>4. ASSUME NEW t \in Threads, NEW o \in Objs, SaveCall(t, o) PROVE TypeOK'
    BY <1>4 DEF SaveCall, TypeOK, Contents, PCs, Results, Silence, store, objects, locks, locals
<1>5. ASSUME NEW t \in Threads, TakeSnapshot(t) PROVE TypeOK'
  <2>1. CASE Return(t, "invalid")
    BY <1>0, <1>a, <1>b, <1>c, <1>r, <1>5, <2>1, ReturnKeepsTypes DEF TakeSnapshot
  <2>2. CASE ~Return(t, "invalid")
    <3>1. /\ threadLock' = [threadLock EXCEPT ![ProcOf[t]] = t]
          /\ snap' = [snap EXCEPT ![t] = data[obj[t]]]
          /\ base' = [base EXCEPT ![t] = origin[obj[t]]]
          /\ pc' = [pc EXCEPT ![t] = "locking"]
          /\ answer' = Silence
          /\ UNCHANGED <<fileLock, obj, seen, synced, wrote>>
          /\ UNCHANGED store /\ UNCHANGED objects
      BY <1>5, <2>2 DEF TakeSnapshot
    <3>2. obj[t] \in Objs
      BY <1>5 DEF Holding, TakeSnapshot
    <3>3. data[obj[t]] \in Values /\ origin[obj[t]] \in Contents
      BY <1>0, <3>2 DEF ObjectTypes
    <3>4. pc' \in [Threads -> PCs] /\ threadLock' \in [Procs -> Threads \cup {None}]
      BY <1>0, <3>1 DEF ReturnTypes, LocalTypes, PCs
    <3>5. snap' \in [Threads -> Values] /\ base' \in [Threads -> Contents]
      BY <1>0, <3>1, <3>3 DEF LocalTypes
    <3>6. answer' \in [result : Results, wrote : BOOLEAN]
      BY <1>r, <3>1 DEF Silence
    <3>7. ReturnTypes'
      BY <1>0, <3>1, <3>4, <3>5, <3>6 DEF ReturnTypes, LocalTypes
    <3> QED
      BY <1>a, <1>b, <1>c, <3>1, <3>7
  <2> QED
    BY <2>1, <2>2
<1>6. ASSUME NEW t \in Threads, LockFile(t) PROVE TypeOK'
    BY <1>6 DEF LockFile, TypeOK, Contents, PCs, Results, Silence, store, objects, locks, locals
<1>7. ASSUME NEW t \in Threads, LockTimeout(t) PROVE TypeOK'
    BY <1>0, <1>a, <1>b, <1>c, <1>r, <1>7, ReturnKeepsTypes DEF LockTimeout
<1>8. ASSUME NEW t \in Threads, CheckRevision(t) PROVE TypeOK'
  <2>1. CASE Return(t, "conflict")
    BY <1>0, <1>a, <1>b, <1>c, <1>r, <1>8, <2>1, ReturnKeepsTypes DEF CheckRevision
  <2>2. CASE ~Return(t, "conflict")
    <3>1. /\ pc' = [pc EXCEPT ![t] = "writing"] /\ answer' = Silence
          /\ UNCHANGED <<store, objects, locks, locals>>
      BY <1>8, <2>2 DEF CheckRevision
    <3> QED
      BY <3>1 DEF TypeOK, PCs, Results, Silence, store, objects, locks, locals
  <2> QED
    BY <2>1, <2>2
<1>9. ASSUME NEW t \in Threads, WriteTemp(t) PROVE TypeOK'
    BY <1>9 DEF WriteTemp, TypeOK, Contents, PCs, Results, Silence, store, objects, locks, locals
<1>10. ASSUME NEW t \in Threads, SyncTemp(t) PROVE TypeOK'
    BY <1>10 DEF SyncTemp, TypeOK, Contents, PCs, Results, Silence, store, objects, locks, locals
<1>11. ASSUME NEW t \in Threads, Replace(t) PROVE TypeOK'
  <2>1. snap[t] \in Values
    BY <1>0 DEF LocalTypes
  <2>2. StoreTypes'
    <3>1. <<snap[t], inode + 1>> \in Contents \X Nat /\ <<Torn, inode + 1>> \in Contents \X Nat
      BY <1>0, <2>1 DEF StoreTypes, Contents
    <3>2. survivors' \subseteq survivors \cup {<<snap[t], inode + 1>>, <<Torn, inode + 1>>}
      BY <1>11 DEF Replace
    <3> QED
      BY <1>0, <1>11, <2>1, <3>1, <3>2 DEF Replace, StoreTypes, Contents
  <2>3. ObjectTypes'
    BY <1>0, <1>11, <2>1 DEF Replace, ObjectTypes, Contents
  <2>4. ReturnTypes'
    BY <1>0, <1>11 DEF Replace, ReturnTypes, LocalTypes, locks, PCs, Silence, Results
  <2> QED
    BY <1>a, <2>2, <2>3, <2>4
<1>12. ASSUME NEW t \in Threads, FailBeforeCommit(t) PROVE TypeOK'
    BY <1>0, <1>a, <1>b, <1>c, <1>r, <1>12, ReturnKeepsTypes DEF FailBeforeCommit
<1>13. ASSUME NEW t \in Threads, SyncDirectory(t) PROVE TypeOK'
  <2>1. StoreTypes'
    BY <1>0, <1>13 DEF SyncDirectory, StoreTypes
  <2> QED
    BY <1>0, <1>a, <1>c, <1>r, <1>13, <2>1, ReturnKeepsTypes DEF SyncDirectory
<1>14. ASSUME NEW t \in Threads, FailAfterCommit(t) PROVE TypeOK'
  <2>1. StoreTypes'
    BY <1>0, <1>14 DEF FailAfterCommit, StoreTypes
  <2> QED
    BY <1>0, <1>a, <1>c, <1>r, <1>14, <2>1, ReturnKeepsTypes DEF FailAfterCommit
<1>d. ASSUME NEW P, Die(P) PROVE ObjectTypes' /\ ReturnTypes'
  <2>1. LocalTypes'
    BY <1>0, <1>d, ForgetTypes DEF Die
  <2>2. ObjectTypes'
    BY <1>0, <1>d DEF Die, ObjectTypes, Contents
  <2>3. threadLock' \in [Procs -> Threads \cup {None}] /\ fileLock' \in Threads \cup {None}
    BY <1>0, <1>d DEF Die, ReturnTypes
  <2>4. answer' \in [result : Results, wrote : BOOLEAN]
    BY <1>r, <1>d DEF Die, Silence
  <2> QED
    BY <2>1, <2>2, <2>3, <2>4 DEF ReturnTypes
<1>15. ASSUME NEW p \in Procs, Crash(p) PROVE TypeOK'
    BY <1>a, <1>b, <1>d, <1>15 DEF Crash
<1>16. CASE PowerLoss
  <2>1. StoreTypes'
    BY <1>0, <1>16 DEF PowerLoss, StoreTypes
  <2> QED
    BY <1>a, <1>d, <1>16, <2>1 DEF PowerLoss
<1>17. CASE UNCHANGED vars
    BY <1>17 DEF vars, TypeOK, store, objects, locks, locals
<1> QED
    BY <1>1, <1>2, <1>3, <1>4, <1>5, <1>6, <1>7, <1>8, <1>9, <1>10, <1>11,
       <1>12, <1>13, <1>14, <1>15, <1>16, <1>17 DEF Next, ThreadStep

-----------------------------------------------------------------------------
(* The locks.                                                              *)

\* A saver keeps the thread lock and the flock it took until it returns or dies.
LEMMA LockStep == TypeOK /\ Locking /\ [Next]_vars => Locking'
<1> SUFFICES ASSUME TypeOK, Locking, [Next]_vars PROVE Locking'
    OBVIOUS
<1>0. /\ pc \in [Threads -> PCs] /\ threadLock \in [Procs -> Threads \cup {None}]
      /\ fileLock \in Threads \cup {None}
    BY DEF TypeOK
<1> USE DEF LockPCs, FlockPCs, Checked, PCs
<1>a. ASSUME UNCHANGED <<locks, pc>> PROVE Locking'
    BY <1>a DEF Locking, locks
<1>b. ASSUME NEW t \in Threads, NEW r, Return(t, r),
             \/ threadLock[ProcOf[t]] \in {t, None}
      PROVE  Locking'
    BY <1>0, <1>b DEF Locking, Return, Forget
<1>c. ASSUME NEW t \in Threads, NEW to, pc[t] \in LockPCs, pc[t] \in FlockPCs \/ to \notin FlockPCs,
             pc' = [pc EXCEPT ![t] = to], UNCHANGED locks
      PROVE  Locking'
    BY <1>0, <1>c DEF Locking, locks
<1>1. ASSUME NEW t \in Threads, NEW o \in Objs, LoadStat(t, o) PROVE Locking'
    BY <1>0, <1>1 DEF Locking, LoadStat, locks
<1>2. ASSUME NEW t \in Threads, LoadOpen(t) PROVE Locking'
    BY <1>0, <1>2 DEF Locking, LoadOpen, locks, Forget
<1>3. ASSUME NEW o \in Objs, Edit(o) PROVE Locking'
    BY <1>a, <1>3 DEF Edit
<1>4. ASSUME NEW t \in Threads, NEW o \in Objs, SaveCall(t, o) PROVE Locking'
    BY <1>0, <1>4 DEF Locking, SaveCall, locks
<1>5. ASSUME NEW t \in Threads, TakeSnapshot(t) PROVE Locking'
  <2>1. CASE Return(t, "invalid")
    BY <1>b, <1>5, <2>1 DEF TakeSnapshot
  <2>2. CASE ~Return(t, "invalid")
    BY <1>0, <1>5, <2>2 DEF Locking, TakeSnapshot
  <2> QED
    BY <2>1, <2>2
<1>6. ASSUME NEW t \in Threads, LockFile(t) PROVE Locking'
    BY <1>0, <1>6 DEF Locking, LockFile
<1>7. ASSUME NEW t \in Threads, LockTimeout(t) PROVE Locking'
    BY <1>b, <1>7 DEF Locking, LockTimeout
<1>8. ASSUME NEW t \in Threads, CheckRevision(t) PROVE Locking'
    BY <1>b, <1>c, <1>8 DEF Locking, CheckRevision
<1>9. ASSUME NEW t \in Threads, WriteTemp(t) PROVE Locking'
    BY <1>c, <1>9 DEF WriteTemp
<1>10. ASSUME NEW t \in Threads, SyncTemp(t) PROVE Locking'
    BY <1>c, <1>10 DEF SyncTemp
<1>11. ASSUME NEW t \in Threads, Replace(t) PROVE Locking'
    BY <1>c, <1>11 DEF Replace
<1>12. ASSUME NEW t \in Threads, FailBeforeCommit(t) PROVE Locking'
    BY <1>b, <1>12 DEF Locking, FailBeforeCommit
<1>13. ASSUME NEW t \in Threads, SyncDirectory(t) PROVE Locking'
    BY <1>b, <1>13 DEF Locking, SyncDirectory
<1>14. ASSUME NEW t \in Threads, FailAfterCommit(t) PROVE Locking'
    BY <1>b, <1>14 DEF Locking, FailAfterCommit
<1>15. ASSUME NEW P, Die(P) PROVE Locking'
    BY <1>0, <1>15 DEF Locking, Die, Forget
<1>16. CASE UNCHANGED vars
    BY <1>a, <1>16 DEF vars
<1> QED
    BY <1>1, <1>2, <1>3, <1>4, <1>5, <1>6, <1>7, <1>8, <1>9, <1>10, <1>11,
       <1>12, <1>13, <1>14, <1>15, <1>16 DEF Next, ThreadStep, Crash, PowerLoss

-----------------------------------------------------------------------------
(* The objects.                                                            *)

\* Every running call keeps an object of its own process.
LEMMA HoldStep == TypeOK /\ Holding /\ [Next]_vars => Holding'
<1> SUFFICES ASSUME TypeOK, Holding, [Next]_vars PROVE Holding'
    OBVIOUS
<1>0. pc \in [Threads -> PCs] /\ obj \in [Threads -> Objs \cup {None}]
    BY DEF TypeOK
<1> USE DEF PCs, Owns
<1>a. ASSUME UNCHANGED <<pc, obj>> PROVE Holding'
    BY <1>a DEF Holding
<1>b. ASSUME NEW T, Forget(T) PROVE Holding'
    BY <1>0, <1>b DEF Holding, Forget
<1>c. ASSUME NEW t \in Threads, NEW to, pc[t] \notin {"idle", "opening"}, to \notin {"idle", "opening"},
             pc' = [pc EXCEPT ![t] = to], UNCHANGED obj
      PROVE  Holding'
    BY <1>0, <1>c DEF Holding
<1>1. ASSUME NEW t \in Threads, NEW o \in Objs, LoadStat(t, o) PROVE Holding'
    BY <1>0, <1>1 DEF Holding, LoadStat, InUse
<1>2. ASSUME NEW t \in Threads, LoadOpen(t) PROVE Holding'
    BY <1>b, <1>2 DEF LoadOpen
<1>3. ASSUME NEW o \in Objs, Edit(o) PROVE Holding'
    BY <1>a, <1>3 DEF Edit, locals
<1>4. ASSUME NEW t \in Threads, NEW o \in Objs, SaveCall(t, o) PROVE Holding'
    BY <1>0, <1>4 DEF Holding, SaveCall
<1>5. ASSUME NEW t \in Threads, NEW r, Return(t, r) PROVE Holding'
    BY <1>b, <1>5 DEF Return
<1>6. ASSUME NEW t \in Threads, TakeSnapshot(t), ~Return(t, "invalid") PROVE Holding'
    BY <1>c, <1>6 DEF TakeSnapshot
<1>7. ASSUME NEW t \in Threads, LockFile(t) PROVE Holding'
    BY <1>c, <1>7 DEF LockFile, locals
<1>8. ASSUME NEW t \in Threads, CheckRevision(t), ~Return(t, "conflict") PROVE Holding'
    BY <1>c, <1>8 DEF CheckRevision, locals
<1>9. ASSUME NEW t \in Threads, WriteTemp(t) \/ SyncTemp(t) \/ Replace(t) PROVE Holding'
    BY <1>c, <1>9 DEF WriteTemp, SyncTemp, Replace, locals
<1>10. ASSUME NEW P, Die(P) PROVE Holding'
    BY <1>b, <1>10 DEF Die
<1>11. CASE UNCHANGED vars
    BY <1>a, <1>11 DEF vars, locals
<1> QED
    BY <1>1, <1>2, <1>3, <1>4, <1>5, <1>6, <1>7, <1>8, <1>9, <1>10, <1>11
       DEF Next, ThreadStep, LockTimeout, FailBeforeCommit, SyncDirectory, FailAfterCommit,
           CheckRevision, TakeSnapshot, Crash, PowerLoss

-----------------------------------------------------------------------------
(* Revisions and snapshots.                                                *)

\* Under its locks a saver keeps what it checked: revision, origin and file.
LEMMA DeriveStep == TypeOK /\ Locking /\ Holding /\ Deriving /\ [Next]_vars => Deriving'
<1> SUFFICES ASSUME TypeOK, Locking, Holding, Deriving, [Next]_vars PROVE Deriving'
    OBVIOUS
<1>0. /\ pc \in [Threads -> PCs] /\ obj \in [Threads -> Objs \cup {None}]
      /\ base \in [Threads -> Contents] /\ rev \in [Objs -> Contents]
      /\ origin \in [Objs -> Contents] /\ threadLock \in [Procs -> Threads \cup {None}]
      /\ snap \in [Threads -> Values]
    BY DEF TypeOK
<1> USE DEF LockPCs, FlockPCs, Checked, PCs
<1>a. ASSUME UNCHANGED <<file, objects, pc, obj, base>> PROVE Deriving'
    BY <1>a DEF Deriving, objects
<1>b. ASSUME NEW T, Forget(T), UNCHANGED <<file, objects>> PROVE Deriving'
    BY <1>0, <1>b DEF Deriving, Forget, objects
<1>c. ASSUME NEW t \in Threads, NEW to, pc' = [pc EXCEPT ![t] = to],
             to \in Checked => pc[t] \in Checked,
             to \in LockPCs \ {"dirsync"} => pc[t] \in LockPCs \ {"dirsync"},
             UNCHANGED <<file, objects, obj, base>>
      PROVE  Deriving'
    BY <1>0, <1>c DEF Deriving, objects
<1>1. ASSUME NEW t \in Threads, NEW o \in Objs, LoadStat(t, o) PROVE Deriving'
  <2>1. CASE file = Missing
    <3>1. /\ rev' = [rev EXCEPT ![o] = Missing] /\ origin' = [origin EXCEPT ![o] = Missing]
          /\ UNCHANGED <<file, pc, obj, base>>
      BY <1>1, <2>1 DEF LoadStat, store
    <3>2. \A u \in Threads : obj[u] # o
      BY <1>1 DEF LoadStat, InUse
    <3>3. \A u \in Threads : pc[u] \in LockPCs => obj[u] \in Objs
      BY DEF Holding
    <3> QED
      BY <1>0, <3>1, <3>2, <3>3 DEF Deriving
  <2>2. CASE file # Missing
    BY <1>0, <1>1, <2>2 DEF Deriving, LoadStat, InUse, store, objects
  <2> QED
    BY <2>1, <2>2
<1>2. ASSUME NEW t \in Threads, LoadOpen(t) PROVE Deriving'
  <2>1. CASE UNCHANGED objects
    BY <1>b, <1>2, <2>1 DEF LoadOpen, store
  <2>2. CASE ~UNCHANGED objects
    <3>1. /\ rev' = [rev EXCEPT ![obj[t]] = file] /\ origin' = [origin EXCEPT ![obj[t]] = file]
          /\ Forget({t}) /\ UNCHANGED file /\ file \in Values
      BY <1>2, <2>2 DEF LoadOpen, store
    <3>2. obj[t] \in Objs /\ \A u \in Threads : obj[u] = obj[t] => u = t
      BY <1>2 DEF LoadOpen, Holding
    <3>3. \A u \in Threads : pc'[u] # "idle" => u # t /\ obj[u] \in Objs /\ UNCHANGED <<pc[u], obj[u], base[u]>>
      BY <1>0, <3>1 DEF Forget, Holding
    <3> QED
      BY <1>0, <3>1, <3>2, <3>3 DEF Deriving
  <2> QED
    BY <2>1, <2>2
<1>3. ASSUME NEW o \in Objs, Edit(o) PROVE Deriving'
    BY <1>3 DEF Edit, Deriving, store, locals
<1>4. ASSUME NEW t \in Threads, NEW o \in Objs, SaveCall(t, o) PROVE Deriving'
    BY <1>0, <1>4 DEF Deriving, SaveCall, store, objects
<1>5. ASSUME NEW t \in Threads, NEW r, Return(t, r), UNCHANGED <<file, objects>> PROVE Deriving'
    BY <1>b, <1>5 DEF Return
<1>6. ASSUME NEW t \in Threads, TakeSnapshot(t), ~Return(t, "invalid") PROVE Deriving'
    BY <1>0, <1>6 DEF TakeSnapshot, Deriving, store, objects
<1>7. ASSUME NEW t \in Threads, LockFile(t) PROVE Deriving'
    BY <1>c, <1>7 DEF LockFile, store, locals
<1>8. ASSUME NEW t \in Threads, CheckRevision(t), ~Return(t, "conflict") PROVE Deriving'
    BY <1>0, <1>8 DEF CheckRevision, Deriving, store, objects, locals
<1>9. ASSUME NEW t \in Threads, WriteTemp(t) \/ SyncTemp(t) PROVE Deriving'
    BY <1>c, <1>9 DEF WriteTemp, SyncTemp, store, locals
<1>10. ASSUME NEW t \in Threads, Replace(t) PROVE Deriving'
  <2>1. /\ file' = snap[t] /\ rev' = [rev EXCEPT ![obj[t]] = snap[t]]
        /\ origin' = [origin EXCEPT ![obj[t]] = snap[t]]
        /\ pc' = [pc EXCEPT ![t] = "dirsync"] /\ UNCHANGED <<obj, base>>
    BY <1>10 DEF Replace
  <2>2. \A u \in Threads \ {t} : pc[u] \notin Checked
    BY <1>10 DEF Replace, Locking
  <2>3. obj[t] \in Objs
    BY <1>10 DEF Replace, Holding
  <2>4. \A u \in Threads \ {t} : pc[u] \in LockPCs => obj[u] # obj[t]
    BY <1>10 DEF Replace, Holding, Owns, Locking
  <2> QED
    BY <1>0, <2>1, <2>2, <2>3, <2>4 DEF Deriving, Holding
<1>11. ASSUME NEW p \in Procs, Crash(p) PROVE Deriving'
  <2>1. \A u \in Threads : pc'[u] # "idle" =>
            /\ ProcOf[u] # p /\ OwnerOf[obj[u]] # p /\ obj[u] \in Objs
            /\ UNCHANGED <<pc[u], obj[u], base[u]>>
    BY <1>0, <1>11 DEF Crash, Die, Forget, Holding, Owns
  <2> QED
    BY <1>0, <1>11, <2>1 DEF Crash, Die, Deriving, store
<1>12. CASE PowerLoss
  <2>1. \A u \in Threads : pc'[u] = "idle"
    BY <1>12 DEF PowerLoss, Die, Forget
  <2> QED
    BY <1>0, <1>12, <2>1 DEF PowerLoss, Die, Deriving
<1>13. CASE UNCHANGED vars
    BY <1>a, <1>13 DEF vars, store, locals
<1> QED
    BY <1>1, <1>2, <1>3, <1>4, <1>5, <1>6, <1>7, <1>8, <1>9, <1>10, <1>11, <1>12, <1>13
       DEF Next, ThreadStep, LockTimeout, FailBeforeCommit, SyncDirectory, FailAfterCommit,
           CheckRevision, TakeSnapshot, store

-----------------------------------------------------------------------------
(* The disk and the answers.                                               *)

\* Every content a power loss may leave is whole and at least as new as acked.
LEMMA DurableStep == TypeOK /\ Durable /\ [Next]_vars => Durable'
<1> SUFFICES ASSUME TypeOK, Durable, [Next]_vars PROVE Durable'
    OBVIOUS
<1>0. /\ pc \in [Threads -> PCs] /\ synced \in [Threads -> BOOLEAN] /\ wrote \in [Threads -> BOOLEAN]
      /\ inode \in Nat /\ acked \in Nat /\ survivors \in SUBSET (Contents \X Nat)
      /\ snap \in [Threads -> Values]
    BY DEF TypeOK
<1> USE DEF PCs
<1>a. ASSUME UNCHANGED <<store, pc, synced, wrote>> PROVE Durable'
    BY <1>a DEF Durable, store
<1>b. ASSUME NEW T, Forget(T) PROVE \A u \in Threads :
          /\ pc'[u] = "replacing" => synced'[u]
          /\ wrote'[u] <=> pc'[u] = "dirsync"
    BY <1>0, <1>b DEF Durable, Forget
<1>c. ASSUME NEW t \in Threads, NEW to, pc' = [pc EXCEPT ![t] = to], pc[t] # "dirsync",
             to \notin {"replacing", "dirsync"}, UNCHANGED <<store, synced, wrote>>
      PROVE  Durable'
    BY <1>0, <1>c DEF Durable, store
<1>1. ASSUME NEW t \in Threads, NEW o \in Objs, LoadStat(t, o) PROVE Durable'
    BY <1>a, <1>c, <1>1 DEF LoadStat
<1>2. ASSUME NEW t \in Threads, LoadOpen(t) PROVE Durable'
    BY <1>b, <1>2 DEF LoadOpen, Durable, store
<1>3. ASSUME NEW o \in Objs, Edit(o) PROVE Durable'
    BY <1>a, <1>3 DEF Edit, locals
<1>4. ASSUME NEW t \in Threads, NEW o \in Objs, SaveCall(t, o) PROVE Durable'
    BY <1>0, <1>4 DEF SaveCall, Durable, store
<1>5. ASSUME NEW t \in Threads, NEW r, Return(t, r), UNCHANGED store PROVE Durable'
    BY <1>b, <1>5 DEF Return, Durable, store
<1>6. ASSUME NEW t \in Threads, TakeSnapshot(t), ~Return(t, "invalid") PROVE Durable'
    BY <1>c, <1>6 DEF TakeSnapshot
<1>7. ASSUME NEW t \in Threads, LockFile(t) PROVE Durable'
    BY <1>0, <1>7 DEF LockFile, locals, Durable, store
<1>8. ASSUME NEW t \in Threads, CheckRevision(t), ~Return(t, "conflict") PROVE Durable'
    BY <1>c, <1>8 DEF CheckRevision, locals
<1>9. ASSUME NEW t \in Threads, WriteTemp(t) PROVE Durable'
    BY <1>0, <1>9 DEF WriteTemp, locals, Durable, store
<1>10. ASSUME NEW t \in Threads, SyncTemp(t) PROVE Durable'
    BY <1>0, <1>10 DEF SyncTemp, Durable, store
<1>11. ASSUME NEW t \in Threads, Replace(t) PROVE Durable'
  <2>1. survivors' = survivors \cup {<<file', inode'>>} /\ file' \in Values /\ inode' = inode + 1
    BY <1>0, <1>11 DEF Replace, Durable
  <2>2. inode >= acked /\ acked' = acked
    BY <1>11 DEF Durable, Replace
  <2>3. \A s \in survivors' : s[1] # Torn /\ s[2] >= acked'
    BY <1>0, <2>1, <2>2 DEF Durable
  <2>4. \A u \in Threads : (pc'[u] = "replacing" => synced'[u]) /\ (wrote'[u] <=> pc'[u] = "dirsync")
    BY <1>0, <1>11 DEF Replace, Durable
  <2> QED
    BY <2>1, <2>3, <2>4 DEF Durable
<1>12. ASSUME NEW t \in Threads, SyncDirectory(t) PROVE Durable'
    BY <1>0, <1>b, <1>12 DEF SyncDirectory, Return, Durable
<1>13. ASSUME NEW t \in Threads, FailAfterCommit(t) PROVE Durable'
    BY <1>0, <1>b, <1>13 DEF FailAfterCommit, Return, Durable
<1>14. ASSUME NEW p \in Procs, Crash(p) PROVE Durable'
    BY <1>b, <1>14 DEF Crash, Die, Durable, store
<1>15. CASE PowerLoss
  <2>1. PICK s \in survivors : file' = s[1] /\ inode' = s[2] /\ survivors' = {s}
    BY <1>15 DEF PowerLoss
  <2>2. s = <<file', inode'>> /\ acked' = acked
    BY <1>0, <1>15, <2>1 DEF PowerLoss
  <2> QED
    BY <1>b, <1>15, <2>1, <2>2 DEF PowerLoss, Die, Durable
<1>16. CASE UNCHANGED vars
    BY <1>a, <1>16 DEF vars, locals
<1> QED
    BY <1>1, <1>2, <1>3, <1>4, <1>5, <1>6, <1>7, <1>8, <1>9, <1>10, <1>11, <1>12, <1>13,
       <1>14, <1>15, <1>16
       DEF Next, ThreadStep, LockTimeout, FailBeforeCommit, CheckRevision, TakeSnapshot

\* Every return and exception of save_config tells whether the call wrote.
LEMMA AnswerStep == TypeOK /\ Durable /\ OutcomeIsTruthful /\ [Next]_vars => OutcomeIsTruthful'
<1> SUFFICES ASSUME TypeOK, Durable, OutcomeIsTruthful, [Next]_vars PROVE OutcomeIsTruthful'
    OBVIOUS
<1>a. ASSUME NEW t \in Threads, NEW r, Return(t, r),
             r \in {"conflict", "error", "invalid"} => pc[t] # "dirsync",
             r \in {"ok", "commit_error"} => pc[t] = "dirsync"
      PROVE  OutcomeIsTruthful'
    BY <1>a DEF Return, OutcomeIsTruthful, Durable
<1>b. ASSUME answer'.result \in {"none", "loaded", "load_error"} PROVE OutcomeIsTruthful'
    BY <1>b DEF OutcomeIsTruthful
<1>c. ASSUME answer' = Silence PROVE OutcomeIsTruthful'
    BY <1>b, <1>c DEF Silence
<1>1. ASSUME NEW t \in Threads, NEW o \in Objs, LoadStat(t, o) PROVE OutcomeIsTruthful'
    BY <1>b, <1>c, <1>1 DEF LoadStat
<1>2. ASSUME NEW t \in Threads, LoadOpen(t) PROVE OutcomeIsTruthful'
    BY <1>b, <1>2 DEF LoadOpen
<1>3. ASSUME NEW t \in Threads, TakeSnapshot(t) PROVE OutcomeIsTruthful'
    BY <1>a, <1>c, <1>3 DEF TakeSnapshot
<1>4. ASSUME NEW t \in Threads, LockTimeout(t) PROVE OutcomeIsTruthful'
    BY <1>a, <1>4 DEF LockTimeout
<1>5. ASSUME NEW t \in Threads, CheckRevision(t) PROVE OutcomeIsTruthful'
    BY <1>a, <1>c, <1>5 DEF CheckRevision
<1>6. ASSUME NEW t \in Threads, FailBeforeCommit(t) PROVE OutcomeIsTruthful'
    BY <1>a, <1>6 DEF FailBeforeCommit
<1>7. ASSUME NEW t \in Threads, SyncDirectory(t) \/ FailAfterCommit(t) PROVE OutcomeIsTruthful'
    BY <1>a, <1>7 DEF SyncDirectory, FailAfterCommit
<1>8. CASE UNCHANGED vars
    BY <1>8 DEF vars, OutcomeIsTruthful
<1> QED
    BY <1>c, <1>1, <1>2, <1>3, <1>4, <1>5, <1>6, <1>7, <1>8
       DEF Next, ThreadStep, Edit, SaveCall, LockFile, WriteTemp, SyncTemp, Replace,
           Crash, PowerLoss, Die

-----------------------------------------------------------------------------
(* The theorems.                                                           *)

\* Every reachable state satisfies the inductive invariant of save_config.
THEOREM Invariance == Spec => []IInv
<1>1. Init => IInv
  <2> SUFFICES ASSUME Init PROVE IInv
    OBVIOUS
  <2>1. TypeOK
    BY TypeInit
  <2>2. Locking /\ Holding /\ Deriving
    BY DEF Init, Locking, Holding, Deriving, LockPCs, FlockPCs, Checked
  <2>3. Durable
    BY DEF Init, Durable
  <2>4. OutcomeIsTruthful
    BY DEF Init, Silence, OutcomeIsTruthful
  <2> QED
    BY <2>1, <2>2, <2>3, <2>4 DEF IInv
<1>2. IInv /\ [Next]_vars => IInv'
    BY TypeStep, LockStep, HoldStep, DeriveStep, DurableStep, AnswerStep DEF IInv
<1> QED
    BY <1>1, <1>2, PTL DEF Spec

\* Type correctness of the configuration store, for any threads, processes
\* and objects.
THEOREM TypeCorrectness == Spec => []TypeOK
<1>1. IInv => TypeOK
    BY DEF IInv
<1> QED
    BY <1>1, Invariance, PTL

\* No update is lost: whatever save_config publishes replaces exactly the
\* content it was derived from, for any number of processes and of threads
\* that share an AppConfig.
THEOREM NoUpdateIsLost == Spec => NoLostUpdate
<1>1. IInv /\ [Next]_vars => [\A t \in Threads : (~wrote[t] /\ wrote'[t]) => (base[t] = file /\ file' = snap[t])]_vars
  <2> SUFFICES ASSUME IInv, Next, NEW t \in Threads, ~wrote[t], wrote'[t]
               PROVE  base[t] = file /\ file' = snap[t]
    BY DEF vars
  <2>1. wrote \in [Threads -> BOOLEAN]
    BY DEF IInv, TypeOK
  <2>2. ASSUME Replace(t) PROVE base[t] = file /\ file' = snap[t]
    <3>1. base[t] = origin[obj[t]] /\ rev[obj[t]] = file
      BY <2>2 DEF Replace, IInv, Deriving, LockPCs, FlockPCs, Checked
    <3>2. rev[obj[t]] = origin[obj[t]]
      BY <2>2 DEF Replace, IInv, Deriving, Holding
    <3> QED
      BY <2>2, <3>1, <3>2 DEF Replace
  <2>3. ASSUME NEW T, Forget(T) PROVE FALSE
    BY <2>3 DEF Forget
  <2>4. ASSUME UNCHANGED wrote PROVE FALSE
    BY <2>4
  <2>5. ASSUME NEW u \in Threads, Replace(u) PROVE u = t
    BY <2>1, <2>5 DEF Replace
  <2>6. ASSUME NEW u \in Threads, ThreadStep(u) PROVE Replace(t)
    BY <2>3, <2>4, <2>5, <2>6
       DEF ThreadStep, LoadOpen, TakeSnapshot, LockFile, LockTimeout, CheckRevision, WriteTemp,
           SyncTemp, FailBeforeCommit, SyncDirectory, FailAfterCommit, Return, locals
  <2>7. ASSUME NEW u \in Threads, NEW o \in Objs, LoadStat(u, o) \/ SaveCall(u, o) PROVE FALSE
    BY <2>4, <2>7 DEF LoadStat, SaveCall
  <2>8. ASSUME NEW o \in Objs, Edit(o) PROVE FALSE
    BY <2>4, <2>8 DEF Edit, locals
  <2>9. ASSUME NEW P, Die(P) PROVE FALSE
    BY <2>3, <2>9 DEF Die
  <2> QED
    BY <2>2, <2>6, <2>7, <2>8, <2>9 DEF Next, Crash, PowerLoss
<1> QED
    BY <1>1, Invariance, PTL DEF Spec, NoLostUpdate

\* What save_config returns or raises says whether its snapshot was published.
THEOREM OutcomesAreTruthful == Spec => []OutcomeIsTruthful
<1>1. IInv => OutcomeIsTruthful
    BY DEF IInv
<1> QED
    BY <1>1, Invariance, PTL

\* A save that returned normally survives every power loss.
THEOREM AcknowledgedSavesSurvive == Spec => []AckedSurvives
<1>1. IInv => AckedSurvives
    BY DEF IInv, Durable, AckedSurvives
<1> QED
    BY <1>1, Invariance, PTL

\* The configuration is never left torn under its real name.
THEOREM FileIsNeverTorn == Spec => []NeverTorn
<1>1. IInv => NeverTorn
    BY DEF IInv, Durable, NeverTorn
<1> QED
    BY <1>1, Invariance, PTL

-----------------------------------------------------------------------------
(* Refinement of ConfigRegister.                                           *)

\* The empty store is the initial register.
LEMMA RegisterInit == Init => Register!Init
  BY DEF Init, Register!Init, Attempt, Register!NoAttempt

\* Every step of the store is a step of the register or invisible to it.
LEMMA RegisterStep == IInv /\ [Next]_vars => [Register!Next]_(Register!vars)
<1> SUFFICES ASSUME IInv, [Next]_vars PROVE Register!Next \/ UNCHANGED Register!vars
    OBVIOUS
<1>0. /\ pc \in [Threads -> PCs] /\ snap \in [Threads -> Values] /\ base \in [Threads -> Contents]
      /\ obj \in [Threads -> Objs \cup {None}]
    BY DEF IInv, TypeOK
<1> USE DEF PCs, Register!vars, Register!NoAttempt
<1>a. ASSUME UNCHANGED store, Attempt' = Attempt PROVE UNCHANGED Register!vars
    BY <1>a DEF store
<1>b. ASSUME NEW T \in SUBSET Threads, Forget(T)
      PROVE  Attempt' = [t \in Threads |-> IF t \in T THEN Register!NoAttempt ELSE Attempt[t]]
    BY <1>0, <1>b DEF Attempt, Forget
<1>c. ASSUME NEW T \in SUBSET Threads, Forget(T), UNCHANGED store PROVE Register!Next
    BY <1>b, <1>c DEF store, Register!Next, Register!Abandon
<1>d. ASSUME NEW t \in Threads, NEW to, pc' = [pc EXCEPT ![t] = to], UNCHANGED <<snap, base>>,
             pc[t] \in {"locking"} \cup {"checking"} \cup Checked <=> to \in {"locking"} \cup {"checking"} \cup Checked
      PROVE  Attempt' = Attempt
    BY <1>0, <1>d DEF Attempt, Checked
<1>1. ASSUME NEW t \in Threads, NEW o \in Objs, LoadStat(t, o) PROVE UNCHANGED Register!vars
  <2>1. CASE file = Missing
    BY <1>a, <1>1, <2>1 DEF LoadStat, Attempt
  <2>2. CASE file # Missing
    BY <1>a, <1>d, <1>1, <2>2 DEF LoadStat, Checked
  <2> QED
    BY <2>1, <2>2
<1>2. ASSUME NEW t \in Threads, LoadOpen(t) PROVE Register!Next
    BY <1>c, <1>2 DEF LoadOpen
<1>3. ASSUME NEW o \in Objs, Edit(o) PROVE UNCHANGED Register!vars
    BY <1>a, <1>3 DEF Edit, locals, Attempt
<1>4. ASSUME NEW t \in Threads, NEW o \in Objs, SaveCall(t, o) PROVE UNCHANGED Register!vars
    BY <1>a, <1>d, <1>4 DEF SaveCall, Checked
<1>5. ASSUME NEW t \in Threads, NEW r, Return(t, r), UNCHANGED store PROVE Register!Next
    BY <1>c, <1>5 DEF Return
<1>6. ASSUME NEW t \in Threads, TakeSnapshot(t), ~Return(t, "invalid") PROVE Register!Next
  <2>1. /\ pc[t] = "waiting" /\ pc' = [pc EXCEPT ![t] = "locking"]
        /\ snap' = [snap EXCEPT ![t] = data[obj[t]]] /\ base' = [base EXCEPT ![t] = origin[obj[t]]]
        /\ UNCHANGED store
    BY <1>6 DEF TakeSnapshot
  <2>2. obj[t] \in Objs
    BY <2>1 DEF IInv, Holding
  <2>3. data[obj[t]] \in Values /\ origin[obj[t]] \in Values \cup {Missing}
    BY <2>2 DEF IInv, TypeOK, Contents, Deriving
  <2>4. ~Attempt[t].open
    BY <2>1 DEF Attempt
  <2>5. Attempt' = [Attempt EXCEPT ![t] =
                      [base |-> origin[obj[t]], new |-> data[obj[t]], open |-> TRUE]]
    BY <1>0, <2>1 DEF Attempt
  <2>6. Register!Begin(t)
    BY <2>1, <2>3, <2>4, <2>5 DEF Register!Begin, store
  <2> QED
    BY <2>6 DEF Register!Next
<1>7. ASSUME NEW t \in Threads, LockFile(t) PROVE UNCHANGED Register!vars
    BY <1>a, <1>d, <1>7 DEF LockFile, locals, Checked
<1>8. ASSUME NEW t \in Threads, CheckRevision(t), ~Return(t, "conflict") PROVE UNCHANGED Register!vars
    BY <1>a, <1>d, <1>8 DEF CheckRevision, locals, Checked
<1>9. ASSUME NEW t \in Threads, WriteTemp(t) PROVE UNCHANGED Register!vars
    BY <1>a, <1>d, <1>9 DEF WriteTemp, locals, Checked
<1>10. ASSUME NEW t \in Threads, SyncTemp(t) PROVE UNCHANGED Register!vars
    BY <1>a, <1>d, <1>10 DEF SyncTemp, Checked
<1>11. ASSUME NEW t \in Threads, Replace(t) PROVE Register!Commit(t)
  <2>1. synced[t] /\ base[t] = file
    BY <1>11 DEF Replace, IInv, Durable, Deriving, Holding, LockPCs, FlockPCs, Checked
  <2>2. /\ Attempt[t] = [base |-> base[t], new |-> snap[t], open |-> TRUE]
        /\ Attempt' = [Attempt EXCEPT ![t] = Register!NoAttempt]
    BY <1>0, <1>11 DEF Replace, Attempt
  <2> QED
    BY <1>11, <2>1, <2>2 DEF Replace, Register!Commit
<1>12. ASSUME NEW t \in Threads, SyncDirectory(t) PROVE Register!Next
  <2>1. Attempt' = Attempt
    BY <1>0, <1>12 DEF SyncDirectory, Return, Forget, Attempt
  <2> QED
    BY <1>12, <2>1 DEF SyncDirectory, Register!Next, Register!Stabilize
<1>13. ASSUME NEW t \in Threads, FailAfterCommit(t) PROVE Register!Next \/ UNCHANGED Register!vars
  <2>1. Attempt' = Attempt
    BY <1>0, <1>13 DEF FailAfterCommit, Return, Forget, Attempt
  <2> QED
    BY <1>13, <2>1 DEF FailAfterCommit, Register!Next, Register!Stabilize
<1>14. ASSUME NEW p \in Procs, Crash(p) PROVE Register!Next
    BY <1>c, <1>14 DEF Crash, Die
<1>15. CASE PowerLoss
  <2>1. Attempt' = [t \in Threads |-> Register!NoAttempt]
    BY <1>0, <1>15 DEF PowerLoss, Die, Forget, Attempt
  <2> QED
    BY <1>15, <2>1 DEF PowerLoss, Register!Next, Register!PowerLoss
<1>16. CASE UNCHANGED vars
    BY <1>a, <1>16 DEF vars, locals, Attempt
<1> QED
    BY <1>1, <1>2, <1>3, <1>4, <1>5, <1>6, <1>7, <1>8, <1>9, <1>10, <1>11, <1>12, <1>13,
       <1>14, <1>15, <1>16
       DEF Next, ThreadStep, LockTimeout, FailBeforeCommit, CheckRevision, TakeSnapshot, Register!Next

\* save_config with its locks, temporary file and directory fsync implements
\* the compare-and-swap register its callers rely on.
THEOREM StoreImplementsRegister == Spec => ImplementsRegister
  BY RegisterInit, RegisterStep, Invariance, PTL DEF Spec, ImplementsRegister, Register!Spec
=============================================================================
